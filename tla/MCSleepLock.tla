---------------------------- MODULE MCSleepLock ----------------------------
(* Instances of SleepLock for TLC. *)
EXTENDS SleepLock

=============================================================================
