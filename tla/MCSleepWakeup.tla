---------------------------- MODULE MCSleepWakeup ----------------------------
(* Instances of SleepWakeup for TLC. *)
EXTENDS SleepWakeup, TLC

Symmetry == Permutations(Procs) \cup Permutations(CPUs)

=============================================================================
