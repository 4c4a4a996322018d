----------------------------- MODULE MCResources -----------------------------
(* Instances of Resources for TLC. *)
EXTENDS Resources

MCProcs == 1..3

=============================================================================
