------------------------------- MODULE MCLog -------------------------------
(* Instances of Log for TLC. *)
EXTENDS Log

\* Blocks are interchangeable; only for a run without liveness.
Symmetry == Permutations(Blocks)

=============================================================================
