------------------------------ MODULE MCPLock ------------------------------
(* Instances of PLock for TLC. *)
EXTENDS PLock

SomePriorities == {-1, 0, 1}

=============================================================================
