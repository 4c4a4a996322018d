------------------------------ MODULE MCBuffers ------------------------------
(* Instances of Buffers for TLC. *)
EXTENDS Buffers

=============================================================================
