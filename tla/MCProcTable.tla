----------------------------- MODULE MCProcTable -----------------------------
(* Instances of ProcTable for TLC. *)
EXTENDS ProcTable

LivePids == 1..MaxPid
AnyPids == 0..MaxPid

=============================================================================
