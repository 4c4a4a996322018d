--------------------------- MODULE ReadersWriters ---------------------------
(***************************************************************************)
(* What a readers-writer lock promises, without counters, sleepers or      *)
(* wakeups: a reader enters when no writer is inside, a writer enters      *)
(* when nobody is, and whoever is inside may leave.                        *)
(***************************************************************************)
CONSTANT Procs

VARIABLE hold     \* hold[p]: how p is inside, "none", "read" or "write"

Init == hold = [p \in Procs |-> "none"]

EnterRead(p) ==
  /\ hold[p] = "none"
  /\ \A q \in Procs : hold[q] # "write"
  /\ hold' = [hold EXCEPT ![p] = "read"]

EnterWrite(p) ==
  /\ \A q \in Procs : hold[q] = "none"
  /\ hold' = [hold EXCEPT ![p] = "write"]

Leave(p) ==
  /\ hold[p] # "none"
  /\ hold' = [hold EXCEPT ![p] = "none"]

Next == \E p \in Procs : EnterRead(p) \/ EnterWrite(p) \/ Leave(p)

Spec == Init /\ [][Next]_hold

=============================================================================
