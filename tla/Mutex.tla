------------------------------- MODULE Mutex -------------------------------
(***************************************************************************)
(* What an exclusive lock promises: a process enters when nobody is        *)
(* inside, and only the process that is inside can take itself out.        *)
(***************************************************************************)
CONSTANT Procs

VARIABLE inside     \* the processes inside the lock

Init == inside = {}

Enter(p) == inside = {} /\ inside' = {p}

Leave(p) == inside = {p} /\ inside' = {}

Next == \E p \in Procs : Enter(p) \/ Leave(p)

Spec == Init /\ [][Next]_inside

=============================================================================
