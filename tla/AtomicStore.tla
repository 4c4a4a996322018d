----------------------------- MODULE AtomicStore -----------------------------
(***************************************************************************)
(* What the log promises to file system calls: they change blocks between  *)
(* a begin and an end, and what survives a crash is the store as it was at *)
(* some moment when no call was in progress.                               *)
(***************************************************************************)
CONSTANTS Procs, Blocks, Values

VARIABLES
  mem,      \* the blocks as the calls see them
  stable,   \* the blocks as a crash would leave them
  active    \* the processes inside a call

Init ==
  /\ mem \in [Blocks -> Values]
  /\ stable = mem
  /\ active = {}

Begin(p) ==
  /\ p \notin active
  /\ active' = active \cup {p}
  /\ UNCHANGED <<mem, stable>>

Write(p, b, v) ==
  /\ p \in active
  /\ mem' = [mem EXCEPT ![b] = v]
  /\ UNCHANGED <<stable, active>>

End(p) ==
  /\ p \in active
  /\ active' = active \ {p}
  /\ UNCHANGED <<mem, stable>>

Commit ==
  /\ active = {}
  /\ stable' = mem
  /\ UNCHANGED <<mem, active>>

Crash ==
  /\ mem' = stable
  /\ active' = {}
  /\ UNCHANGED stable

Next ==
  \/ \E p \in Procs :
       Begin(p) \/ End(p) \/ \E b \in Blocks, v \in Values : Write(p, b, v)
  \/ Commit
  \/ Crash

Spec == Init /\ [][Next]_<<mem, stable, active>>

=============================================================================
