---------------------------- MODULE ProcessProofs ----------------------------
(***************************************************************************)
(* Proofs about the processes of the kernel.                               *)
(*                                                                         *)
(* ProcTable, for a table of any size and any number of forks, with kill() *)
(* called for any pid: every process but init has a parent that can still  *)
(* wait for it, an entry being filled in is reserved, and a pid names one  *)
(* process.                                                                *)
(* SleepWakeup, for every number of processes and processors: a process    *)
(* runs on one processor at a time, both locks are held exactly where the  *)
(* code needs them, and sleep() and wakeup() implement the atomic steps of *)
(* AtomicWait, which the other modules are written with.                   *)
(***************************************************************************)
EXTENDS ProcTable, SleepWakeup, TLAPS

-----------------------------------------------------------------------------
(* ProcTable *)

\* init never leaves the table: exit() panics for it, so nobody reaps it.  It
\* has no parent, and no process is its own.
InitLives ==
  /\ state[initproc] \in {"RUNNABLE", "SLEEPING"}
  /\ parent[initproc] = NoSlot
  /\ \A s \in Slots : parent[s] # s

\* The inductive invariant.  EmbryosOwned and InitLives are what ParentAlive
\* needs: a process half way through fork() cannot exit, and the process that
\* adopts the orphans is alive.
IInv ==
  TypeOK /\ InitLives /\ EmbryosOwned /\ ParentAlive /\ PidsUnique /\ WaiterNotMissed

USE ProcTableAssumption
    DEF Slots, initproc, NoSlot, table, vars, States, InitLives, Live

\* The invariant holds when the system starts.
LEMMA InitIInv == Init => IInv
<1> SUFFICES ASSUME Init PROVE IInv
  OBVIOUS
<1>1. TypeOK
  <2>1. pid \in [Slots -> 0..(nextpid - 1)]
    BY DEF Init
  <2>2. state \in [Slots -> States]
    BY DEF Init
  <2>3. /\ parent \in [Slots -> Slots \cup {NoSlot}]
        /\ forking \in [Slots -> Slots \cup {NoSlot}]
    BY DEF Init
  <2>4. killed \in [Slots -> BOOLEAN] /\ waiting \in [Slots -> BOOLEAN]
    BY DEF Init
  <2>5. nextpid \in Nat \ {0}
    BY DEF Init
  <2>6. panicked \in BOOLEAN
    BY DEF Init
  <2>7. QED
    BY <2>1, <2>2, <2>3, <2>4, <2>5, <2>6 DEF TypeOK
<1>5. InitLives
  BY DEF Init
<1>2. EmbryosOwned /\ ParentAlive
  BY DEF Init, EmbryosOwned, ParentAlive
<1>3. PidsUnique /\ WaiterNotMissed
  BY DEF Init, PidsUnique, WaiterNotMissed
<1>6. QED
  BY <1>1, <1>2, <1>3, <1>5 DEF IInv

\* fork() step by step.
LEMMA AllocStep ==
  ASSUME IInv, NEW p \in Slots, NEW s \in Slots, allocproc(p, s)
  PROVE  IInv'
<1> USE DEF allocproc, FirstUnused, InUser
<1>1. TypeOK' /\ InitLives'
  <2>1. TypeOK'
    BY DEF IInv, TypeOK
  <2>2. InitLives'
    BY DEF IInv, TypeOK
  <2>3. QED
    BY <2>1, <2>2
<1>2. EmbryosOwned'
  <2>1. s # p /\ \A q \in Slots : forking[q] # s
    BY DEF IInv, EmbryosOwned
  <2>2. QED
    BY <2>1 DEF IInv, TypeOK, EmbryosOwned
<1>3. ParentAlive'
  BY DEF IInv, TypeOK, EmbryosOwned, ParentAlive
<1>4. PidsUnique'
  BY DEF IInv, TypeOK, PidsUnique
<1>5. WaiterNotMissed'
  BY DEF IInv, TypeOK, WaiterNotMissed, Children, Zombies
<1>6. QED
  BY <1>1, <1>2, <1>3, <1>4, <1>5 DEF IInv

\* ForkFails keeps the invariant.
LEMMA ForkFailsStep ==
  ASSUME IInv, NEW p \in Slots, ForkFails(p)
  PROVE  IInv'
<1> USE DEF ForkFails
<1>1. TypeOK' /\ InitLives'
  BY DEF IInv, TypeOK, EmbryosOwned
<1>2. EmbryosOwned'
  BY DEF IInv, TypeOK, EmbryosOwned
<1>3. parent[forking[p]] = NoSlot
  BY DEF IInv, TypeOK, EmbryosOwned, ParentAlive
<1>4. ParentAlive'
  BY <1>3 DEF IInv, TypeOK, EmbryosOwned, ParentAlive
<1>5. PidsUnique'
  BY DEF IInv, TypeOK, PidsUnique
<1>6. WaiterNotMissed'
  BY <1>3 DEF IInv, TypeOK, WaiterNotMissed, Children, Zombies
<1>7. QED
  BY <1>1, <1>2, <1>4, <1>5, <1>6 DEF IInv

\* ForkCopies keeps the invariant.
LEMMA ForkCopiesStep ==
  ASSUME IInv, NEW p \in Slots, ForkCopies(p)
  PROVE  IInv'
<1> USE DEF ForkCopies
<1>1. TypeOK' /\ InitLives'
  BY DEF IInv, TypeOK, EmbryosOwned
<1>2. EmbryosOwned' /\ PidsUnique'
  BY DEF IInv, EmbryosOwned, PidsUnique
<1>3. parent[forking[p]] = NoSlot
  BY DEF IInv, TypeOK, EmbryosOwned, ParentAlive
<1>4. ParentAlive'
  BY <1>3 DEF IInv, TypeOK, EmbryosOwned, ParentAlive
<1>5. WaiterNotMissed'
  BY <1>3 DEF IInv, TypeOK, EmbryosOwned, WaiterNotMissed, Children, Zombies
<1>6. QED
  BY <1>1, <1>2, <1>4, <1>5 DEF IInv

\* ForkDone keeps the invariant.
LEMMA ForkDoneStep ==
  ASSUME IInv, NEW p \in Slots, ForkDone(p)
  PROVE  IInv'
<1> DEFINE s == forking[p]
<1>1. /\ s \in Slots /\ s # p /\ parent[s] = p /\ state[s] = "EMBRYO" /\ state[p] = "RUNNABLE"
      /\ \A q \in Slots : forking[q] = s => q = p
  BY DEF ForkDone, IInv, TypeOK, EmbryosOwned
<1>2. /\ state' = [state EXCEPT ![s] = "RUNNABLE"] /\ forking' = [forking EXCEPT ![p] = NoSlot]
      /\ UNCHANGED <<pid, parent, killed, nextpid, waiting, panicked>>
  BY DEF ForkDone
<1>3. DOMAIN state = Slots /\ DOMAIN forking = Slots
  BY DEF IInv, TypeOK
<1> HIDE DEF s
<1>4. /\ \A t \in Slots : state'[t] = IF t = s THEN "RUNNABLE" ELSE state[t]
      /\ \A t \in Slots : forking'[t] = IF t = p THEN NoSlot ELSE forking[t]
  BY <1>1, <1>2, <1>3
<1>5. TypeOK'
  BY <1>1, <1>2 DEF IInv, TypeOK
<1>6. InitLives'
  BY <1>1, <1>2, <1>4 DEF IInv
<1>7. EmbryosOwned'
  <2> SUFFICES ASSUME NEW q \in Slots, forking'[q] # NoSlot
               PROVE  /\ state'[forking'[q]] = "EMBRYO" /\ state'[q] = "RUNNABLE"
                      /\ \A t \in Slots : forking'[t] = forking'[q] => t = q
    BY DEF EmbryosOwned
  <2>1. q # p /\ forking'[q] = forking[q] /\ forking[q] # NoSlot
    BY <1>4
  <2>2. /\ state[forking[q]] = "EMBRYO" /\ state[q] = "RUNNABLE"
        /\ \A t \in Slots : forking[t] = forking[q] => t = q
    BY <2>1 DEF IInv, EmbryosOwned
  <2>3. forking[q] \in Slots
    BY <2>1 DEF IInv, TypeOK
  <2>4. forking[q] # s /\ state'[forking[q]] = "EMBRYO"
    BY <1>1, <1>4, <2>1, <2>2, <2>3
  <2>5. state'[q] = "RUNNABLE"
    BY <1>4, <2>2
  <2>6. ASSUME NEW t \in Slots, forking'[t] = forking[q] PROVE t = q
    BY <1>4, <2>1, <2>2, <2>6
  <2>7. QED
    BY <2>1, <2>4, <2>5, <2>6
<1>8. ParentAlive'
  BY <1>1, <1>2, <1>4 DEF IInv, ParentAlive
<1>9. PidsUnique'
  BY <1>1, <1>2, <1>4 DEF IInv, PidsUnique
<1>10. WaiterNotMissed'
  <2>1. \A q \in Slots : Children(q)' = Children(q) /\ Zombies(q)' = Zombies(q)
    BY <1>1, <1>2, <1>4 DEF Children, Zombies
  <2>2. QED
    BY <1>4, <2>1 DEF IInv, WaiterNotMissed
<1>11. QED
  BY <1>5, <1>6, <1>7, <1>8, <1>9, <1>10 DEF IInv

\* exit(): the parent is woken, the children go to init.
LEMMA ExitStep ==
  ASSUME IInv, NEW p \in Slots, Exit(p)
  PROVE  IInv'
<1>1. /\ state[p] = "RUNNABLE" /\ forking[p] = NoSlot /\ p # initproc
      /\ parent[p] \in Slots /\ p # parent[p]
  BY DEF Exit, InUser, IInv, ParentAlive
<1>2. state' = [s \in Slots |-> IF s = p THEN "ZOMBIE"
                 ELSE IF s \in Heirs(p) /\ state[s] = "SLEEPING" THEN "RUNNABLE"
                 ELSE state[s]]
  BY DEF Exit, Woken
<1>3. parent' = [s \in Slots |-> IF parent[s] = p THEN initproc ELSE parent[s]]
  BY DEF Exit, Orphans
<1>4. UNCHANGED <<pid, killed, nextpid, forking, waiting, panicked>>
  BY DEF Exit
<1>5. ASSUME NEW s \in Slots, parent[s] = p
      PROVE  state[s] # "EMBRYO" /\ state[s] # "UNUSED"
  <2>1. s # 0 /\ p # 0
    OBVIOUS
  <2>2. QED
    BY <1>1, <1>5, <2>1 DEF IInv, ParentAlive
<1>6. TypeOK' /\ InitLives'
  <2>1. TypeOK'
    <3>1. state' \in [Slots -> States]
      BY <1>2 DEF IInv, TypeOK
    <3>2. parent' \in [Slots -> Slots \cup {NoSlot}]
      BY <1>3 DEF IInv, TypeOK
    <3>3. QED
      BY <1>4, <3>1, <3>2 DEF IInv, TypeOK
  <2>2. InitLives'
    BY <1>1, <1>2, <1>3, <1>4 DEF IInv, TypeOK
  <2>3. QED
    BY <2>1, <2>2
<1>7. EmbryosOwned'
  BY <1>1, <1>2, <1>4 DEF IInv, TypeOK, EmbryosOwned
<1>8. ParentAlive'
  BY <1>1, <1>2, <1>3, <1>4, <1>5 DEF IInv, TypeOK, EmbryosOwned, ParentAlive
<1>9. PidsUnique'
  BY <1>1, <1>2, <1>4 DEF IInv, TypeOK, PidsUnique
<1>10. WaiterNotMissed'
  <2> SUFFICES ASSUME NEW q \in Slots, state'[q] = "SLEEPING"
               PROVE  Children(q)' # {} /\ Zombies(q)' = {}
    BY DEF WaiterNotMissed
  <2>1. state[q] = "SLEEPING" /\ q \notin Heirs(p) /\ q # p
    BY <1>2
  <2>2. q # parent[p]
    BY <2>1 DEF Heirs
  <2>3. Children(q) # {} /\ Zombies(q) = {}
    BY <2>1 DEF IInv, WaiterNotMissed
  <2>4. Children(q)' # {}
    BY <1>3, <2>1, <2>3 DEF Children
  <2>5. \A s \in Slots : parent[s] = p /\ q = initproc => state[s] # "ZOMBIE"
    BY <2>1 DEF Heirs, Orphans
  <2>6. Zombies(q)' = {}
    BY <1>1, <1>2, <1>3, <2>1, <2>2, <2>3, <2>5 DEF Zombies, Children
  <2>7. QED
    BY <2>4, <2>6
<1>11. QED
  BY <1>6, <1>7, <1>8, <1>9, <1>10 DEF IInv

\* wait(): the freed entry was the parent of nobody.
LEMMA ReapStep ==
  ASSUME IInv, NEW p \in Slots, NEW s \in Slots, WaitReaps(p, s)
  PROVE  IInv'
<1> USE DEF WaitReaps, Scans
<1>1. state[s] = "ZOMBIE" /\ parent[s] = p /\ s # initproc /\ s # p
  BY DEF IInv, Zombies, Children
<1>2. TypeOK' /\ InitLives'
  BY <1>1 DEF IInv, TypeOK
<1>3. EmbryosOwned'
  BY <1>1 DEF IInv, TypeOK, EmbryosOwned
<1>4. ParentAlive'
  BY <1>1 DEF IInv, TypeOK, EmbryosOwned, ParentAlive
<1>5. PidsUnique'
  BY DEF IInv, TypeOK, PidsUnique
<1>6. WaiterNotMissed'
  BY <1>1 DEF IInv, TypeOK, WaiterNotMissed, Children, Zombies
<1>7. QED
  BY <1>2, <1>3, <1>4, <1>5, <1>6 DEF IInv

\* WaitSleeps keeps the invariant.
LEMMA WaitSleepsStep ==
  ASSUME IInv, NEW p \in Slots, WaitSleeps(p)
  PROVE  IInv'
<1> USE DEF WaitSleeps, Scans
<1>1. TypeOK' /\ InitLives'
  BY SMTT(20) DEF IInv, TypeOK
<1>2. EmbryosOwned' /\ ParentAlive'
  BY SMTT(20) DEF IInv, TypeOK, EmbryosOwned, ParentAlive
<1>3. PidsUnique'
  BY DEF IInv, TypeOK, PidsUnique
<1>4. WaiterNotMissed'
  BY DEF IInv, TypeOK, WaiterNotMissed, Children, Zombies
<1>5. QED
  BY <1>1, <1>2, <1>3, <1>4 DEF IInv

\* Kill keeps the invariant.
LEMMA KillStep ==
  ASSUME IInv, NEW p \in Slots, NEW n \in KillPids, NEW s \in Slots, Kill(p, n, s)
  PROVE  IInv'
<1> USE DEF Kill, InUser
<1>1. TypeOK' /\ InitLives'
  <2>1. TypeOK'
    BY DEF IInv, TypeOK
  <2>2. InitLives'
    BY DEF IInv, TypeOK
  <2>3. QED
    BY <2>1, <2>2
<1>2. EmbryosOwned' /\ ParentAlive'
  <2>1. /\ \A t \in Slots : state'[t] = state[t] \/ (state[t] = "SLEEPING" /\ state'[t] = "RUNNABLE")
        /\ UNCHANGED <<parent, forking>>
    BY DEF IInv, TypeOK
  <2> HIDE DEF Kill, InUser
  <2>2. EmbryosOwned'
    BY <2>1, SMTT(20) DEF IInv, TypeOK, EmbryosOwned
  <2>3. ParentAlive'
    BY <2>1 DEF IInv, TypeOK, ParentAlive
  <2>4. QED
    BY <2>2, <2>3
<1>3. PidsUnique'
  BY DEF IInv, TypeOK, PidsUnique
<1>4. WaiterNotMissed'
  BY SMTT(20) DEF IInv, TypeOK, WaiterNotMissed, Children, Zombies
<1>5. QED
  BY <1>1, <1>2, <1>3, <1>4 DEF IInv

\* Steps that leave the table and the forks alone.
LEMMA OtherStep ==
  ASSUME IInv, UNCHANGED <<table, nextpid, forking>>,
         waiting' \in [Slots -> BOOLEAN], panicked' \in BOOLEAN
  PROVE  IInv'
  BY DEF IInv, TypeOK, EmbryosOwned, ParentAlive, PidsUnique, WaiterNotMissed,
         Children, Zombies

\* Every step, and every stutter, keeps the invariant.
LEMMA NextIInv == IInv /\ [Next]_vars => IInv'
<1> SUFFICES ASSUME IInv, [Next]_vars PROVE IInv'
  OBVIOUS
<1>1. CASE UNCHANGED vars
  BY <1>1, OtherStep DEF IInv, TypeOK
<1>2. ASSUME NEW p \in Slots, ForkStep(p) PROVE IInv'
  BY <1>2, AllocStep, ForkFailsStep, ForkCopiesStep, ForkDoneStep DEF ForkStep
<1>3. ASSUME NEW p \in Slots, WaitFails(p) PROVE IInv'
  BY <1>3, OtherStep DEF WaitFails, IInv, TypeOK
<1>4. ASSUME NEW p \in Slots, WaitStep(p) PROVE IInv'
  BY <1>3, <1>4, ReapStep, WaitSleepsStep DEF WaitStep
<1>5. CASE ExitInit
  BY <1>5, OtherStep DEF ExitInit, IInv, TypeOK
<1>6. CASE Next
  BY <1>2, <1>4, <1>5, <1>6, ExitStep, KillStep DEF Next
<1>7. QED
  BY <1>1, <1>6

\* The invariant holds of every behaviour.
THEOREM Invariance == Spec => []IInv
<1>1. QED
  BY InitIInv, NextIInv, PTL DEF Spec

\* Every process but init always has a living parent, half-made children and
\* failed forks included.
THEOREM ParentsAlive == Spec => [](TypeOK /\ ParentAlive)
<1>1. IInv => TypeOK /\ ParentAlive
  BY DEF IInv
<1>2. QED
  BY <1>1, Invariance, PTL

\* The entry that a fork() fills in without ptable.lock stays EMBRYO and its own,
\* and a pid names at most one process.
THEOREM EntriesExclusive == Spec => [](EmbryosOwned /\ PidsUnique)
<1>1. IInv => EmbryosOwned /\ PidsUnique
  BY DEF IInv
<1>2. QED
  BY <1>1, Invariance, PTL

\* No process sleeps in wait() over a child that has exited.
THEOREM WaitersNotMissed == Spec => []WaiterNotMissed
<1>1. IInv => WaiterNotMissed
  BY DEF IInv
<1>2. QED
  BY <1>1, Invariance, PTL

-----------------------------------------------------------------------------
(* SleepWakeup *)

\* A process that is on no processor is inside swtch(), in sleep() or yield().
Parked ==
  \A p \in Procs :
    /\ pstate[p] # "RUNNING" => at[p] \in {"tidy", "resume"}
    /\ pstate[p] = "SLEEPING" => onchan[p]

InScan == \A c \in CPUs : proc[c] # None => scan[c]

HasVictim == \A p \in Procs : at[p] = "kill" => victim[p] \in Procs

\* Between the test that found no token and p->state = SLEEPING, and between
\* the new token and the wakeup of those who wait for it.
Falling == {"enter", "sleep", "asleep"}
Waking == {"wakeup", "wakeup1"}

\* No token is announced to a process that is falling asleep.
Quiet ==
  /\ \A p \in Procs : at[p] \in Falling => Announced = 0
  /\ \A p \in Procs : at[p] \in Waking => tokens > 0

\* The inductive invariant.
SWIInv == SWTypeOK /\ OnOneCpu /\ LocksExact /\ Parked /\ InScan /\ HasVictim /\ Quiet

USE SleepWakeupAssumption

\* The invariant holds when the system starts.
LEMMA SWInitIInv == SWInit => SWIInv
<1> SUFFICES ASSUME SWInit PROVE SWIInv
  OBVIOUS
<1>1. SWTypeOK
  BY DEF SWInit, SWTypeOK, Places
<1>2. OnOneCpu /\ LocksExact
  BY DEF SWInit, OnOneCpu, LocksExact
<1>3. Parked /\ InScan /\ HasVictim /\ Quiet
  BY DEF SWInit, Parked, InScan, HasVictim, Quiet, Falling, Waking
<1>4. QED
  BY <1>1, <1>2, <1>3 DEF SWIInv

\* A process that makes a step is RUNNING, and on no other processor.
LEMMA OnlyHere ==
  ASSUME SWIInv, NEW c \in CPUs, NEW p \in Procs, proc[c] = p
  PROVE  pstate[p] = "RUNNING" /\ \A d \in CPUs : proc[d] = p => d = c
<1>1. pstate[p] = "RUNNING"
  BY DEF SWIInv, OnOneCpu
<1>2. PICK e \in CPUs : \A d \in CPUs : proc[d] = p <=> d = e
  BY <1>1 DEF SWIInv, OnOneCpu
<1>3. QED
  BY <1>1, <1>2

-----------------------------------------------------------------------------
\* Processor c takes, keeps or drops the lock l as the place of its process
\* changes from one that needs it or does not to another.
Follows(c, l, new, needs, from, to) ==
  \/ (from \in needs <=> to \in needs) /\ new = l
  \/ from \notin needs /\ to \in needs /\ l = None /\ new = c
  \/ from \in needs /\ to \notin needs /\ new = None

\* A process moves while it stays on its processor.
LEMMA MoveStep ==
  ASSUME SWIInv, NEW c \in CPUs, NEW p \in Procs, NEW from, NEW to,
         Goes(c, p, from, to), UNCHANGED <<proc, scan>>,
         Follows(c, ptlock, ptlock', NeedsPt, from, to),
         Follows(c, lk, lk', NeedsLk, from, to),
         \A q \in Procs : pstate'[q] = "RUNNING" <=> pstate[q] = "RUNNING",
         \A q \in Procs : pstate'[q] = "SLEEPING" => pstate[q] = "SLEEPING" /\ onchan'[q] = onchan[q]
  PROVE  OnOneCpu' /\ LocksExact' /\ Parked' /\ InScan'
<1>1. proc[c] = p /\ at[p] = from /\ at' = [at EXCEPT ![p] = to] /\ p # None /\ c # None
  BY DEF Goes
<1>2. pstate[p] = "RUNNING" /\ \A d \in CPUs : proc[d] = p => d = c
  BY <1>1, OnlyHere
<1>3. at'[p] = to /\ \A q \in Procs : q # p => at'[q] = at[q]
  BY <1>1 DEF SWIInv, SWTypeOK
<1>4. OnOneCpu'
  BY DEF SWIInv, OnOneCpu
<1>5. Parked'
  BY <1>2, <1>3 DEF SWIInv, Parked
<1>6. InScan'
  BY DEF SWIInv, InScan
<1>7. ASSUME NEW d \in CPUs
      PROVE  /\ ptlock' = d <=> \/ scan[d] /\ proc[d] = None
                                \/ proc[d] # None /\ at'[proc[d]] \in NeedsPt
             /\ lk' = d <=> proc[d] # None /\ at'[proc[d]] \in NeedsLk
  <2>1. /\ ptlock = d <=> \/ scan[d] /\ proc[d] = None
                          \/ proc[d] # None /\ at[proc[d]] \in NeedsPt
        /\ lk = d <=> proc[d] # None /\ at[proc[d]] \in NeedsLk
        /\ ptlock = c <=> from \in NeedsPt
        /\ lk = c <=> from \in NeedsLk
    BY <1>1 DEF SWIInv, LocksExact
  <2>2. CASE d = c
    BY <1>1, <1>3, <2>1, <2>2 DEF Follows
  <2>3. CASE d # c
    <3>1. proc[d] # None => at'[proc[d]] = at[proc[d]]
      BY <1>2, <1>3, <2>3 DEF SWIInv, SWTypeOK
    <3>2. (ptlock' = d <=> ptlock = d) /\ (lk' = d <=> lk = d)
      BY <1>1, <2>1, <2>3 DEF Follows
    <3>3. QED
      BY <2>1, <3>1, <3>2
  <2>4. QED
    BY <2>2, <2>3
<1>8. LocksExact'
  BY <1>7 DEF LocksExact
<1>9. QED
  BY <1>4, <1>5, <1>6, <1>8

\* The token count stays, and so does what is announced.
LEMMA QuietStep ==
  ASSUME SWIInv, NEW c \in CPUs, NEW p \in Procs, NEW from, NEW to,
         Goes(c, p, from, to), UNCHANGED tokens,
         from \in Waking <=> to \in Waking, to \in Falling => from \in Falling
  PROVE  Quiet' /\ Announced' = Announced
<1>1. at[p] = from /\ at'[p] = to /\ \A q \in Procs : q # p => at'[q] = at[q]
  BY DEF Goes, SWIInv, SWTypeOK
<1>2. \A q \in Procs : at'[q] \in Waking <=> at[q] \in Waking
  BY <1>1
<1>3. Announced' = Announced
  BY <1>2 DEF Announced, Waking
<1>4. \A q \in Procs : at'[q] \in Falling => at[q] \in Falling
  BY <1>1
<1>5. QED
  BY <1>2, <1>3, <1>4 DEF SWIInv, Quiet

\* Lock operations and tests, which change neither processes nor tokens.
LEMMA PlainStep ==
  ASSUME SWIInv, NEW c \in CPUs, NEW p \in Procs, NEW from, NEW to \in Places,
         Goes(c, p, from, to),
         Follows(c, ptlock, ptlock', NeedsPt, from, to),
         Follows(c, lk, lk', NeedsLk, from, to),
         UNCHANGED <<proc, scan, procvars, back, victim, tokens>>,
         from \in Waking <=> to \in Waking, to \in Falling => from \in Falling,
         to # "kill"
  PROVE  SWIInv'
<1>1. OnOneCpu' /\ LocksExact' /\ Parked' /\ InScan'
  BY MoveStep DEF procvars
<1>2. Quiet'
  BY QuietStep
<1>3. ptlock' \in CPUs \cup {None} /\ lk' \in CPUs \cup {None}
  BY DEF SWIInv, SWTypeOK, Follows
<1>4. SWTypeOK'
  BY <1>3 DEF SWIInv, SWTypeOK, Goes, procvars
<1>5. HasVictim'
  BY DEF SWIInv, SWTypeOK, HasVictim, Goes
<1>6. QED
  BY <1>1, <1>2, <1>4, <1>5 DEF SWIInv

\* Acquisitions and releases of the two locks keep the invariant.
LEMMA LockSteps ==
  ASSUME SWIInv, NEW c \in CPUs, NEW p \in Procs,
         \/ TakeEnter(c, p) \/ GiveUp(c, p) \/ SleepSwapLocks(c, p) \/ SleepRelock(c, p)
         \/ PutEnter(c, p) \/ PutFull(c, p)
         \/ WakeupEnter(c, p) \/ WakeupLeave(c, p) \/ Leave(c, p)
         \/ KillLeave(c, p) \/ YieldLeave(c, p)
  PROVE  SWIInv'
<1> USE DEF Follows, NeedsPt, NeedsLk, Waking, Falling, Places
<1>1. CASE TakeEnter(c, p) \/ SleepRelock(c, p) \/ PutEnter(c, p)
  BY <1>1, PlainStep DEF TakeEnter, SleepRelock, PutEnter, GetLk
<1>2. CASE GiveUp(c, p)
  BY <1>2, PlainStep DEF GiveUp
<1>3. CASE SleepSwapLocks(c, p)
  BY <1>3, PlainStep DEF SleepSwapLocks, GetPt, DropLk
<1>4. CASE PutFull(c, p) \/ Leave(c, p)
  BY <1>4, PlainStep DEF PutFull, Leave, DropLk
<1>5. CASE WakeupEnter(c, p)
  BY <1>5, PlainStep DEF WakeupEnter, GetPt
<1>6. CASE WakeupLeave(c, p) \/ KillLeave(c, p)
  BY <1>6, PlainStep DEF WakeupLeave, KillLeave, DropPt
<1>7. CASE YieldLeave(c, p)
  <2>1. back[p] \in {"user", "relock"}
    BY DEF SWIInv, SWTypeOK
  <2>2. QED
    BY <1>7, <2>1, PlainStep DEF YieldLeave, DropPt
<1>8. QED
  BY <1>1, <1>2, <1>3, <1>4, <1>5, <1>6, <1>7

\* Nobody else holds lk, so nobody else announces a token.
LEMMA AloneInLk ==
  ASSUME SWIInv, NEW c \in CPUs, NEW p \in Procs, proc[c] = p, at[p] \in NeedsLk,
         NEW q \in Procs, at[q] \in NeedsLk \ {"tidy", "resume"}
  PROVE  q = p
<1>1. pstate[q] = "RUNNING"
  BY DEF SWIInv, Parked, NeedsLk
<1>2. PICK d \in CPUs : proc[d] = q
  BY <1>1 DEF SWIInv, OnOneCpu
<1>3. lk = c /\ lk = d
  BY <1>2 DEF SWIInv, LocksExact
<1>4. QED
  BY <1>2, <1>3

\* A process that tests the condition sees every token already announced.
LEMMA TestSees ==
  ASSUME SWIInv, NEW c \in CPUs, NEW p \in Procs, proc[c] = p, at[p] \in {"test", "put"}
  PROVE  Announced = tokens
<1>1. at[p] \in NeedsLk /\ at[p] \notin Waking
  BY DEF NeedsLk, Waking
<1>2. \A q \in Procs : at[q] \notin Waking
  BY <1>1, AloneInLk DEF NeedsLk, Waking
<1>3. QED
  BY <1>2 DEF Announced, Waking

\* Take keeps the invariant.
LEMMA TakeStep ==
  ASSUME SWIInv, NEW c \in CPUs, NEW p \in Procs, Take(c, p)
  PROVE  SWIInv'
<1> USE DEF Follows, NeedsPt, NeedsLk, Waking, Falling
<1>1. OnOneCpu' /\ LocksExact' /\ Parked' /\ InScan'
  BY MoveStep DEF Take, procvars
<1>2. SWTypeOK'
  BY DEF SWIInv, SWTypeOK, Places, Take, Goes, procvars
<1>3. HasVictim'
  BY DEF SWIInv, SWTypeOK, HasVictim, Take, Goes
<1>4. proc[c] = p /\ at[p] = "test" /\ tokens > 0
  BY DEF Take, Goes
<1>5. Announced = tokens /\ \A q \in Procs : at[q] \notin Falling
  BY <1>4, TestSees DEF SWIInv, Quiet
<1>6. \A q \in Procs : at[q] \notin Waking
  BY <1>4, AloneInLk
<1>7. \A q \in Procs : at'[q] = at[q] \/ at'[q] = "drop"
  BY DEF Take, Goes, SWIInv, SWTypeOK
<1>8. Quiet'
  BY <1>5, <1>6, <1>7 DEF Quiet
<1>9. QED
  BY <1>1, <1>2, <1>3, <1>8 DEF SWIInv

\* SleepCall keeps the invariant.
LEMMA SleepCallStep ==
  ASSUME SWIInv, NEW c \in CPUs, NEW p \in Procs, SleepCall(c, p)
  PROVE  SWIInv'
<1> USE DEF Follows, NeedsPt, NeedsLk, Waking, Falling
<1>1. OnOneCpu' /\ LocksExact' /\ Parked' /\ InScan'
  BY MoveStep DEF SleepCall, procvars
<1>2. SWTypeOK'
  BY DEF SWIInv, SWTypeOK, Places, SleepCall, Goes, procvars
<1>3. HasVictim'
  BY DEF SWIInv, SWTypeOK, HasVictim, SleepCall, Goes
<1>4. proc[c] = p /\ at[p] = "test" /\ tokens = 0 /\ tokens' = tokens
  BY DEF SleepCall, Goes
<1>5. \A q \in Procs : at[q] \notin Waking
  BY <1>4, AloneInLk
<1>6. \A q \in Procs : at'[q] = at[q] \/ at'[q] = "enter"
  BY DEF SleepCall, Goes, SWIInv, SWTypeOK
<1>7. \A q \in Procs : at'[q] \notin Waking
  BY <1>5, <1>6
<1>8. Quiet'
  BY <1>4, <1>7 DEF Quiet, Announced
<1>9. QED
  BY <1>1, <1>2, <1>3, <1>8 DEF SWIInv

\* Put keeps the invariant.
LEMMA PutStep ==
  ASSUME SWIInv, NEW c \in CPUs, NEW p \in Procs, Put(c, p)
  PROVE  SWIInv' /\ Announced' = Announced
<1> USE DEF Follows, NeedsPt, NeedsLk, Waking, Falling
<1>1. OnOneCpu' /\ LocksExact' /\ Parked' /\ InScan'
  BY MoveStep DEF Put, procvars
<1>2. SWTypeOK'
  BY DEF SWIInv, SWTypeOK, Places, Put, Goes, procvars
<1>3. HasVictim'
  BY DEF SWIInv, SWTypeOK, HasVictim, Put, Goes
<1>4. proc[c] = p /\ at[p] = "put" /\ tokens' = tokens + 1
  BY DEF Put, Goes
<1>5. Announced = tokens /\ tokens \in Nat
  BY <1>4, TestSees DEF SWIInv, SWTypeOK
<1>6. at'[p] = "wakeup" /\ \A q \in Procs : q # p => at'[q] = at[q]
  BY DEF Put, Goes, SWIInv, SWTypeOK
<1>7. Announced' = Announced
  BY <1>4, <1>5, <1>6 DEF Announced
<1>8. Quiet'
  BY <1>4, <1>5, <1>6, <1>7 DEF SWIInv, Quiet
<1>9. QED
  BY <1>1, <1>2, <1>3, <1>7, <1>8 DEF SWIInv

\* A processor inside ptable.lock keeps all others out, so nobody is between
\* release(lk) and SLEEPING when a wakeup runs.
LEMMA AloneInPt ==
  ASSUME SWIInv, NEW c \in CPUs, NEW p \in Procs, proc[c] = p, at[p] \in NeedsPt,
         NEW q \in Procs, at[q] \in NeedsPt \ {"tidy", "resume"}
  PROVE  q = p
<1>1. pstate[q] = "RUNNING"
  BY DEF SWIInv, Parked
<1>2. PICK d \in CPUs : proc[d] = q
  BY <1>1 DEF SWIInv, OnOneCpu
<1>3. proc[c] # None /\ proc[d] # None
  BY <1>2
<1>4. ptlock = c /\ ptlock = d
  BY <1>2, <1>3 DEF SWIInv, LocksExact
<1>5. QED
  BY <1>2, <1>4

\* wakeup1 keeps the invariant.
LEMMA wakeup1Step ==
  ASSUME SWIInv, NEW c \in CPUs, NEW p \in Procs, wakeup1(c, p)
  PROVE  SWIInv' /\ Announced = tokens - 1 /\ Announced' = tokens
<1> USE DEF Follows, NeedsPt, NeedsLk, Waking, Falling
<1>1. /\ Goes(c, p, "wakeup1", "woken") /\ UNCHANGED <<ptlock, lk, proc, scan, onchan>>
      /\ \A q \in Procs : pstate'[q] = IF pstate[q] = "SLEEPING" /\ onchan[q]
                                      THEN "RUNNABLE" ELSE pstate[q]
  BY DEF wakeup1
<1>2. OnOneCpu' /\ LocksExact' /\ Parked' /\ InScan'
  BY <1>1, MoveStep
<1>3. SWTypeOK'
  BY DEF SWIInv, SWTypeOK, Places, wakeup1, Goes
<1>4. HasVictim'
  BY DEF SWIInv, SWTypeOK, HasVictim, wakeup1, Goes
<1>5. proc[c] = p /\ at[p] = "wakeup1" /\ tokens' = tokens
  BY DEF wakeup1, Goes
<1>6. /\ \A q \in Procs : at[q] \in Waking => q = p
      /\ \A q \in Procs : at[q] \notin {"sleep", "asleep"}
  BY <1>5, AloneInLk, AloneInPt
<1>7. \A q \in Procs : at[q] # "enter"
  BY <1>5, AloneInLk
<1>8. at'[p] = "woken" /\ \A q \in Procs : q # p => at'[q] = at[q]
  BY <1>1 DEF Goes, SWIInv, SWTypeOK
<1>9. \A q \in Procs : at'[q] \notin Waking /\ at'[q] \notin Falling
  BY <1>6, <1>7, <1>8
<1>10. Quiet' /\ Announced' = tokens /\ Announced = tokens - 1
  BY <1>5, <1>9 DEF Quiet, Announced
<1>11. QED
  BY <1>2, <1>3, <1>4, <1>10 DEF SWIInv

\* KillEnter keeps the invariant.
LEMMA KillEnterStep ==
  ASSUME SWIInv, NEW c \in CPUs, NEW p \in Procs, NEW q \in Procs, KillEnter(c, p, q)
  PROVE  SWIInv'
<1> USE DEF Follows, NeedsPt, NeedsLk, Waking, Falling
<1>1. OnOneCpu' /\ LocksExact' /\ Parked' /\ InScan'
  BY MoveStep DEF KillEnter, procvars
<1>2. Quiet'
  BY QuietStep DEF KillEnter
<1>3. SWTypeOK' /\ HasVictim'
  BY DEF SWIInv, SWTypeOK, HasVictim, Places, KillEnter, Goes, procvars
<1>4. QED
  BY <1>1, <1>2, <1>3 DEF SWIInv

\* KillMark keeps the invariant.
LEMMA SWKillStep ==
  ASSUME SWIInv, NEW c \in CPUs, NEW p \in Procs, KillMark(c, p)
  PROVE  SWIInv'
<1> USE DEF Follows, NeedsPt, NeedsLk, Waking, Falling
<1>1. /\ Goes(c, p, "kill", "killed") /\ victim[p] \in Procs
      /\ UNCHANGED <<ptlock, lk, proc, scan, onchan>>
      /\ pstate' = [pstate EXCEPT ![victim[p]] = IF @ = "SLEEPING" THEN "RUNNABLE" ELSE @]
  BY DEF KillMark, Goes, SWIInv, HasVictim
<1>2. \A q \in Procs : pstate'[q] = IF q = victim[p] /\ pstate[q] = "SLEEPING"
                                   THEN "RUNNABLE" ELSE pstate[q]
  BY <1>1 DEF SWIInv, SWTypeOK
<1>3. OnOneCpu' /\ LocksExact' /\ Parked' /\ InScan'
  BY <1>1, <1>2, MoveStep
<1>4. Quiet'
  BY <1>1, QuietStep DEF KillMark
<1>5. SWTypeOK'
  BY <1>1 DEF SWIInv, SWTypeOK, Places, KillMark, Goes
<1>6. HasVictim'
  BY DEF SWIInv, SWTypeOK, HasVictim, KillMark, Goes
<1>7. QED
  BY <1>3, <1>4, <1>5, <1>6 DEF SWIInv

\* SleepTidy keeps the invariant.
LEMMA SleepTidyStep ==
  ASSUME SWIInv, NEW c \in CPUs, NEW p \in Procs, SleepTidy(c, p)
  PROVE  SWIInv'
<1> USE DEF Follows, NeedsPt, NeedsLk, Waking, Falling
<1>1. Goes(c, p, "tidy", "relock") /\ pstate[p] = "RUNNING"
      /\ UNCHANGED <<lk, proc, scan, pstate>> /\ ptlock' = None
  BY OnlyHere DEF SleepTidy, Goes
<1>2. \A q \in Procs : q # p => onchan'[q] = onchan[q]
  BY DEF SleepTidy, SWIInv, SWTypeOK
<1>3. OnOneCpu' /\ LocksExact' /\ Parked' /\ InScan'
  BY <1>1, <1>2, MoveStep
<1>4. Quiet'
  BY QuietStep DEF SleepTidy
<1>5. SWTypeOK' /\ HasVictim'
  BY DEF SWIInv, SWTypeOK, HasVictim, Places, SleepTidy, Goes
<1>6. QED
  BY <1>3, <1>4, <1>5 DEF SWIInv

\* YieldEnter keeps the invariant.
LEMMA YieldEnterStep ==
  ASSUME SWIInv, NEW c \in CPUs, NEW p \in Procs, YieldEnter(c, p)
  PROVE  SWIInv'
<1> USE DEF Follows, NeedsPt, NeedsLk, Waking, Falling
<1>1. PICK from \in {"user", "relock"} :
        Goes(c, p, from, "yield") /\ back' = [back EXCEPT ![p] = from]
  BY DEF YieldEnter
<1>2. OnOneCpu' /\ LocksExact' /\ Parked' /\ InScan'
  BY <1>1, MoveStep DEF YieldEnter, procvars
<1>3. Quiet'
  BY <1>1, QuietStep DEF YieldEnter
<1>4. SWTypeOK' /\ HasVictim'
  BY <1>1 DEF SWIInv, SWTypeOK, HasVictim, Places, YieldEnter, Goes, procvars
<1>5. QED
  BY <1>2, <1>3, <1>4 DEF SWIInv

-----------------------------------------------------------------------------
\* sched(): the process leaves its processor, with ptable.lock held.
LEMMA SchedStep ==
  ASSUME SWIInv, NEW c \in CPUs, NEW p \in Procs, NEW from \in NeedsPt \ NeedsLk,
         NEW to \in {"tidy", "resume"}, Goes(c, p, from, to), Sched(c),
         UNCHANGED <<ptlock, lk>>,
         pstate'[p] # "RUNNING", \A q \in Procs : q # p => pstate'[q] = pstate[q],
         pstate'[p] = "SLEEPING" => onchan'[p],
         \A q \in Procs : q # p => onchan'[q] = onchan[q]
  PROVE  OnOneCpu' /\ LocksExact' /\ Parked' /\ InScan'
<1>1. proc[c] = p /\ at[p] = from /\ p # None
  BY DEF Goes
<1>2. at'[p] = to /\ \A q \in Procs : q # p => at'[q] = at[q]
  BY DEF Goes, SWIInv, SWTypeOK
<1>3. \A d \in CPUs : d # c => proc[d] # p
  BY <1>1, OnlyHere
<1>4. scan' = scan /\ \A d \in CPUs : proc'[d] = IF d = c THEN None ELSE proc[d]
  BY DEF Sched, SWIInv, SWTypeOK
<1>5. OnOneCpu'
  <2>1. ASSUME NEW q \in Procs, pstate'[q] = "RUNNING"
        PROVE  \E e \in CPUs : \A d \in CPUs : proc'[d] = q <=> d = e
    <3>1. PICK e \in CPUs : \A d \in CPUs : proc[d] = q <=> d = e
      BY <2>1 DEF SWIInv, OnOneCpu
    <3>2. q # p
      BY <2>1
    <3>3. \A d \in CPUs : proc'[d] = q <=> d = e
      BY <1>1, <1>4, <3>1, <3>2
    <3>4. QED
      BY <3>3
  <2>2. ASSUME NEW q \in Procs, pstate'[q] # "RUNNING", NEW d \in CPUs
        PROVE  proc'[d] # q
    BY <1>1, <1>3, <1>4, <2>2 DEF SWIInv, OnOneCpu
  <2>3. QED
    BY <2>1, <2>2 DEF OnOneCpu
<1>6. LocksExact'
  <2>1. ptlock = c /\ lk # c
    BY <1>1 DEF SWIInv, LocksExact
  <2>2. scan[c]
    BY <1>1 DEF SWIInv, InScan
  <2>3. ASSUME NEW d \in CPUs
        PROVE  /\ ptlock = d <=> \/ scan[d] /\ proc'[d] = None
                                 \/ proc'[d] # None /\ at'[proc'[d]] \in NeedsPt
               /\ lk = d <=> proc'[d] # None /\ at'[proc'[d]] \in NeedsLk
    <3>1. CASE d = c
      BY <1>4, <2>1, <2>2, <3>1
    <3>2. CASE d # c
      <4>1. proc'[d] = proc[d] /\ (proc[d] # None => at'[proc[d]] = at[proc[d]])
        BY <1>2, <1>3, <1>4, <3>2 DEF SWIInv, SWTypeOK
      <4>2. QED
        BY <4>1 DEF SWIInv, LocksExact
    <3>3. QED
      BY <3>1, <3>2
  <2>4. QED
    BY <1>4, <2>3 DEF LocksExact
<1>7. Parked'
  BY <1>2 DEF SWIInv, Parked
<1>8. InScan'
  BY <1>4 DEF SWIInv, InScan
<1>9. QED
  BY <1>5, <1>6, <1>7, <1>8

\* SleepSched keeps the invariant.
LEMMA SleepSchedStep ==
  ASSUME SWIInv, NEW c \in CPUs, NEW p \in Procs, SleepSched(c, p)
  PROVE  SWIInv' /\ Announced = 0 /\ Announced' = Announced
<1> USE DEF NeedsPt, NeedsLk, Waking, Falling
<1>1. /\ Goes(c, p, "asleep", "tidy") /\ Sched(c) /\ UNCHANGED <<ptlock, lk>>
      /\ pstate'[p] = "SLEEPING" /\ onchan'[p]
      /\ \A q \in Procs : q # p => pstate'[q] = pstate[q] /\ onchan'[q] = onchan[q]
  BY DEF SleepSched, SWIInv, SWTypeOK
<1>2. OnOneCpu' /\ LocksExact' /\ Parked' /\ InScan'
  BY <1>1, SchedStep
<1>3. Quiet' /\ Announced' = Announced
  BY QuietStep DEF SleepSched
<1>4. Announced = 0
  BY <1>1 DEF Goes, SWIInv, Quiet
<1>5. SWTypeOK' /\ HasVictim'
  BY DEF SWIInv, SWTypeOK, HasVictim, Places, SleepSched, Sched, Goes
<1>6. QED
  BY <1>2, <1>3, <1>4, <1>5 DEF SWIInv

\* YieldSched keeps the invariant.
LEMMA YieldSchedStep ==
  ASSUME SWIInv, NEW c \in CPUs, NEW p \in Procs, YieldSched(c, p)
  PROVE  SWIInv'
<1> USE DEF NeedsPt, NeedsLk, Waking, Falling
<1>1. /\ Goes(c, p, "yield", "resume") /\ Sched(c) /\ UNCHANGED <<ptlock, lk, onchan>>
      /\ pstate'[p] = "RUNNABLE" /\ \A q \in Procs : q # p => pstate'[q] = pstate[q]
  BY DEF YieldSched, SWIInv, SWTypeOK
<1>2. OnOneCpu' /\ LocksExact' /\ Parked' /\ InScan'
  BY <1>1, SchedStep
<1>3. Quiet'
  BY QuietStep DEF YieldSched
<1>4. SWTypeOK' /\ HasVictim'
  BY DEF SWIInv, SWTypeOK, HasVictim, Places, YieldSched, Sched, Goes
<1>5. QED
  BY <1>2, <1>3, <1>4 DEF SWIInv

\* Dispatch keeps the invariant.
LEMMA DispatchStep ==
  ASSUME SWIInv, NEW c \in CPUs, NEW p \in Procs, Dispatch(c, p)
  PROVE  SWIInv'
<1>1. /\ proc[c] = None /\ scan[c] /\ pstate[p] = "RUNNABLE" /\ p # None
      /\ UNCHANGED <<ptlock, lk, scan, onchan, pkilled, pcvars, tokens>>
  BY DEF Dispatch
<1>2. \A d \in CPUs : proc'[d] = IF d = c THEN p ELSE proc[d]
  BY DEF Dispatch, SWIInv, SWTypeOK
<1>3. \A q \in Procs : pstate'[q] = IF q = p THEN "RUNNING" ELSE pstate[q]
  BY DEF Dispatch, SWIInv, SWTypeOK
<1>4. \A d \in CPUs : proc[d] # p
  BY <1>1 DEF SWIInv, OnOneCpu
<1>5. OnOneCpu'
  <2>1. \A d \in CPUs : proc'[d] = p <=> d = c
    BY <1>2, <1>4
  <2>2. ASSUME NEW q \in Procs, q # p, pstate[q] = "RUNNING"
        PROVE  \E e \in CPUs : \A d \in CPUs : proc'[d] = q <=> d = e
    <3>1. PICK e \in CPUs : \A d \in CPUs : proc[d] = q <=> d = e
      BY <2>2 DEF SWIInv, OnOneCpu
    <3>2. \A d \in CPUs : proc'[d] = q <=> d = e
      BY <1>1, <1>2, <2>2, <3>1
    <3>3. QED
      BY <3>2
  <2>3. ASSUME NEW q \in Procs, q # p, pstate[q] # "RUNNING", NEW d \in CPUs
        PROVE  proc'[d] # q
    BY <1>2, <2>3 DEF SWIInv, OnOneCpu
  <2>4. QED
    BY <1>3, <2>1, <2>2, <2>3 DEF OnOneCpu
<1>6. LocksExact'
  <2>1. at[p] \in {"tidy", "resume"} /\ ptlock = c /\ lk # c
    BY <1>1 DEF SWIInv, Parked, LocksExact
  <2>2. ASSUME NEW d \in CPUs
        PROVE  /\ ptlock = d <=> \/ scan[d] /\ proc'[d] = None
                                 \/ proc'[d] # None /\ at[proc'[d]] \in NeedsPt
               /\ lk = d <=> proc'[d] # None /\ at[proc'[d]] \in NeedsLk
    <3>1. CASE d = c
      BY <1>1, <1>2, <2>1, <3>1 DEF NeedsPt, NeedsLk
    <3>2. CASE d # c
      BY <1>2, <3>2 DEF SWIInv, LocksExact
    <3>3. QED
      BY <3>1, <3>2
  <2>3. QED
    BY <1>1, <2>2 DEF LocksExact, pcvars
<1>7. Parked' /\ InScan'
  BY <1>1, <1>2, <1>3 DEF SWIInv, Parked, InScan, pcvars
<1>8. HasVictim' /\ Quiet'
  BY <1>1 DEF SWIInv, HasVictim, Quiet, Announced, pcvars
<1>9. SWTypeOK'
  BY DEF SWIInv, SWTypeOK, Dispatch, pcvars
<1>10. QED
  BY <1>5, <1>6, <1>7, <1>8, <1>9 DEF SWIInv

\* Scan keeps the invariant.
LEMMA ScanStep ==
  ASSUME SWIInv, NEW c \in CPUs, StartScan(c) \/ EndScan(c)
  PROVE  SWIInv'
<1>1. proc[c] = None /\ UNCHANGED <<lk, proc, procvars, pcvars, tokens>>
  BY DEF StartScan, EndScan
<1>2. c # None /\ \A d \in CPUs : d # c => scan'[d] = scan[d]
  BY DEF StartScan, EndScan, SWIInv, SWTypeOK
<1>3. \/ ptlock = None /\ ptlock' = c /\ scan'[c]
      \/ ptlock = c /\ ptlock' = None /\ ~scan'[c]
  BY <1>1 DEF StartScan, EndScan, SWIInv, SWTypeOK, LocksExact
<1>4. LocksExact'
  <2>1. ASSUME NEW d \in CPUs
        PROVE  ptlock' = d <=> \/ scan'[d] /\ proc[d] = None
                               \/ proc[d] # None /\ at[proc[d]] \in NeedsPt
    <3>1. CASE d = c
      BY <1>1, <1>2, <1>3, <3>1
    <3>2. CASE d # c
      BY <1>2, <1>3, <3>2 DEF SWIInv, LocksExact
    <3>3. QED
      BY <3>1, <3>2
  <2>2. QED
    BY <1>1, <2>1 DEF SWIInv, LocksExact, pcvars
<1>5. InScan'
  BY <1>1, <1>2 DEF SWIInv, InScan
<1>6. OnOneCpu' /\ Parked' /\ HasVictim' /\ Quiet'
  BY <1>1 DEF SWIInv, OnOneCpu, Parked, HasVictim, Quiet, Announced, procvars, pcvars
<1>7. SWTypeOK'
  BY DEF SWIInv, SWTypeOK, StartScan, EndScan, procvars, pcvars
<1>8. QED
  BY <1>4, <1>5, <1>6, <1>7 DEF SWIInv

-----------------------------------------------------------------------------
\* Every step, and every stutter, keeps the invariant.
LEMMA SWNextIInv == SWIInv /\ [SWNext]_swvars => SWIInv'
<1> SUFFICES ASSUME SWIInv, [SWNext]_swvars PROVE SWIInv'
  OBVIOUS
<1>1. CASE UNCHANGED swvars
  BY <1>1 DEF swvars, procvars, pcvars, SWIInv, SWTypeOK, OnOneCpu, LocksExact, Parked, InScan,
              HasVictim, Quiet, Announced
<1>2. ASSUME NEW c \in CPUs, NEW p \in Procs, Runs(c, p) PROVE SWIInv'
  BY <1>2, LockSteps, TakeStep, SleepCallStep, SleepSchedStep, SleepTidyStep, PutStep,
     wakeup1Step, KillEnterStep, SWKillStep, YieldEnterStep, YieldSchedStep DEF Runs
<1>3. QED
  BY <1>1, <1>2, ScanStep, DispatchStep DEF SWNext

\* The invariant holds in every reachable state.
THEOREM SWInvariance == SWSpec => []SWIInv
<1>1. QED
  BY SWInitIInv, SWNextIInv, PTL DEF SWSpec

-----------------------------------------------------------------------------
Asleep == {p \in Procs : pstate[p] = "SLEEPING"}
WaitVars == <<Announced, Asleep>>

\* Steps that change no state and announce nothing.
LEMMA HiddenStep ==
  ASSUME SWIInv, NEW c \in CPUs, NEW p \in Procs, NEW from, NEW to,
         Goes(c, p, from, to), UNCHANGED <<pstate, tokens>>,
         from \in Waking <=> to \in Waking, to \in Falling => from \in Falling
  PROVE  UNCHANGED WaitVars
  BY QuietStep DEF WaitVars, Asleep

\* Acquisitions and releases of the locks are hidden from the atomic wait.
LEMMA LockStepsHidden ==
  ASSUME SWIInv, NEW c \in CPUs, NEW p \in Procs,
         \/ TakeEnter(c, p) \/ GiveUp(c, p) \/ SleepSwapLocks(c, p) \/ SleepRelock(c, p)
         \/ PutEnter(c, p) \/ PutFull(c, p)
         \/ WakeupEnter(c, p) \/ WakeupLeave(c, p) \/ Leave(c, p)
         \/ KillLeave(c, p) \/ YieldLeave(c, p) \/ YieldEnter(c, p) \/ SleepTidy(c, p)
         \/ \E q \in Procs : KillEnter(c, p, q)
  PROVE  UNCHANGED WaitVars
<1> USE DEF Waking, Falling
<1>1. CASE TakeEnter(c, p) \/ SleepRelock(c, p) \/ PutEnter(c, p) \/ WakeupEnter(c, p)
  BY <1>1, HiddenStep DEF TakeEnter, SleepRelock, PutEnter, WakeupEnter, GetLk, GetPt, procvars
<1>2. CASE GiveUp(c, p) \/ SleepTidy(c, p)
  BY <1>2, HiddenStep DEF GiveUp, SleepTidy, procvars
<1>3. CASE SleepSwapLocks(c, p)
  BY <1>3, HiddenStep DEF SleepSwapLocks, GetPt, DropLk, procvars
<1>4. CASE PutFull(c, p) \/ Leave(c, p) \/ WakeupLeave(c, p) \/ KillLeave(c, p)
  BY <1>4, HiddenStep DEF PutFull, Leave, WakeupLeave, KillLeave, DropLk, DropPt, procvars
<1>5. CASE YieldLeave(c, p)
  <2>1. back[p] \in {"user", "relock"}
    BY DEF SWIInv, SWTypeOK
  <2>2. QED
    BY <1>5, <2>1, HiddenStep DEF YieldLeave, DropPt, procvars
<1>6. CASE YieldEnter(c, p) \/ \E q \in Procs : KillEnter(c, p, q)
  BY <1>6, HiddenStep DEF YieldEnter, KillEnter, procvars
<1>7. QED
  BY <1>1, <1>2, <1>3, <1>4, <1>5, <1>6

\* A process that finds a token takes an announced one.
LEMMA TakeRefines ==
  ASSUME SWIInv, NEW c \in CPUs, NEW p \in Procs, Take(c, p)
  PROVE  Atomic!Take
<1>1. /\ proc[c] = p /\ at[p] = "test" /\ tokens > 0 /\ tokens' = tokens - 1
      /\ UNCHANGED pstate
  BY DEF Take, Goes, procvars
<1>2. Announced = tokens
  BY <1>1, TestSees
<1>3. \A q \in Procs : at[q] \notin Waking
  BY <1>1, AloneInLk DEF NeedsLk, Waking
<1>4. \A q \in Procs : at'[q] = at[q] \/ at'[q] = "drop"
  BY DEF Take, Goes, SWIInv, SWTypeOK
<1>5. Announced' = tokens'
  BY <1>3, <1>4 DEF Announced, Waking
<1>6. QED
  BY <1>1, <1>2, <1>5 DEF Atomic!Take

\* The test of the loop and the state SLEEPING are one step, although the lock
\* of the condition is released in between.
LEMMA BlockRefines ==
  ASSUME SWIInv, NEW c \in CPUs, NEW p \in Procs, SleepSched(c, p)
  PROVE  Atomic!Block(p)
<1>1. Announced = 0 /\ Announced' = Announced
  BY SleepSchedStep
<1>2. Asleep' = Asleep \cup {p}
  BY DEF SleepSched, Asleep, SWIInv, SWTypeOK
<1>3. QED
  BY <1>1, <1>2 DEF Atomic!Block, Asleep

\* The new token and the wakeup of all are one step.
LEMMA PutRefines ==
  ASSUME SWIInv, NEW c \in CPUs, NEW p \in Procs, wakeup1(c, p)
  PROVE  Atomic!Put
<1>1. Announced = tokens - 1 /\ Announced' = tokens /\ tokens \in Nat
  BY wakeup1Step DEF SWIInv, SWTypeOK
<1>2. Asleep' = {}
  BY DEF wakeup1, Asleep, SWIInv, Parked
<1>3. QED
  BY <1>1, <1>2 DEF Atomic!Put, Asleep

\* kill() of a sleeper is the interrupt of the atomic wait; any other kill is hidden.
LEMMA KillRefines ==
  ASSUME SWIInv, NEW c \in CPUs, NEW p \in Procs, KillMark(c, p)
  PROVE  UNCHANGED WaitVars \/ \E q \in Procs : Atomic!Interrupt(q)
<1>1. victim[p] \in Procs /\ Goes(c, p, "kill", "killed") /\ UNCHANGED tokens
  BY DEF KillMark, Goes, SWIInv, HasVictim
<1>2. Announced' = Announced
  BY <1>1, QuietStep DEF Waking, Falling
<1>3. Asleep' = Asleep \ {victim[p]}
  BY <1>1 DEF KillMark, Asleep, SWIInv, SWTypeOK
<1>4. CASE victim[p] \in Asleep
  BY <1>1, <1>2, <1>3, <1>4 DEF Atomic!Interrupt, Asleep
<1>5. CASE victim[p] \notin Asleep
  BY <1>2, <1>3, <1>5 DEF WaitVars
<1>6. QED
  BY <1>4, <1>5

\* Calling sleep(), adding a token before its wakeup, and a yield are hidden.
LEMMA OtherHidden ==
  ASSUME SWIInv, NEW c \in CPUs, NEW p \in Procs,
         SleepCall(c, p) \/ Put(c, p) \/ YieldSched(c, p)
  PROVE  UNCHANGED WaitVars
<1>1. CASE SleepCall(c, p)
  <2>1. Goes(c, p, "test", "enter") /\ UNCHANGED <<pstate, tokens>>
    BY <1>1 DEF SleepCall, procvars
  <2>2. \A q \in Procs : at'[q] \in Waking <=> at[q] \in Waking
    BY <2>1 DEF Goes, SWIInv, SWTypeOK, Waking
  <2>3. QED
    BY <2>1, <2>2 DEF WaitVars, Announced, Asleep, Waking
<1>2. CASE Put(c, p)
  BY <1>2, PutStep DEF Put, WaitVars, Asleep, procvars
<1>3. CASE YieldSched(c, p)
  <2>1. Goes(c, p, "yield", "resume") /\ UNCHANGED tokens
    BY <1>3 DEF YieldSched
  <2>2. Announced' = Announced
    BY <2>1, QuietStep DEF Waking, Falling
  <2>3. pstate[p] = "RUNNING"
    BY <2>1, OnlyHere DEF Goes
  <2>4. Asleep' = Asleep
    BY <1>3, <2>3 DEF YieldSched, Asleep, SWIInv, SWTypeOK
  <2>5. QED
    BY <2>2, <2>4 DEF WaitVars
<1>4. QED
  BY <1>1, <1>2, <1>3

\* The scheduler's scan and dispatch are hidden from the atomic wait.
LEMMA SchedulerHidden ==
  ASSUME SWIInv, NEW c \in CPUs,
         StartScan(c) \/ EndScan(c) \/ \E p \in Procs : Dispatch(c, p)
  PROVE  UNCHANGED WaitVars
<1>1. UNCHANGED <<at, tokens>>
  BY DEF StartScan, EndScan, Dispatch, pcvars
<1>2. Asleep' = Asleep
  BY DEF StartScan, EndScan, Dispatch, procvars, Asleep, SWIInv, SWTypeOK
<1>3. QED
  BY <1>1, <1>2 DEF WaitVars, Announced

\* Every step is a step of the abstract specification or hidden from it.
LEMMA StepRefines == SWIInv /\ [SWNext]_swvars => [Atomic!Next]_WaitVars
<1> SUFFICES ASSUME SWIInv, [SWNext]_swvars PROVE Atomic!Next \/ UNCHANGED WaitVars
  OBVIOUS
<1>1. CASE UNCHANGED swvars
  BY <1>1 DEF swvars, procvars, pcvars, WaitVars, Announced, Asleep
<1>2. ASSUME NEW c \in CPUs, NEW p \in Procs, Runs(c, p)
      PROVE  Atomic!Next \/ UNCHANGED WaitVars
  <2>1. CASE Take(c, p) \/ SleepSched(c, p) \/ wakeup1(c, p) \/ KillMark(c, p)
    BY <2>1, TakeRefines, BlockRefines, PutRefines, KillRefines DEF Atomic!Next
  <2>2. CASE SleepCall(c, p) \/ Put(c, p) \/ YieldSched(c, p)
    BY <2>2, OtherHidden
  <2>3. QED
    BY <1>2, <2>1, <2>2, LockStepsHidden DEF Runs
<1>3. QED
  BY <1>1, <1>2, SchedulerHidden DEF SWNext

-----------------------------------------------------------------------------
\* scheduler(), sched(), sleep() and yield() never run one kernel stack twice.
THEOREM OneProcessor == SWSpec => [](SWTypeOK /\ OnOneCpu)
<1>1. SWIInv => SWTypeOK /\ OnOneCpu
  BY DEF SWIInv
<1>2. QED
  BY <1>1, SWInvariance, PTL

\* ptable.lock and the caller's lock are held exactly in their critical
\* sections, through every hand-over in swtch().
THEOREM HandOversExact == SWSpec => []LocksExact
<1>1. SWIInv => LocksExact
  BY DEF SWIInv
<1>2. QED
  BY <1>1, SWInvariance, PTL

\* sleep() and wakeup() implement an atomic wait.
THEOREM Refinement == SWSpec => ImplementsAtomicWait
<1>1. SWInit => Atomic!Init
  <2> SUFFICES ASSUME SWInit PROVE Announced = 0 /\ Asleep = {}
    BY DEF Atomic!Init, Asleep
  <2>1. QED
    BY DEF SWInit, Announced, Asleep
<1>2. SWIInv /\ [SWNext]_swvars =>
        [Atomic!Next]_<<Announced, {p \in Procs : pstate[p] = "SLEEPING"}>>
  BY StepRefines DEF WaitVars, Asleep
<1>3. QED
  BY <1>1, <1>2, SWInvariance, PTL DEF SWSpec, ImplementsAtomicWait, Atomic!Spec

=============================================================================
