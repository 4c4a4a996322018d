------------------------------ MODULE ProcTable ------------------------------
(***************************************************************************)
(* The life of the entries of the process table of LAB4/codes/proc.c:      *)
(* allocproc(), fork(), exit(), wait(), kill() and userinit().             *)
(*                                                                         *)
(* One action is one critical section of ptable.lock, or a write that the  *)
(* code makes to an entry without that lock (the failure paths of          *)
(* allocproc() and fork(), p->parent).  fork() is therefore several steps, *)
(* and kill(), wait() and exit() of others may come between them.  RUNNABLE*)
(* stands for RUNNABLE and RUNNING.  Memory, open files and the work of    *)
(* exit() outside the table are left out.                                  *)
(***************************************************************************)
EXTENDS Naturals, FiniteSets

CONSTANTS
  NPROC,      \* the size of ptable.proc
  MaxPid,     \* bound on nextpid
  KillPids    \* the arguments of kill(); the system call takes any int

ASSUME ProcTableAssumption ==
  NPROC \in Nat \ {0} /\ MaxPid \in Nat \ {0} /\ KillPids \subseteq Nat

Slots == 1..NPROC
initproc == 1      \* userinit() runs first, so init has the first entry
NoSlot == 0        \* the null struct proc *

VARIABLES
  state,      \* p->state
  pid,        \* p->pid
  parent,     \* p->parent
  killed,     \* p->killed
  nextpid,
  forking,    \* the entry that the fork() of p has allocated, or NoSlot
  waiting,    \* p is in wait(), and while SLEEPING its channel is p itself
  panicked    \* panic("init exiting")

table == <<state, pid, parent, killed>>
vars == <<table, nextpid, forking, waiting, panicked>>

\* userinit() has made entry 1, pid 1, RUNNABLE.
Init ==
  /\ state = [s \in Slots |-> IF s = initproc THEN "RUNNABLE" ELSE "UNUSED"]
  /\ pid = [s \in Slots |-> IF s = initproc THEN 1 ELSE 0]
  /\ parent = [s \in Slots |-> NoSlot]
  /\ killed = [s \in Slots |-> FALSE]
  /\ nextpid = 2
  /\ forking = [s \in Slots |-> NoSlot]
  /\ waiting = [s \in Slots |-> FALSE]
  /\ panicked = FALSE

\* The states wakeup1() leaves when it is called for each process of S, whose
\* channel in wait() is the process itself.
Woken(S) ==
  [s \in Slots |-> IF s \in S /\ state[s] = "SLEEPING" THEN "RUNNABLE" ELSE state[s]]

\* The code of p runs, outside of fork() and wait().
InUser(p) ==
  ~panicked /\ state[p] = "RUNNABLE" /\ forking[p] = NoSlot /\ ~waiting[p]

-----------------------------------------------------------------------------
FirstUnused(s) ==
  /\ state[s] = "UNUSED"
  /\ \A t \in Slots : t < s => state[t] # "UNUSED"

\* allocproc(): the first UNUSED entry.  killed is not touched.
allocproc(p, s) ==
  /\ InUser(p) /\ ~killed[p]
  /\ nextpid <= MaxPid
  /\ FirstUnused(s)
  /\ state' = [state EXCEPT ![s] = "EMBRYO"]
  /\ pid' = [pid EXCEPT ![s] = nextpid]
  /\ nextpid' = nextpid + 1
  /\ forking' = [forking EXCEPT ![p] = s]
  /\ UNCHANGED <<parent, killed, waiting, panicked>>

\* kalloc() or copyuvm() fails: the entry is UNUSED again, its pid stays.
ForkFails(p) ==
  /\ ~panicked /\ forking[p] # NoSlot
  /\ parent[forking[p]] # p
  /\ state' = [state EXCEPT ![forking[p]] = "UNUSED"]
  /\ forking' = [forking EXCEPT ![p] = NoSlot]
  /\ UNCHANGED <<pid, parent, killed, nextpid, waiting, panicked>>

\* np->parent = curproc, without ptable.lock.
ForkCopies(p) ==
  /\ ~panicked /\ forking[p] # NoSlot
  /\ parent[forking[p]] # p
  /\ parent' = [parent EXCEPT ![forking[p]] = p]
  /\ UNCHANGED <<state, pid, killed, nextpid, forking, waiting, panicked>>

\* np->state = RUNNABLE.
ForkDone(p) ==
  /\ ~panicked /\ forking[p] # NoSlot
  /\ parent[forking[p]] = p
  /\ state' = [state EXCEPT ![forking[p]] = "RUNNABLE"]
  /\ forking' = [forking EXCEPT ![p] = NoSlot]
  /\ UNCHANGED <<pid, parent, killed, nextpid, waiting, panicked>>

Orphans(p) == {s \in Slots : parent[s] = p}

\* Mutant: init is not woken for a ZOMBIE it inherits.
Heirs_ParentOnly(p) == {parent[p]}

\* Those that exit() wakes: the parent, and init if it inherits a ZOMBIE.
Heirs(p) ==
  {parent[p]} \cup {s \in {initproc} : \E t \in Orphans(p) : state[t] = "ZOMBIE"}

\* Mutant: the children keep their dead parent.
Exit_KeepsChildren(p) ==
  /\ InUser(p)
  /\ p # initproc
  /\ state' = [Woken(Heirs(p)) EXCEPT ![p] = "ZOMBIE"]
  /\ UNCHANGED <<pid, parent, killed, nextpid, forking, waiting, panicked>>

\* exit(): wake the heirs, pass the children to init, and become ZOMBIE.  init
\* must not exit.
Exit(p) ==
  /\ InUser(p)
  /\ p # initproc
  /\ parent' = [s \in Slots |-> IF s \in Orphans(p) THEN initproc ELSE parent[s]]
  /\ state' = [Woken(Heirs(p)) EXCEPT ![p] = "ZOMBIE"]
  /\ UNCHANGED <<pid, killed, nextpid, forking, waiting, panicked>>

\* init.c never returns, but trap() makes a killed init exit.
ExitInit ==
  /\ InUser(initproc)
  /\ killed[initproc]
  /\ panicked' = TRUE
  /\ UNCHANGED <<table, nextpid, forking, waiting>>

\* One scan of wait(): p calls it, or comes back from sleep().
Scans(p) ==
  /\ ~panicked /\ state[p] = "RUNNABLE" /\ forking[p] = NoSlot
  /\ waiting[p] \/ ~killed[p]

Children(p) == {s \in Slots : parent[s] = p}
Zombies(p) == {s \in Children(p) : state[s] = "ZOMBIE"}

\* The first ZOMBIE child is freed and its pid returned.
WaitReaps(p, s) ==
  /\ Scans(p)
  /\ s \in Zombies(p)
  /\ \A t \in Zombies(p) : s <= t
  /\ pid' = [pid EXCEPT ![s] = 0]
  /\ parent' = [parent EXCEPT ![s] = NoSlot]
  /\ killed' = [killed EXCEPT ![s] = FALSE]
  /\ state' = [state EXCEPT ![s] = "UNUSED"]
  /\ waiting' = [waiting EXCEPT ![p] = FALSE]
  /\ UNCHANGED <<nextpid, forking, panicked>>

\* No children, or killed: return -1.
WaitFails(p) ==
  /\ Scans(p)
  /\ Zombies(p) = {}
  /\ Children(p) = {} \/ killed[p]
  /\ waiting' = [waiting EXCEPT ![p] = FALSE]
  /\ UNCHANGED <<table, nextpid, forking, panicked>>

\* sleep(curproc, &ptable.lock).
WaitSleeps(p) ==
  /\ Scans(p)
  /\ Zombies(p) = {}
  /\ Children(p) # {} /\ ~killed[p]
  /\ waiting' = [waiting EXCEPT ![p] = TRUE]
  /\ state' = [state EXCEPT ![p] = "SLEEPING"]
  /\ UNCHANGED <<pid, parent, killed, nextpid, forking, panicked>>

\* Mutant: kill() makes the process runnable whatever it was doing.
Kill_AnyState(p, n, s) ==
  /\ InUser(p) /\ ~killed[p]
  /\ pid[s] = n
  /\ \A t \in Slots : t < s => pid[t] # n
  /\ ~killed[s]
  /\ killed' = [killed EXCEPT ![s] = TRUE]
  /\ state' = [state EXCEPT ![s] = "RUNNABLE"]
  /\ UNCHANGED <<pid, parent, nextpid, forking, waiting, panicked>>

\* kill(n): the first entry with that pid, whatever its state.
Kill(p, n, s) ==
  /\ InUser(p) /\ ~killed[p]
  /\ pid[s] = n
  /\ \A t \in Slots : t < s => pid[t] # n
  /\ ~killed[s]
  /\ killed' = [killed EXCEPT ![s] = TRUE]
  /\ state' = [state EXCEPT ![s] = IF @ = "SLEEPING" THEN "RUNNABLE" ELSE @]
  /\ UNCHANGED <<pid, parent, nextpid, forking, waiting, panicked>>

-----------------------------------------------------------------------------
ForkStep(p) ==
  (\E s \in Slots : allocproc(p, s)) \/ ForkFails(p) \/ ForkCopies(p) \/ ForkDone(p)

WaitStep(p) ==
  (\E s \in Slots : WaitReaps(p, s)) \/ WaitFails(p) \/ WaitSleeps(p)

Next ==
  \/ \E p \in Slots :
       \/ ForkStep(p) \/ WaitStep(p) \/ Exit(p)
       \/ \E n \in KillPids, s \in Slots : Kill(p, n, s)
  \/ ExitInit

Spec == Init /\ [][Next]_vars

\* init.c waits for ever; a fork() or a wait() that has started goes on.
FairSpec ==
  /\ Spec
  /\ WF_vars(WaitStep(initproc))
  /\ \A p \in Slots :
       /\ WF_vars(ForkFails(p) \/ ForkCopies(p) \/ ForkDone(p))
       /\ WF_vars(waiting[p] /\ WaitStep(p))

-----------------------------------------------------------------------------
States == {"UNUSED", "EMBRYO", "SLEEPING", "RUNNABLE", "ZOMBIE"}

TypeOK ==
  /\ state \in [Slots -> States]
  /\ pid \in [Slots -> 0..(nextpid - 1)]
  /\ parent \in [Slots -> Slots \cup {NoSlot}]
  /\ killed \in [Slots -> BOOLEAN]
  /\ nextpid \in Nat \ {0}
  /\ forking \in [Slots -> Slots \cup {NoSlot}]
  /\ waiting \in [Slots -> BOOLEAN]
  /\ panicked \in BOOLEAN

Live == {s \in Slots : state[s] \in {"RUNNABLE", "SLEEPING"}}

\* Every process but init has a parent that can still wait for it: exit()
\* leaves no child with a dead parent, also when the child is half way
\* through fork(), and wait() leaves no stale parent pointer in an entry.
ParentAlive ==
  \A s \in Slots :
    /\ state[s] \in {"RUNNABLE", "SLEEPING", "ZOMBIE"} /\ s # initproc
         => parent[s] \in Live
    /\ state[s] = "EMBRYO" => parent[s] = NoSlot \/ forking[parent[s]] = s
    /\ state[s] = "UNUSED" => parent[s] = NoSlot

\* The entry that a fork() fills in without ptable.lock stays reserved for it:
\* whatever the others fork, exit, wait for or kill meanwhile, it is EMBRYO, its
\* parent has not left fork(), and no other fork() got the same entry.
EmbryosOwned ==
  \A p \in Slots : forking[p] # NoSlot =>
    /\ state[forking[p]] = "EMBRYO"
    /\ state[p] = "RUNNABLE"
    /\ \A q \in Slots : forking[q] = forking[p] => q = p

\* A pid names one process: no two entries in use have the same pid, whatever
\* pids failed forks have left in entries that are not.
PidsUnique ==
  \A s, t \in Slots :
    state[s] # "UNUSED" =>
      /\ pid[s] > 0
      /\ state[t] # "UNUSED" /\ pid[s] = pid[t] => s = t

\* wait() misses no exit: a process asleep in wait() has children and none
\* of them is a ZOMBIE, adopted ones included.
WaiterNotMissed ==
  \A p \in Slots : state[p] = "SLEEPING" => Children(p) # {} /\ Zombies(p) = {}

\* kill() marks the process with the given pid, so no other process is born
\* with the mark and dies before its first instruction.
BornAlive ==
  [][\A s \in Slots :
       state[s] = "UNUSED" /\ state'[s] = "EMBRYO" => ~killed'[s]]_vars

\* A process that exits is eventually freed once init is its parent, also
\* when it was adopted after its exit, if forks come to an end: the scan of
\* wait() takes the first entry, so endless new children could hide a later one.
\* A kill() of init is the end of that, and of the kernel.
OrphansReaped ==
  \A s \in Slots :
    state[s] = "ZOMBIE" /\ parent[s] = initproc ~> state[s] = "UNUSED" \/ killed[initproc]

=============================================================================
