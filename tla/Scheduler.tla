------------------------------ MODULE Scheduler ------------------------------
(***************************************************************************)
(* The two policies of scheduler() in LAB4/codes/proc.c, which the         *)
(* processors run according to the core type that main() gives them, and   *)
(* the clock tick of trap() that takes a process off its processor.        *)
(*                                                                         *)
(* One action is one critical section of ptable.lock.  On an E-core the    *)
(* process that gives up the processor, the rest of the scan and the       *)
(* dispatch of the next process are in the same critical section, since    *)
(* the loop goes on where swtch() left it.  A P-core dispatches at most    *)
(* one process per critical section.                                       *)
(***************************************************************************)
EXTENDS Integers, FiniteSets

CONSTANTS
  ECores,     \* the processors with an even APIC id
  PCores,     \* those with an odd one
  None,       \* cpus[c].proc == 0
  NPROC,      \* the size of ptable.proc
  MaxPid      \* bound on nextpid

ASSUME SchedulerAssumption ==
  /\ IsFiniteSet(ECores) /\ IsFiniteSet(PCores) /\ ECores \cap PCores = {}
  /\ NPROC \in Nat \ {0} /\ MaxPid \in Nat \ {0}
  /\ None \notin 1..NPROC

CPUs == ECores \cup PCores
ncpu == Cardinality(CPUs)
Slots == 1..NPROC

VARIABLES
  state,       \* p->state
  pid,         \* p->pid
  tick_count,  \* p->tick_count
  proc,        \* cpus[c].proc
  nextpid

schedvars == <<state, pid, tick_count, proc, nextpid>>

\* After userinit() and before any processor enters scheduler().
SchedInit ==
  /\ state = [s \in Slots |-> IF s = 1 THEN "RUNNABLE" ELSE "UNUSED"]
  /\ pid = [s \in Slots |-> IF s = 1 THEN 1 ELSE 0]
  /\ tick_count = [s \in Slots |-> 0]
  /\ proc = [c \in CPUs |-> None]
  /\ nextpid = 2

\* p->ctime: ptable starts zeroed, and nothing in the kernel assigns it.
ctime(s) == 0

-----------------------------------------------------------------------------
\* The entries the scan of an E-core stops at, given the states st.
EPicks(st) == {s \in Slots : st[s] = "RUNNABLE" /\ ~(ncpu > 1 /\ pid[s] > 3)}

\* The entry a P-core picks: the first of the lowest ctime.
PPicks(st) ==
  {s \in Slots :
     /\ st[s] = "RUNNABLE"
     /\ \A t \in Slots : st[t] = "RUNNABLE" =>
          ctime(s) <= ctime(t) /\ (t < s => ctime(s) < ctime(t))}

\* Mutants: p->state = RUNNING, or p->tick_count = 0, is forgotten.
Dispatch_KeepsState(c, st, tc, s) ==
  /\ state' = st
  /\ tick_count' = [tc EXCEPT ![s] = 0]
  /\ proc' = [proc EXCEPT ![c] = s]

Dispatch_KeepsTicks(c, st, tc, s) ==
  /\ state' = [st EXCEPT ![s] = "RUNNING"]
  /\ tick_count' = tc
  /\ proc' = [proc EXCEPT ![c] = s]

\* The processor c, which finds the states st and tick counts tc, switches to
\* process s.
Dispatch(c, st, tc, s) ==
  /\ state' = [st EXCEPT ![s] = "RUNNING"]
  /\ tick_count' = [tc EXCEPT ![s] = 0]
  /\ proc' = [proc EXCEPT ![c] = s]

\* The processor c ends its scan.
Idle(c, st, tc) ==
  /\ state' = st
  /\ tick_count' = tc
  /\ proc' = [proc EXCEPT ![c] = None]

\* An E-core scans on from entry i.
ScanFrom(c, st, tc, i) ==
  LET left == {s \in EPicks(st) : s >= i}
  IN  \/ left = {} /\ Idle(c, st, tc)
      \/ \E s \in left : (\A t \in left : s <= t) /\ Dispatch(c, st, tc, s)

\* A pass of the endless loop.
StartPass(c) ==
  /\ proc[c] = None
  /\ IF c \in ECores
     THEN EPicks(state) # {} /\ ScanFrom(c, state, tick_count, 1)
     ELSE \E s \in PPicks(state) : Dispatch(c, state, tick_count, s)
  /\ UNCHANGED <<pid, nextpid>>

\* Mutant: an E-core starts over from the first entry after each process.
Sched_Restarts(c, new, tc) ==
  LET st == [state EXCEPT ![proc[c]] = new]
  IN  IF c \in ECores THEN ScanFrom(c, st, tc, 1) ELSE Idle(c, st, tc)

\* sched(): the process on c becomes new, and the scheduler of c goes on.
Sched(c, new, tc) ==
  LET st == [state EXCEPT ![proc[c]] = new]
  IN  IF c \in ECores THEN ScanFrom(c, st, tc, proc[c] + 1) ELSE Idle(c, st, tc)

-----------------------------------------------------------------------------
Ticked(c) == [tick_count EXCEPT ![proc[c]] = @ + 1]

\* Mutant: the quantum ends with the fourth tick.
Tick_LateQuantum(c) ==
  /\ proc[c] # None
  /\ IF c \in ECores /\ Ticked(c)[proc[c]] <= 3
     THEN tick_count' = Ticked(c) /\ UNCHANGED <<state, proc>>
     ELSE Sched(c, "RUNNABLE", Ticked(c))
  /\ UNCHANGED <<pid, nextpid>>

\* trap(): on an E-core the third tick since the dispatch ends the turn, on a
\* P-core every tick does.
Tick(c) ==
  /\ proc[c] # None
  /\ IF c \in ECores /\ Ticked(c)[proc[c]] < 3
     THEN tick_count' = Ticked(c) /\ UNCHANGED <<state, proc>>
     ELSE Sched(c, "RUNNABLE", Ticked(c))
  /\ UNCHANGED <<pid, nextpid>>

\* The process sleeps.
Block(c) ==
  /\ proc[c] # None
  /\ Sched(c, "SLEEPING", tick_count)
  /\ UNCHANGED <<pid, nextpid>>

\* It is woken by another process or by an interrupt.
Wake(s) ==
  /\ state[s] = "SLEEPING"
  /\ state' = [state EXCEPT ![s] = "RUNNABLE"]
  /\ UNCHANGED <<pid, tick_count, proc, nextpid>>

\* fork(): the first UNUSED entry becomes RUNNABLE with the next pid.
Fork(c) ==
  /\ proc[c] # None /\ nextpid <= MaxPid
  /\ \E s \in Slots :
       /\ state[s] = "UNUSED"
       /\ \A t \in Slots : t < s => state[t] # "UNUSED"
       /\ state' = [state EXCEPT ![s] = "RUNNABLE"]
       /\ pid' = [pid EXCEPT ![s] = nextpid]
  /\ nextpid' = nextpid + 1
  /\ UNCHANGED <<tick_count, proc>>

\* exit(): not of init.
Exit(c) ==
  /\ proc[c] # None /\ proc[c] # 1
  /\ Sched(c, "ZOMBIE", tick_count)
  /\ UNCHANGED <<pid, nextpid>>

\* A parent's wait() frees the entry.
Reap(s) ==
  /\ state[s] = "ZOMBIE"
  /\ state' = [state EXCEPT ![s] = "UNUSED"]
  /\ pid' = [pid EXCEPT ![s] = 0]
  /\ UNCHANGED <<tick_count, proc, nextpid>>

SchedNext ==
  \/ \E c \in CPUs : StartPass(c) \/ Tick(c) \/ Block(c) \/ Fork(c) \/ Exit(c)
  \/ \E s \in Slots : Wake(s) \/ Reap(s)

SchedSpec == SchedInit /\ [][SchedNext]_schedvars

\* The clock goes on ticking and the scheduler loops; nothing makes a process
\* sleep, wake, fork or exit.
SchedFairSpec == SchedSpec /\ \A c \in CPUs : WF_schedvars(StartPass(c)) /\ WF_schedvars(Tick(c))

-----------------------------------------------------------------------------
SchedTypeOK ==
  /\ state \in [Slots -> {"UNUSED", "SLEEPING", "RUNNABLE", "RUNNING", "ZOMBIE"}]
  /\ pid \in [Slots -> Nat]
  /\ tick_count \in [Slots -> 0..3]
  /\ proc \in [CPUs -> Slots \cup {None}]
  /\ nextpid \in Nat

\* A process is RUNNING exactly when one processor, and only one, runs it.
OnOneCpu ==
  \A s \in Slots :
    /\ state[s] = "RUNNING" <=> \E c \in CPUs : proc[c] = s
    /\ \A c, d \in CPUs : proc[c] = s /\ proc[d] = s => c = d

\* The quantum of an E-core: a process that does not give up the processor
\* itself has seen two ticks since its dispatch before a tick takes it away.
\* The count of an earlier turn, or of a turn on a P-core, is never carried over.
FullQuantum ==
  [][ \A c \in ECores :
        /\ proc[c] # None
        /\ state[proc[c]] = "RUNNING"
        /\ state'[proc[c]] \in {"RUNNABLE", "RUNNING"} /\ proc'[c] # proc[c]
        => tick_count[proc[c]] = 2 ]_schedvars

\* No process that an E-core may run waits for ever, whatever other processors
\* run meanwhile: the scan goes on where the last process gave the core up.
NoStarvation ==
  \A s \in Slots : s \in EPicks(state) ~> state[s] # "RUNNABLE"

\* P-cores take the oldest process first.  Pids are given in order of creation.
OldestFirst ==
  [][ \A c \in PCores :
        proc[c] = None /\ proc'[c] # None =>
          \A t \in Slots : state[t] = "RUNNABLE" => pid[proc'[c]] <= pid[t] ]_schedvars

=============================================================================
