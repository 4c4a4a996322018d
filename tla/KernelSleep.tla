----------------------------- MODULE KernelSleep -----------------------------
(***************************************************************************)
(* The part of struct proc that the blocking primitives of the kernel      *)
(* share: the state, the wait channel and the killed flag of each process, *)
(* with what sleep(), wakeup() and kill() of LAB4/codes/proc.c do to them. *)
(*                                                                         *)
(* Every operation here is one critical section of ptable.lock.  sleep()   *)
(* takes ptable.lock before it drops the lock the caller holds, so a       *)
(* caller that tests its condition and then sleeps does both in one step   *)
(* of the modules that extend this one.  SleepWakeup.tla checks that       *)
(* reasoning against the two locks themselves.                             *)
(***************************************************************************)
EXTENDS Naturals, FiniteSets

CONSTANTS
  Procs,      \* the processes that use the primitive
  Killable,   \* those that some other process may kill()
  NoChan,     \* the null wait channel
  MaxCalls    \* bound: how many times each process asks for the primitive

\* NPROC bounds the process table.
ASSUME KernelSleepAssumption ==
  IsFiniteSet(Procs) /\ Killable \subseteq Procs /\ MaxCalls \in Nat

VARIABLES
  pstate,     \* p->state; RUNNABLE stands for RUNNABLE and RUNNING
  chan,       \* p->chan
  killed,     \* p->killed
  calls       \* how many times p has asked for the primitive

kvars == <<pstate, chan, killed>>

KInit ==
  /\ pstate = [p \in Procs |-> "RUNNABLE"]
  /\ chan = [p \in Procs |-> NoChan]
  /\ killed = [p \in Procs |-> FALSE]
  /\ calls = [p \in Procs |-> 0]

Runs(p) == pstate[p] = "RUNNABLE"
Sleeps(p) == pstate[p] = "SLEEPING"

\* p asks for the primitive once more.
CountCall(p) ==
  /\ calls[p] < MaxCalls
  /\ calls' = [calls EXCEPT ![p] = @ + 1]

\* sleep(c, lk): until a wakeup the process does nothing.
SleepOn(p, c) ==
  /\ pstate' = [pstate EXCEPT ![p] = "SLEEPING"]
  /\ chan' = [chan EXCEPT ![p] = c]
  /\ UNCHANGED killed

\* The states wakeup(c) leaves: every process asleep on c becomes RUNNABLE.
Woken(c) ==
  [p \in Procs |-> IF Sleeps(p) /\ chan[p] = c THEN "RUNNABLE" ELSE pstate[p]]

\* sleep() returns: it clears the channel before it takes the lock again.
LeaveSleep(p) ==
  /\ chan' = [chan EXCEPT ![p] = NoChan]
  /\ UNCHANGED <<pstate, killed>>

\* kill(p): a sleeper is made RUNNABLE whatever it waits for.
Kill(p) ==
  /\ p \in Killable
  /\ Runs(p) \/ Sleeps(p)
  /\ ~killed[p]
  /\ killed' = [killed EXCEPT ![p] = TRUE]
  /\ pstate' = [pstate EXCEPT ![p] = IF @ = "SLEEPING" THEN "RUNNABLE" ELSE @]
  /\ UNCHANGED chan

\* trap() turns a killed process to exit() on its way into or out of a system
\* call; nothing in exit() releases the locks of this kernel that it holds.
Exit(p) ==
  /\ Runs(p)
  /\ killed[p]
  /\ pstate' = [pstate EXCEPT ![p] = "ZOMBIE"]
  /\ UNCHANGED <<chan, killed>>

\* panic(): the processor that runs p loops with interrupts off.  Every other
\* processor stops when it next prints (console.c:205), and a process without a
\* processor never runs again.  So after a panic the others may take steps, and
\* nothing makes them: fairness holds only while ~Panicked.
Panic(p) ==
  /\ pstate' = [pstate EXCEPT ![p] = "HALTED"]
  /\ UNCHANGED <<chan, killed>>

Panicked == \E p \in Procs : pstate[p] = "HALTED"

KTypeOK(Chans) ==
  /\ pstate \in [Procs -> {"RUNNABLE", "SLEEPING", "ZOMBIE", "HALTED"}]
  /\ chan \in [Procs -> Chans]
  /\ killed \in [Procs -> BOOLEAN]
  /\ calls \in [Procs -> 0..MaxCalls]

=============================================================================
