----------------------------- MODULE SleepWakeup -----------------------------
(***************************************************************************)
(* sleep(), wakeup(), kill(), yield() and sched() of LAB4/codes/proc.c on  *)
(* several processors, with the two locks involved taken and released one  *)
(* by one: the lock lk that protects the condition a process waits for,    *)
(* and ptable.lock, which the scheduler of a processor and the process it  *)
(* switches to hand to each other across swtch().                          *)
(*                                                                         *)
(* The condition is a number of tokens, used the way pipe.c, sys_sleep()   *)
(* and the locks use sleep(): a taker waits in a loop for a token, a       *)
(* putter adds one and wakes the channel up under the same lock lk.        *)
(*                                                                         *)
(* A process makes a step only while a processor runs it.  Which RUNNABLE  *)
(* process a scheduler picks is left open here; Scheduler.tla has the      *)
(* policies.  Spinning is waiting for the lock to be free.                 *)
(***************************************************************************)
EXTENDS Naturals, FiniteSets

CONSTANTS
  Procs,      \* the processes
  Killable,   \* those that some other process may kill()
  CPUs,       \* the processors
  None,       \* no process, no processor
  MaxTokens   \* bound on the number of tokens

ASSUME SleepWakeupAssumption ==
  /\ IsFiniteSet(Procs)
  /\ Killable \subseteq Procs
  /\ None \notin Procs \cup CPUs
  /\ MaxTokens \in Nat

VARIABLES
  ptlock,     \* ptable.lock.cpu: the processor that holds the lock
  lk,         \* the processor that holds lk
  proc,       \* cpus[c].proc
  scan,       \* the scheduler of c is in its loop over the table
  pstate,     \* p->state
  onchan,     \* p->chan is the channel of the condition
  pkilled,    \* p->killed
  at,         \* where p is
  back,       \* where p goes on after yield() or sleep() gave the processor up
  victim,     \* the process that p is about to kill()
  tokens      \* the condition

procvars == <<pstate, onchan, pkilled>>
pcvars == <<at, back, victim>>
swvars == <<ptlock, lk, proc, scan, procvars, pcvars, tokens>>

\* A new process is RUNNABLE and starts in forkret(), which like the end of
\* yield() only releases ptable.lock.
SWInit ==
  /\ ptlock = None /\ lk = None
  /\ proc = [c \in CPUs |-> None]
  /\ scan = [c \in CPUs |-> FALSE]
  /\ pstate = [p \in Procs |-> "RUNNABLE"]
  /\ onchan = [p \in Procs |-> FALSE]
  /\ pkilled = [p \in Procs |-> FALSE]
  /\ at = [p \in Procs |-> "resume"]
  /\ back = [p \in Procs |-> "user"]
  /\ victim = [p \in Procs |-> None]
  /\ tokens = 0

-----------------------------------------------------------------------------
\* scheduler(): acquire(&ptable.lock), switch to RUNNABLE processes, release.
StartScan(c) ==
  /\ proc[c] = None /\ ~scan[c]
  /\ ptlock = None
  /\ ptlock' = c
  /\ scan' = [scan EXCEPT ![c] = TRUE]
  /\ UNCHANGED <<lk, proc, procvars, pcvars, tokens>>

\* Mutant: the scheduler forgets p->state = RUNNING.
Dispatch_KeepsState(c, p) ==
  /\ proc[c] = None /\ scan[c]
  /\ pstate[p] = "RUNNABLE"
  /\ proc' = [proc EXCEPT ![c] = p]
  /\ UNCHANGED <<ptlock, lk, scan, procvars, pcvars, tokens>>

Dispatch(c, p) ==
  /\ proc[c] = None /\ scan[c]
  /\ pstate[p] = "RUNNABLE"
  /\ pstate' = [pstate EXCEPT ![p] = "RUNNING"]
  /\ proc' = [proc EXCEPT ![c] = p]
  /\ UNCHANGED <<ptlock, lk, scan, onchan, pkilled, pcvars, tokens>>

EndScan(c) ==
  /\ proc[c] = None /\ scan[c]
  /\ ptlock' = None
  /\ scan' = [scan EXCEPT ![c] = FALSE]
  /\ UNCHANGED <<lk, proc, procvars, pcvars, tokens>>

\* sched(): the processor goes back to its scheduler, still inside the scan
\* and with ptable.lock held.
Sched(c) == proc' = [proc EXCEPT ![c] = None] /\ UNCHANGED scan

\* The process that processor c runs moves from one place to another.
Goes(c, p, from, to) ==
  /\ proc[c] = p /\ at[p] = from
  /\ at' = [at EXCEPT ![p] = to]

-----------------------------------------------------------------------------
\* The lock lk is taken, or ptable.lock, or each is released.
GetLk(c, p, from, to) ==
  /\ Goes(c, p, from, to)
  /\ lk = None /\ lk' = c
  /\ UNCHANGED <<ptlock, proc, scan, procvars, back, victim, tokens>>

DropLk(c, p, from, to) ==
  /\ Goes(c, p, from, to)
  /\ lk' = None
  /\ UNCHANGED <<ptlock, proc, scan, procvars, back, victim, tokens>>

GetPt(c, p, from, to) ==
  /\ Goes(c, p, from, to)
  /\ ptlock = None /\ ptlock' = c
  /\ UNCHANGED <<lk, proc, scan, procvars, back, victim, tokens>>

DropPt(c, p, from, to) ==
  /\ Goes(c, p, from, to)
  /\ ptlock' = None
  /\ UNCHANGED <<lk, proc, scan, procvars, back, victim, tokens>>

\* The taker: acquire(lk), test, and take a token.
TakeEnter(c, p) == ~pkilled[p] /\ GetLk(c, p, "user", "test")

\* Mutant: the taker does not test the condition.
Take_NoTest(c, p) ==
  /\ Goes(c, p, "test", "drop")
  /\ tokens' = tokens - 1
  /\ UNCHANGED <<ptlock, lk, proc, scan, procvars, back, victim>>

Take(c, p) ==
  /\ Goes(c, p, "test", "drop")
  /\ tokens > 0
  /\ tokens' = tokens - 1
  /\ UNCHANGED <<ptlock, lk, proc, scan, procvars, back, victim>>

\* No token: the loop tests the killed flag, as in piperead() and
\* sys_sleep(), with lk held but without ptable.lock, under which kill() sets it.
GiveUp(c, p) ==
  /\ Goes(c, p, "test", "drop")
  /\ tokens = 0 /\ pkilled[p]
  /\ UNCHANGED <<ptlock, lk, proc, scan, procvars, back, victim, tokens>>

SleepCall(c, p) ==
  /\ Goes(c, p, "test", "enter")
  /\ tokens = 0 /\ ~pkilled[p]
  /\ UNCHANGED <<ptlock, lk, proc, scan, procvars, back, victim, tokens>>

\* Mutant: sleep() releases lk before it acquires ptable.lock.
SleepSwapLocks_Reversed(c, p) ==
  DropLk(c, p, "enter", "sleep") \/ GetPt(c, p, "sleep", "asleep")

\* sleep(chan, lk): acquire(&ptable.lock), and only then release(lk).
SleepSwapLocks(c, p) ==
  GetPt(c, p, "enter", "sleep") \/ DropLk(c, p, "sleep", "asleep")

\* p->chan = chan, p->state = SLEEPING, sched().
SleepSched(c, p) ==
  /\ Goes(c, p, "asleep", "tidy")
  /\ onchan' = [onchan EXCEPT ![p] = TRUE]
  /\ pstate' = [pstate EXCEPT ![p] = "SLEEPING"]
  /\ Sched(c)
  /\ UNCHANGED <<ptlock, lk, pkilled, back, victim, tokens>>

\* Switched to again, with ptable.lock held: p->chan = 0, release it, and
\* acquire(lk) to test the condition again.
SleepTidy(c, p) ==
  /\ Goes(c, p, "tidy", "relock")
  /\ onchan' = [onchan EXCEPT ![p] = FALSE]
  /\ ptlock' = None
  /\ UNCHANGED <<lk, proc, scan, pstate, pkilled, back, victim, tokens>>

SleepRelock(c, p) == GetLk(c, p, "relock", "test")

\* The putter adds a token and calls wakeup() before it releases lk.
PutEnter(c, p) == ~pkilled[p] /\ GetLk(c, p, "user", "put")

Put(c, p) ==
  /\ Goes(c, p, "put", "wakeup")
  /\ tokens < MaxTokens
  /\ tokens' = tokens + 1
  /\ UNCHANGED <<ptlock, lk, proc, scan, procvars, back, victim>>

PutFull(c, p) == tokens = MaxTokens /\ DropLk(c, p, "put", "user")

WakeupEnter(c, p) == GetPt(c, p, "wakeup", "wakeup1")

wakeup1(c, p) ==
  /\ Goes(c, p, "wakeup1", "woken")
  /\ pstate' = [q \in Procs |->
       IF pstate[q] = "SLEEPING" /\ onchan[q] THEN "RUNNABLE" ELSE pstate[q]]
  /\ UNCHANGED <<ptlock, lk, proc, scan, onchan, pkilled, back, victim, tokens>>

WakeupLeave(c, p) == DropPt(c, p, "woken", "drop")

Leave(c, p) == DropLk(c, p, "drop", "user")

\* kill(pid): under ptable.lock only.
KillEnter(c, p, q) ==
  /\ ~pkilled[p] /\ q \in Killable /\ ~pkilled[q]
  /\ Goes(c, p, "user", "kill")
  /\ ptlock = None /\ ptlock' = c
  /\ victim' = [victim EXCEPT ![p] = q]
  /\ UNCHANGED <<lk, proc, scan, procvars, back, tokens>>

KillMark(c, p) ==
  /\ Goes(c, p, "kill", "killed")
  /\ pkilled' = [pkilled EXCEPT ![victim[p]] = TRUE]
  /\ pstate' = [pstate EXCEPT ![victim[p]] = IF @ = "SLEEPING" THEN "RUNNABLE" ELSE @]
  /\ victim' = [victim EXCEPT ![p] = None]
  /\ UNCHANGED <<ptlock, lk, proc, scan, onchan, back, tokens>>

KillLeave(c, p) == DropPt(c, p, "killed", "user")

\* A timer interrupt calls yield() wherever no lock keeps interrupts off,
\* which includes the gap in sleep() between its release() and acquire().
YieldEnter(c, p) ==
  /\ \E from \in {"user", "relock"} :
       /\ Goes(c, p, from, "yield")
       /\ back' = [back EXCEPT ![p] = from]
  /\ ptlock = None /\ ptlock' = c
  /\ UNCHANGED <<lk, proc, scan, procvars, victim, tokens>>

YieldSched(c, p) ==
  /\ Goes(c, p, "yield", "resume")
  /\ pstate' = [pstate EXCEPT ![p] = "RUNNABLE"]
  /\ Sched(c)
  /\ UNCHANGED <<ptlock, lk, onchan, pkilled, back, victim, tokens>>

\* Mutant: forkret() and yield() do not release ptable.lock.
YieldLeave_KeepsLock(c, p) ==
  /\ Goes(c, p, "resume", back[p])
  /\ UNCHANGED <<ptlock, lk, proc, scan, procvars, back, victim, tokens>>

\* The last release() of yield(), and of forkret().
YieldLeave(c, p) == DropPt(c, p, "resume", back[p])

-----------------------------------------------------------------------------
Runs(c, p) ==
  \/ TakeEnter(c, p) \/ Take(c, p) \/ GiveUp(c, p)
  \/ SleepCall(c, p) \/ SleepSwapLocks(c, p) \/ SleepSched(c, p)
  \/ SleepTidy(c, p) \/ SleepRelock(c, p)
  \/ PutEnter(c, p) \/ Put(c, p) \/ PutFull(c, p)
  \/ WakeupEnter(c, p) \/ wakeup1(c, p) \/ WakeupLeave(c, p) \/ Leave(c, p)
  \/ (\E q \in Procs : KillEnter(c, p, q)) \/ KillMark(c, p) \/ KillLeave(c, p)
  \/ YieldEnter(c, p) \/ YieldSched(c, p) \/ YieldLeave(c, p)

SWNext ==
  \E c \in CPUs :
    \/ StartScan(c) \/ EndScan(c)
    \/ \E p \in Procs : Dispatch(c, p) \/ Runs(c, p)

SWSpec == SWInit /\ [][SWNext]_swvars

-----------------------------------------------------------------------------
Places == {"user", "test", "drop", "enter", "sleep", "asleep", "tidy", "relock", "put",
           "wakeup", "wakeup1", "woken", "kill", "killed", "yield", "resume"}

SWTypeOK ==
  /\ ptlock \in CPUs \cup {None} /\ lk \in CPUs \cup {None}
  /\ proc \in [CPUs -> Procs \cup {None}]
  /\ scan \in [CPUs -> BOOLEAN]
  /\ pstate \in [Procs -> {"RUNNABLE", "RUNNING", "SLEEPING"}]
  /\ onchan \in [Procs -> BOOLEAN]
  /\ pkilled \in [Procs -> BOOLEAN]
  /\ at \in [Procs -> Places]
  /\ back \in [Procs -> {"user", "relock"}]
  /\ victim \in [Procs -> Procs \cup {None}]
  /\ tokens \in 0..MaxTokens

\* p->state RUNNING and cpus[c].proc tell the same story: a process that is
\* not RUNNING is on no processor, one that is RUNNING is on exactly one, so
\* no kernel stack is ever used by two processors, although sched() marks a
\* process RUNNABLE or SLEEPING while its code still runs.
OnOneCpu ==
  \A p \in Procs :
    IF pstate[p] = "RUNNING"
    THEN \E c \in CPUs : \A d \in CPUs : proc[d] = p <=> d = c
    ELSE \A c \in CPUs : proc[c] # p

\* The places of a process inside critical sections of the two locks.
NeedsPt == {"sleep", "asleep", "tidy", "wakeup1", "woken", "kill", "killed",
            "yield", "resume"}
NeedsLk == {"test", "drop", "enter", "sleep", "put", "wakeup", "wakeup1", "woken"}

\* A processor holds ptable.lock exactly while its scheduler scans the table
\* or the process it runs is inside a critical section of it, through every
\* hand-over in swtch(); likewise lk.  sched()'s check that it is called with
\* ptable.lock and no other lock held never fails.
LocksExact ==
  \A c \in CPUs :
    /\ ptlock = c <=> \/ scan[c] /\ proc[c] = None
                      \/ proc[c] # None /\ at[proc[c]] \in NeedsPt
    /\ lk = c <=> proc[c] # None /\ at[proc[c]] \in NeedsLk

\* To the code that uses them, sleep() and wakeup() are the atomic steps of
\* AtomicWait: a process blocks when it becomes SLEEPING, and a token counts
\* from the moment wakeup1() has run for it.
Announced ==
  IF \E p \in Procs : at[p] \in {"wakeup", "wakeup1"} THEN tokens - 1 ELSE tokens
Atomic == INSTANCE AtomicWait WITH
  tokens <- Announced, asleep <- {p \in Procs : pstate[p] = "SLEEPING"}
ImplementsAtomicWait == Atomic!Spec

=============================================================================
