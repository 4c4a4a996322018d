----------------------------- MODULE SleepLock -----------------------------
(***************************************************************************)
(* The sleep-lock of LAB4/codes/sleeplock.c, which records the pid of its  *)
(* owner and panics when another process releases it.  The system calls    *)
(* sys_test_sl_lock and sys_test_sl_unlock reach it from user space, so    *)
(* any process may call releasesleep() at any time: test_sl.c does.        *)
(*                                                                         *)
(* One action is one critical section of lk->lk, up to release(&lk->lk)    *)
(* or to the sleep() that gives the lock up.                               *)
(***************************************************************************)
EXTENDS KernelSleep

CONSTANTS
  Misusers,   \* the processes that may release a lock they do not own
  NoPid       \* lk->pid == 0

ASSUME SleepLockAssumption ==
  Misusers \subseteq Procs /\ NoPid \notin Procs

VARIABLES
  locked,     \* lk->locked
  pid,        \* lk->pid: the owner
  waiting,    \* p is in acquiresleep()
  inside      \* the processes that acquired the lock and did not release it

sleeplockvars == <<locked, pid, waiting, inside, calls>>
slvars == <<sleeplockvars, kvars>>

lk == "lk"        \* the address of the lock, the only wait channel here

SLInit ==
  /\ KInit
  /\ locked = 0
  /\ pid = NoPid
  /\ waiting = [p \in Procs |-> FALSE]
  /\ inside = {}

\* The process is about to test lk->locked: at the start of the call, or back
\* from sleep().
SLAttempts(p) ==
  /\ Runs(p)
  /\ \/ /\ ~waiting[p] /\ p \notin inside /\ ~killed[p]
        /\ CountCall(p)
     \/ /\ waiting[p]
        /\ UNCHANGED calls

SleepAcquire(p) ==
  /\ SLAttempts(p)
  /\ locked = 1
  /\ waiting' = [waiting EXCEPT ![p] = TRUE]
  /\ SleepOn(p, lk)
  /\ UNCHANGED <<locked, pid, inside>>

\* Mutant: an if instead of a while, and a count instead of a flag.
Acquire_NoTest(p) ==
  /\ SLAttempts(p)
  /\ locked' = locked + 1
  /\ pid' = p
  /\ waiting' = [waiting EXCEPT ![p] = FALSE]
  /\ inside' = inside \cup {p}
  /\ LeaveSleep(p)

Acquire(p) ==
  /\ SLAttempts(p)
  /\ locked = 0
  /\ locked' = 1
  /\ pid' = p
  /\ waiting' = [waiting EXCEPT ![p] = FALSE]
  /\ inside' = inside \cup {p}
  /\ LeaveSleep(p)

\* The process calls releasesleep(): the owner, or one that is mistaken.
CallsRelease(p) ==
  /\ Runs(p) /\ ~waiting[p] /\ ~killed[p]
  /\ p \in inside \/ p \in Misusers

\* Mutants: releasesleep() forgets to clear the owner, or to wake the waiters.
Release_KeepsPid(p) ==
  /\ CallsRelease(p)
  /\ pid = p
  /\ locked' = 0
  /\ pstate' = Woken(lk)
  /\ inside' = inside \ {p}
  /\ UNCHANGED <<pid, waiting, calls, chan, killed>>

Release_NoWakeup(p) ==
  /\ CallsRelease(p)
  /\ pid = p
  /\ locked' = 0
  /\ pid' = NoPid
  /\ inside' = inside \ {p}
  /\ UNCHANGED <<waiting, calls, kvars>>

\* wakeup(lk) makes every waiter test the lock again.
Release(p) ==
  /\ CallsRelease(p)
  /\ pid = p
  /\ locked' = 0
  /\ pid' = NoPid
  /\ pstate' = Woken(lk)
  /\ inside' = inside \ {p}
  /\ UNCHANGED <<waiting, calls, chan, killed>>

\* Mutant: the releasesleep() of the original xv6, which asks for no owner.
ReleaseNotOwner_Opens(p) ==
  /\ CallsRelease(p)
  /\ pid # p
  /\ locked' = 0
  /\ pid' = NoPid
  /\ pstate' = Woken(lk)
  /\ UNCHANGED <<waiting, inside, calls, chan, killed>>

\* panic("releasesleep: not owner"), after lk->lk is released: the lock is left
\* as it was, and the kernel is on its way to a stop.
ReleaseNotOwner(p) ==
  /\ CallsRelease(p)
  /\ pid # p
  /\ Panic(p)
  /\ UNCHANGED sleeplockvars

holdingsleep(p) == locked = 1 /\ pid = p

SLKillProc(p) == Kill(p) /\ UNCHANGED sleeplockvars

\* The system call returns, and trap() finds the process killed.
SLExitProc(p) ==
  /\ ~waiting[p]
  /\ Exit(p)
  /\ UNCHANGED sleeplockvars

SLStep(p) ==
  SleepAcquire(p) \/ Acquire(p) \/ Release(p) \/ ReleaseNotOwner(p) \/ SLExitProc(p)

SLNext == \E p \in Procs : SLStep(p) \/ SLKillProc(p)

\* Until somebody panics, a process inside acquiresleep() goes on running, and
\* the owner eventually releases the lock; nothing forces a process to ask for it.
SLProgress(p) ==
  /\ ~Panicked
  /\ \/ waiting[p] /\ (SleepAcquire(p) \/ Acquire(p))
     \/ p \in inside /\ Release(p)

SLSpec == SLInit /\ [][SLNext]_slvars
SLFairSpec == SLSpec /\ \A p \in Procs : WF_slvars(SLProgress(p))

-----------------------------------------------------------------------------
SLTypeOK ==
  /\ KTypeOK({NoChan, lk})
  /\ locked \in {0, 1}
  /\ pid \in Procs \cup {NoPid}
  /\ waiting \in [Procs -> BOOLEAN]
  /\ inside \subseteq Procs

\* holdingsleep(), on which bwrite(), brelse() and iunlock() rely, is true of
\* exactly the process that is inside the lock, also after releases by
\* processes that were not: the owner field never goes stale.
OwnerExact ==
  /\ \A p \in Procs : holdingsleep(p) <=> p \in inside
  /\ locked = 0 <=> pid = NoPid

\* No lost wakeup in sleeplock.c: a process sleeps in acquiresleep() only
\* while the lock is held, so the next releasesleep() will wake it.
SLNoLostWakeup == \A p \in Procs : Sleeps(p) => locked = 1

\* The sleep-lock is an exclusive lock, and the owner check of releasesleep()
\* keeps a process that is not the owner from opening it.
Exclusive == INSTANCE Mutex
ImplementsMutex == Exclusive!Spec

\* A process that is killed inside the lock never releases it.
SLAbandoned == \E p \in inside : killed[p]

\* Every acquiresleep() returns, through any sequence of sleeps, wakeups and
\* kills of waiters, unless the lock is abandoned or a process that does not own
\* it has tried to release it, which stops the kernel.
SLEveryCallReturns ==
  \A p \in Procs : waiting[p] ~> ~waiting[p] \/ SLAbandoned \/ Panicked

=============================================================================
