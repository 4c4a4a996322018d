------------------------------- MODULE RWLock -------------------------------
(***************************************************************************)
(* The readers-writer lock of LAB4/codes/rwlock.c and the system calls     *)
(* that reach it (sys_rw_reader_enter and the rest of sysproc.c).          *)
(*                                                                         *)
(* One action is one critical section of rw->lk: from acquire(&rw->lk) to  *)
(* release(&rw->lk), or to the sleep() that gives the lock up.  A caller   *)
(* that wakes takes the lock again and tests the loop condition again, so  *)
(* the first test and every later one are the same action.                 *)
(*                                                                         *)
(* Clients are the disciplined ones of rwtest.c: a process releases only   *)
(* what it holds.  A killed process may die holding the lock.              *)
(***************************************************************************)
EXTENDS KernelSleep

VARIABLES
  read_count,     \* rw->read_count
  write_locked,   \* rw->write_locked
  want,           \* the acquire call p is in: "none", "read" or "write"
  hold            \* what p has acquired and not released

rwlockvars == <<read_count, write_locked, want, hold, calls>>
rwvars == <<rwlockvars, kvars>>

rw == "rw"        \* the address of the lock, the only wait channel here

RWInit ==
  /\ KInit
  /\ read_count = 0
  /\ write_locked = 0
  /\ want = [p \in Procs |-> "none"]
  /\ hold = [p \in Procs |-> "none"]

\* The process is about to test the loop condition of an acquire call of kind
\* m: it enters the system call (trap() would have sent a killed one to
\* exit()), or it has just come back from sleep().
RWAttempts(p, m) ==
  /\ Runs(p)
  /\ \/ /\ want[p] = "none" /\ hold[p] = "none" /\ ~killed[p]
        /\ CountCall(p)
     \/ /\ want[p] = m
        /\ UNCHANGED calls

Block(p, m) ==
  /\ RWAttempts(p, m)
  /\ want' = [want EXCEPT ![p] = m]
  /\ SleepOn(p, rw)
  /\ UNCHANGED <<read_count, write_locked, hold>>

Enter(p, m) ==
  /\ RWAttempts(p, m)
  /\ want' = [want EXCEPT ![p] = "none"]
  /\ hold' = [hold EXCEPT ![p] = m]
  /\ LeaveSleep(p)

SleepRead(p) ==
  /\ write_locked = 1
  /\ Block(p, "read")

AcquireRead(p) ==
  /\ write_locked = 0
  /\ Enter(p, "read")
  /\ read_count' = read_count + 1
  /\ UNCHANGED write_locked

SleepWrite(p) ==
  /\ write_locked = 1 \/ read_count > 0
  /\ Block(p, "write")

\* Mutants: the loop of rwlock_acquire_write() forgets half of its condition.
AcquireWrite_IgnoresReaders(p) ==
  /\ write_locked = 0
  /\ Enter(p, "write")
  /\ write_locked' = 1
  /\ UNCHANGED read_count

AcquireWrite_IgnoresWriter(p) ==
  /\ read_count = 0
  /\ Enter(p, "write")
  /\ write_locked' = 1
  /\ UNCHANGED read_count

AcquireWrite(p) ==
  /\ write_locked = 0
  /\ read_count = 0
  /\ Enter(p, "write")
  /\ write_locked' = 1
  /\ UNCHANGED read_count

Leaves(p, m) ==
  /\ Runs(p)
  /\ hold[p] = m /\ want[p] = "none" /\ ~killed[p]
  /\ hold' = [hold EXCEPT ![p] = "none"]
  /\ UNCHANGED <<want, calls, chan, killed>>

\* Mutant: the last reader out wakes nobody.
ReleaseRead_NoWakeup(p) ==
  /\ Leaves(p, "read")
  /\ read_count' = read_count - 1
  /\ UNCHANGED <<write_locked, pstate>>

ReleaseRead(p) ==
  /\ Leaves(p, "read")
  /\ read_count' = read_count - 1
  /\ pstate' = IF read_count' = 0 THEN Woken(rw) ELSE pstate
  /\ UNCHANGED write_locked

\* Mutants: the writer calls the readers' release; the writer wakes nobody.
ReleaseWrite_AsReader(p) ==
  /\ Leaves(p, "write")
  /\ read_count' = read_count - 1
  /\ pstate' = IF read_count' = 0 THEN Woken(rw) ELSE pstate
  /\ UNCHANGED write_locked

ReleaseWrite_NoWakeup(p) ==
  /\ Leaves(p, "write")
  /\ write_locked' = 0
  /\ UNCHANGED <<read_count, pstate>>

ReleaseWrite(p) ==
  /\ Leaves(p, "write")
  /\ write_locked' = 0
  /\ pstate' = Woken(rw)
  /\ UNCHANGED read_count

RWKillProc(p) == Kill(p) /\ UNCHANGED rwlockvars

\* The system call returns, and trap() finds the process killed.
RWExitProc(p) ==
  /\ want[p] = "none"
  /\ Exit(p)
  /\ UNCHANGED rwlockvars

RWStep(p) ==
  \/ SleepRead(p) \/ AcquireRead(p) \/ ReleaseRead(p)
  \/ SleepWrite(p) \/ AcquireWrite(p) \/ ReleaseWrite(p)
  \/ RWExitProc(p)

RWNext == \E p \in Procs : RWStep(p) \/ RWKillProc(p)

\* A process inside an acquire call goes on running, and one inside the lock
\* eventually leaves it; nothing forces a process to ask for the lock.
RWProgress(p) ==
  \/ want[p] # "none" /\ (SleepRead(p) \/ AcquireRead(p)
                          \/ SleepWrite(p) \/ AcquireWrite(p))
  \/ ReleaseRead(p) \/ ReleaseWrite(p) \/ RWExitProc(p)

RWSpec == RWInit /\ [][RWNext]_rwvars
RWFairSpec == RWSpec /\ \A p \in Procs : WF_rwvars(RWProgress(p))

-----------------------------------------------------------------------------
Readers == {p \in Procs : hold[p] = "read"}
Writers == {p \in Procs : hold[p] = "write"}

RWTypeOK ==
  /\ KTypeOK({NoChan, rw})
  /\ read_count \in Nat
  /\ write_locked \in {0, 1}
  /\ want \in [Procs -> {"none", "read", "write"}]
  /\ hold \in [Procs -> {"none", "read", "write"}]

\* The two fields of struct rwlock say exactly who is inside: read_count is
\* the number of readers and write_locked is set while a writer is inside,
\* also when processes die inside the lock.
CountsAgree ==
  /\ read_count = Cardinality(Readers)
  /\ write_locked = 1 <=> Writers # {}

\* No lost wakeup in rwlock.c: a process asleep in an acquire call still has
\* a reason to be: a reader sleeps only while a writer is inside, a writer
\* only while somebody is.  The wakeup of the last one out cannot be missed,
\* and waking only when read_count drops to 0 loses no reader.
RWNoLostWakeup ==
  \A p \in Procs : Sleeps(p) =>
    \/ write_locked = 1
    \/ want[p] = "write" /\ read_count > 0

\* The lock keeps the promise of a readers-writer lock.
ReadWrite == INSTANCE ReadersWriters
ImplementsReadersWriters == ReadWrite!Spec

\* A process that is killed inside the lock never releases it.
RWAbandoned == \E p \in Readers \cup Writers : killed[p]

\* Every acquire call returns, unless the lock is abandoned: no wakeup is lost,
\* a killed waiter takes nothing with it, and no set of waiters blocks itself,
\* readers and writers mixed.
RWEveryCallReturns ==
  \A p \in Procs : want[p] # "none" ~> want[p] = "none" \/ RWAbandoned

=============================================================================
