----------------------------- MODULE LockProofs -----------------------------
(***************************************************************************)
(* Proofs about the three locks that put a process to sleep, for every set *)
(* of processes and every bound on the number of calls.                    *)
(*                                                                         *)
(* RWLock: the counters agree with who is inside, no wakeup is lost, and   *)
(* the lock implements ReadersWriters.                                     *)
(* SleepLock: the same, with Mutex, for processes of which any may be      *)
(* killed and any may release the lock without owning it.                  *)
(* PLock, for every pool of nodes and every priority: the nodes of the     *)
(* pool belong to the waiters, and while nobody is killed the list holds   *)
(* exactly the sleepers, the lock is handed to the highest of them and it  *)
(* is exclusive.                                                           *)
(***************************************************************************)
EXTENDS RWLock, SleepLock, PLock, FiniteSetTheorems, TLAPS

-----------------------------------------------------------------------------
(* The readers-writer lock. *)

\* Who is inside excludes the others, in terms of hold alone.
RWExclusion ==
  \A p, q \in Procs :
    p # q /\ hold[p] = "write" => hold[q] = "none"

\* Where a process can be: it asks for the lock only from outside, and it
\* sleeps only inside an acquire call, on the channel of the lock.
RWLocated ==
  \A p \in Procs :
    /\ want[p] # "none" => hold[p] = "none"
    /\ Sleeps(p) => want[p] # "none" /\ chan[p] = rw

\* The inductive invariant.  RWNoLostWakeup needs Located (a wakeup on rw must
\* reach every sleeper), CountsAgree needs Exclusion (a writer that leaves is
\* the only one), and Exclusion needs CountsAgree (the guards test counters).
RWIInv == RWTypeOK /\ RWExclusion /\ CountsAgree /\ RWLocated /\ RWNoLostWakeup

USE KernelSleepAssumption
USE DEF kvars, CountCall, rwlockvars, rwvars, rw

\* The readers are finitely many, so counting them is adding and removing one.
LEMMA ReadersFinite == IsFiniteSet(Readers)
  BY FS_Subset DEF Readers

\* The test of rwlock_acquire_write() means that nobody is inside.
LEMMA EmptyInside ==
  ASSUME CountsAgree, write_locked = 0, read_count = 0
  PROVE  Readers = {} /\ Writers = {}
<1>1. Cardinality(Readers) = 0
  BY DEF CountsAgree
<1>2. Readers = {}
  BY <1>1, ReadersFinite, FS_EmptySet
<1>3. Writers = {}
  BY DEF CountsAgree
<1>4. QED
  BY <1>2, <1>3

\* The invariant holds when the system starts.
LEMMA RWInitIInv == RWInit => RWIInv
<1> SUFFICES ASSUME RWInit PROVE RWIInv
  OBVIOUS
<1> USE DEF RWInit, KInit
<1>1. RWTypeOK
  BY DEF RWTypeOK, KTypeOK
<1>2. Readers = {} /\ Writers = {}
  BY DEF Readers, Writers
<1>3. CountsAgree
  BY <1>2, FS_EmptySet DEF CountsAgree
<1>4. RWExclusion /\ RWLocated /\ RWNoLostWakeup
  BY DEF RWExclusion, RWLocated, RWNoLostWakeup, Sleeps
<1>5. QED
  BY <1>1, <1>3, <1>4 DEF RWIInv

\* Sleep keeps the invariant.
LEMMA RWSleepStep ==
  ASSUME RWIInv, NEW p \in Procs, SleepRead(p) \/ SleepWrite(p)
  PROVE  RWIInv'
<1> USE DEF SleepRead, SleepWrite, Block, RWAttempts, SleepOn, Runs
<1>1. RWTypeOK'
  BY DEF RWIInv, RWTypeOK, KTypeOK
<1>2. UNCHANGED <<Readers, Writers>>
  BY DEF Readers, Writers
<1>3. CountsAgree'
  BY <1>2 DEF RWIInv, CountsAgree
<1>4. RWExclusion'
  BY DEF RWIInv, RWExclusion
<1>5. hold[p] = "none"
  BY DEF RWIInv, RWLocated
<1>6. RWLocated'
  BY <1>5 DEF RWIInv, RWTypeOK, KTypeOK, RWLocated, Sleeps
<1>7. RWNoLostWakeup'
  BY DEF RWIInv, RWTypeOK, KTypeOK, RWNoLostWakeup, Sleeps
<1>8. QED
  BY <1>1, <1>3, <1>4, <1>6, <1>7 DEF RWIInv

\* AcquireRead keeps the invariant.
LEMMA AcquireReadStep ==
  ASSUME RWIInv, NEW p \in Procs, AcquireRead(p)
  PROVE  RWIInv'
<1> USE DEF AcquireRead, Enter, RWAttempts, LeaveSleep, Runs
<1>1. RWTypeOK'
  BY DEF RWIInv, RWTypeOK, KTypeOK
<1>2. hold[p] = "none" /\ hold' = [hold EXCEPT ![p] = "read"]
  BY DEF RWIInv, RWLocated
<1>3. Readers' = Readers \cup {p} /\ p \notin Readers
  BY <1>2 DEF RWIInv, RWTypeOK, Readers
<1>4. Writers' = {} /\ Writers = {}
  BY <1>2 DEF RWIInv, RWTypeOK, CountsAgree, Writers
<1>5. Cardinality(Readers') = Cardinality(Readers) + 1
  BY <1>3, ReadersFinite, FS_AddElement
<1>6. CountsAgree'
  BY <1>4, <1>5 DEF RWIInv, CountsAgree
<1>7. RWExclusion'
  BY <1>4 DEF RWIInv, RWExclusion, Writers
<1>8. RWLocated'
  BY <1>2 DEF RWIInv, RWTypeOK, KTypeOK, RWLocated, Sleeps
<1>9. RWNoLostWakeup'
  BY DEF RWIInv, RWTypeOK, KTypeOK, RWNoLostWakeup, Sleeps
<1>10. QED
  BY <1>1, <1>6, <1>7, <1>8, <1>9 DEF RWIInv

\* AcquireWrite keeps the invariant.
LEMMA AcquireWriteStep ==
  ASSUME RWIInv, NEW p \in Procs, AcquireWrite(p)
  PROVE  RWIInv'
<1> USE DEF AcquireWrite, Enter, RWAttempts, LeaveSleep, Runs
<1>1. RWTypeOK'
  BY DEF RWIInv, RWTypeOK, KTypeOK
<1>2. hold[p] = "none" /\ hold' = [hold EXCEPT ![p] = "write"]
  BY DEF RWIInv, RWLocated
<1>3. Readers = {} /\ Writers = {}
  BY EmptyInside DEF RWIInv
<1>4. Readers' = {} /\ Writers' = {p}
  BY <1>2, <1>3 DEF RWIInv, RWTypeOK, Readers, Writers
<1>5. CountsAgree'
  BY <1>4, FS_EmptySet DEF RWIInv, CountsAgree
<1>6. RWExclusion'
  BY <1>2, <1>3 DEF RWIInv, RWTypeOK, RWExclusion, Readers, Writers
<1>7. RWLocated'
  BY <1>2 DEF RWIInv, RWTypeOK, KTypeOK, RWLocated, Sleeps
<1>8. RWNoLostWakeup'
  BY DEF RWNoLostWakeup
<1>9. QED
  BY <1>1, <1>5, <1>6, <1>7, <1>8 DEF RWIInv

\* ReleaseRead keeps the invariant.
LEMMA ReleaseReadStep ==
  ASSUME RWIInv, NEW p \in Procs, ReleaseRead(p)
  PROVE  RWIInv'
<1> USE DEF ReleaseRead, Leaves, Runs
<1>1. Readers' = Readers \ {p} /\ p \in Readers
  BY DEF RWIInv, RWTypeOK, Readers
<1>2. UNCHANGED Writers
  BY DEF RWIInv, RWTypeOK, Writers
<1>3. /\ Cardinality(Readers) \in Nat \ {0}
      /\ Cardinality(Readers') = Cardinality(Readers) - 1
  BY <1>1, ReadersFinite, FS_RemoveElement, FS_CardinalityType, FS_EmptySet
<1>4. RWTypeOK'
  BY <1>3 DEF RWIInv, RWTypeOK, KTypeOK, CountsAgree, Woken, Sleeps
<1>5. CountsAgree'
  BY <1>2, <1>3 DEF RWIInv, CountsAgree
<1>6. RWExclusion'
  BY DEF RWIInv, RWTypeOK, RWExclusion
<1>7. RWLocated'
  BY DEF RWIInv, RWTypeOK, KTypeOK, RWLocated, Woken, Sleeps
<1>8. RWNoLostWakeup'
  BY <1>4, <1>7 DEF RWIInv, RWTypeOK, KTypeOK, RWLocated, RWNoLostWakeup, Woken, Sleeps
<1>9. QED
  BY <1>4, <1>5, <1>6, <1>7, <1>8 DEF RWIInv

\* ReleaseWrite keeps the invariant.
LEMMA ReleaseWriteStep ==
  ASSUME RWIInv, NEW p \in Procs, ReleaseWrite(p)
  PROVE  RWIInv'
<1> USE DEF ReleaseWrite, Leaves, Runs
<1>1. RWTypeOK'
  BY DEF RWIInv, RWTypeOK, KTypeOK, Woken, Sleeps
<1>2. Writers' = {} /\ UNCHANGED Readers
  BY DEF RWIInv, RWTypeOK, RWExclusion, Readers, Writers
<1>3. CountsAgree'
  BY <1>2 DEF RWIInv, CountsAgree
<1>4. RWExclusion'
  BY DEF RWIInv, RWTypeOK, RWExclusion
<1>5. RWLocated'
  BY DEF RWIInv, RWTypeOK, KTypeOK, RWLocated, Woken, Sleeps
<1>6. RWNoLostWakeup'
  BY DEF RWIInv, RWTypeOK, KTypeOK, RWLocated, RWNoLostWakeup, Woken, Sleeps
<1>7. QED
  BY <1>1, <1>3, <1>4, <1>5, <1>6 DEF RWIInv

\* KillExit keeps the invariant.
LEMMA RWKillExitStep ==
  ASSUME RWIInv, NEW p \in Procs, RWKillProc(p) \/ RWExitProc(p)
  PROVE  RWIInv'
<1> USE DEF RWKillProc, RWExitProc, Kill, Exit, Runs
<1>1. RWTypeOK'
  <2>1. CASE RWKillProc(p)
    BY <2>1 DEF RWIInv, RWTypeOK, KTypeOK
  <2>2. CASE RWExitProc(p)
    BY <2>2 DEF RWIInv, RWTypeOK, KTypeOK
  <2>3. QED
    BY <2>1, <2>2
<1>2. UNCHANGED <<Readers, Writers>>
  BY DEF Readers, Writers
<1>3. CountsAgree' /\ RWExclusion'
  BY <1>2 DEF RWIInv, CountsAgree, RWExclusion
<1>4. RWLocated' /\ RWNoLostWakeup'
  BY DEF RWIInv, RWTypeOK, KTypeOK, RWLocated, RWNoLostWakeup, Sleeps
<1>5. QED
  BY <1>1, <1>3, <1>4 DEF RWIInv

\* Every step, and every stutter, keeps the invariant.
LEMMA RWNextIInv == RWIInv /\ [RWNext]_rwvars => RWIInv'
<1> SUFFICES ASSUME RWIInv, [RWNext]_rwvars PROVE RWIInv'
  OBVIOUS
<1>1. CASE UNCHANGED rwvars
  BY <1>1 DEF RWIInv, RWTypeOK, KTypeOK, RWExclusion, CountsAgree, RWLocated,
              RWNoLostWakeup, Readers, Writers, Sleeps
<1>2. CASE RWNext
  BY <1>2, RWSleepStep, AcquireReadStep, AcquireWriteStep, ReleaseReadStep,
     ReleaseWriteStep, RWKillExitStep DEF RWNext, RWStep
<1>3. QED
  BY <1>1, <1>2

\* The invariant holds in every reachable state.
THEOREM RWInvariance == RWSpec => []RWIInv
<1>1. QED
  BY RWInitIInv, RWNextIInv, PTL DEF RWSpec

\* The fields of struct rwlock count exactly the processes inside.
THEOREM CountersCorrect == RWSpec => [](RWTypeOK /\ CountsAgree)
<1>1. RWIInv => RWTypeOK /\ CountsAgree
  BY DEF RWIInv
<1>2. QED
  BY <1>1, RWInvariance, PTL

\* No process sleeps in rwlock.c without a reason.
THEOREM RWWakeupsNotLost == RWSpec => []RWNoLostWakeup
<1>1. RWIInv => RWNoLostWakeup
  BY DEF RWIInv
<1>2. QED
  BY <1>1, RWInvariance, PTL

\* A step of the code is a step of the readers-writer lock or invisible in it.
LEMMA RWStepRefines ==
  RWIInv /\ [RWNext]_rwvars => [ReadWrite!Next]_hold
<1> SUFFICES ASSUME RWIInv, [RWNext]_rwvars PROVE [ReadWrite!Next]_hold
  OBVIOUS
<1>1. CASE UNCHANGED rwvars
  BY <1>1
<1>2. ASSUME NEW p \in Procs, SleepRead(p) \/ SleepWrite(p)
      PROVE  UNCHANGED hold
  BY <1>2 DEF SleepRead, SleepWrite, Block
<1>3. ASSUME NEW p \in Procs, AcquireRead(p)
      PROVE  ReadWrite!EnterRead(p)
  <2>1. hold[p] = "none" /\ hold' = [hold EXCEPT ![p] = "read"]
    BY <1>3 DEF AcquireRead, Enter, RWAttempts, RWIInv, RWLocated
  <2>2. Writers = {}
    BY <1>3 DEF AcquireRead, RWIInv, CountsAgree
  <2>3. QED
    BY <2>1, <2>2 DEF Writers, ReadWrite!EnterRead
<1>4. ASSUME NEW p \in Procs, AcquireWrite(p)
      PROVE  ReadWrite!EnterWrite(p)
  <2>1. hold' = [hold EXCEPT ![p] = "write"]
    BY <1>4 DEF AcquireWrite, Enter
  <2>2. Readers = {} /\ Writers = {}
    BY <1>4, EmptyInside DEF AcquireWrite, RWIInv
  <2>3. \A q \in Procs : hold[q] = "none"
    BY <2>2 DEF Readers, Writers, RWIInv, RWTypeOK
  <2>4. QED
    BY <2>1, <2>3 DEF ReadWrite!EnterWrite
<1>5. ASSUME NEW p \in Procs, ReleaseRead(p) \/ ReleaseWrite(p)
      PROVE  ReadWrite!Leave(p)
  BY <1>5 DEF ReleaseRead, ReleaseWrite, Leaves, ReadWrite!Leave
<1>6. ASSUME NEW p \in Procs, RWKillProc(p) \/ RWExitProc(p)
      PROVE  UNCHANGED hold
  BY <1>6 DEF RWKillProc, RWExitProc
<1>7. QED
  BY <1>1, <1>2, <1>3, <1>4, <1>5, <1>6 DEF RWNext, RWStep, ReadWrite!Next

\* The lock of rwlock.c implements the readers-writer lock: any number of
\* readers or one writer, whatever wakeups and kills do.
THEOREM RWRefinement == RWSpec => ImplementsReadersWriters
<1>1. RWInit => ReadWrite!Init
  BY DEF RWInit, ReadWrite!Init
<1>2. QED
  BY <1>1, RWStepRefines, RWInvariance, PTL
     DEF RWSpec, ImplementsReadersWriters, ReadWrite!Spec

HIDE KernelSleepAssumption
HIDE DEF kvars, CountCall, rwlockvars, rwvars, rw

-----------------------------------------------------------------------------
(* The sleep-lock. *)

\* A process sleeps only inside acquiresleep(), on the channel of the lock,
\* and asks for the lock only from outside.
SLLocated ==
  \A p \in Procs :
    /\ waiting[p] => p \notin inside
    /\ Sleeps(p) => waiting[p] /\ chan[p] = lk

\* The inductive invariant.  OwnerExact makes the owner check of
\* releasesleep() mean "the caller is inside"; Located makes its wakeup reach
\* every sleeper.
SLIInv == SLTypeOK /\ OwnerExact /\ SLLocated /\ SLNoLostWakeup

USE KernelSleepAssumption, SleepLockAssumption
USE DEF kvars, CountCall, sleeplockvars, slvars, lk, holdingsleep

\* The invariant holds when the system starts.
LEMMA SLInitIInv == SLInit => SLIInv
  BY DEF SLInit, KInit, SLIInv, SLTypeOK, KTypeOK, OwnerExact, SLLocated,
         SLNoLostWakeup, Sleeps

\* Sleep keeps the invariant.
LEMMA SLSleepStep ==
  ASSUME SLIInv, NEW p \in Procs, SleepAcquire(p)
  PROVE  SLIInv'
<1> USE DEF SleepAcquire, SLAttempts, SleepOn, Runs
<1>1. SLTypeOK'
  BY DEF SLIInv, SLTypeOK, KTypeOK
<1>2. p \notin inside
  BY DEF SLIInv, SLLocated
<1>3. OwnerExact' /\ SLNoLostWakeup'
  BY DEF SLIInv, OwnerExact, SLNoLostWakeup
<1>4. SLLocated'
  BY <1>2 DEF SLIInv, SLTypeOK, KTypeOK, SLLocated, Sleeps
<1>5. QED
  BY <1>1, <1>3, <1>4 DEF SLIInv

\* Acquire keeps the invariant.
LEMMA SLAcquireStep ==
  ASSUME SLIInv, NEW p \in Procs, Acquire(p)
  PROVE  SLIInv'
<1> USE DEF Acquire, SLAttempts, LeaveSleep, Runs
<1>1. SLTypeOK'
  BY DEF SLIInv, SLTypeOK, KTypeOK
<1>2. inside = {}
  BY DEF SLIInv, SLTypeOK, OwnerExact
<1>3. OwnerExact'
  BY <1>2 DEF OwnerExact
<1>4. SLLocated'
  BY DEF SLIInv, SLTypeOK, KTypeOK, SLLocated, Sleeps
<1>5. SLNoLostWakeup'
  BY DEF SLNoLostWakeup
<1>6. QED
  BY <1>1, <1>3, <1>4, <1>5 DEF SLIInv

\* Release keeps the invariant.
LEMMA SLReleaseStep ==
  ASSUME SLIInv, NEW p \in Procs, Release(p)
  PROVE  SLIInv'
<1> USE DEF Release, CallsRelease, Runs
<1>1. SLTypeOK'
  BY DEF SLIInv, SLTypeOK, KTypeOK, Woken
<1>2. inside = {p}
  BY DEF SLIInv, SLTypeOK, OwnerExact
<1>3. OwnerExact'
  BY <1>2 DEF OwnerExact
<1>4. SLLocated' /\ SLNoLostWakeup'
  BY DEF SLIInv, SLTypeOK, KTypeOK, SLLocated, SLNoLostWakeup, Woken, Sleeps
<1>5. QED
  BY <1>1, <1>3, <1>4 DEF SLIInv

\* A release by a process that is not the owner, a kill and an exit change
\* neither the lock nor who is inside.
LEMMA SLOtherStep ==
  ASSUME SLIInv, NEW p \in Procs, ReleaseNotOwner(p) \/ SLKillProc(p) \/ SLExitProc(p)
  PROVE  SLIInv'
<1> USE DEF ReleaseNotOwner, CallsRelease, Panic, SLKillProc, Kill, SLExitProc,
            Exit, Runs
<1>1. SLTypeOK'
  <2>1. CASE ReleaseNotOwner(p)
    BY <2>1 DEF SLIInv, SLTypeOK, KTypeOK
  <2>2. CASE SLKillProc(p)
    BY <2>2 DEF SLIInv, SLTypeOK, KTypeOK
  <2>3. CASE SLExitProc(p)
    BY <2>3 DEF SLIInv, SLTypeOK, KTypeOK
  <2>4. QED
    BY <2>1, <2>2, <2>3
<1>2. OwnerExact'
  BY DEF SLIInv, OwnerExact
<1>3. SLLocated' /\ SLNoLostWakeup'
  <2>1. CASE ReleaseNotOwner(p)
    BY <2>1 DEF SLIInv, SLTypeOK, KTypeOK, SLLocated, SLNoLostWakeup, Sleeps
  <2>2. CASE SLKillProc(p)
    BY <2>2 DEF SLIInv, SLTypeOK, KTypeOK, SLLocated, SLNoLostWakeup, Sleeps
  <2>3. CASE SLExitProc(p)
    BY <2>3 DEF SLIInv, SLTypeOK, KTypeOK, SLLocated, SLNoLostWakeup, Sleeps
  <2>4. QED
    BY <2>1, <2>2, <2>3
<1>4. QED
  BY <1>1, <1>2, <1>3 DEF SLIInv

\* Every step, and every stutter, keeps the invariant.
LEMMA SLNextIInv == SLIInv /\ [SLNext]_slvars => SLIInv'
<1> SUFFICES ASSUME SLIInv, [SLNext]_slvars PROVE SLIInv'
  OBVIOUS
<1>1. CASE UNCHANGED slvars
  BY <1>1 DEF SLIInv, SLTypeOK, KTypeOK, OwnerExact, SLLocated, SLNoLostWakeup, Sleeps
<1>2. CASE SLNext
  BY <1>2, SLSleepStep, SLAcquireStep, SLReleaseStep, SLOtherStep DEF SLNext, SLStep
<1>3. QED
  BY <1>1, <1>2

\* The invariant holds in every reachable state.
THEOREM SLInvariance == SLSpec => []SLIInv
<1>1. QED
  BY SLInitIInv, SLNextIInv, PTL DEF SLSpec

\* holdingsleep() is true of exactly the process inside the lock.
THEOREM OwnershipExact == SLSpec => [](SLTypeOK /\ OwnerExact)
<1>1. SLIInv => SLTypeOK /\ OwnerExact
  BY DEF SLIInv
<1>2. QED
  BY <1>1, SLInvariance, PTL

\* No process sleeps in acquiresleep() while the lock is free.
THEOREM SLWakeupsNotLost == SLSpec => []SLNoLostWakeup
<1>1. SLIInv => SLNoLostWakeup
  BY DEF SLIInv
<1>2. QED
  BY <1>1, SLInvariance, PTL

\* Every step is a step of the abstract specification or hidden from it.
LEMMA SLStepRefines == SLIInv /\ [SLNext]_slvars => [Exclusive!Next]_inside
<1> SUFFICES ASSUME SLIInv, [SLNext]_slvars PROVE [Exclusive!Next]_inside
  OBVIOUS
<1>1. CASE UNCHANGED slvars
  BY <1>1
<1>2. ASSUME NEW p \in Procs, Acquire(p)
      PROVE  Exclusive!Enter(p)
  <2>1. inside = {}
    BY <1>2 DEF Acquire, SLIInv, SLTypeOK, OwnerExact
  <2>2. QED
    BY <1>2, <2>1 DEF Acquire, Exclusive!Enter
<1>3. ASSUME NEW p \in Procs, Release(p)
      PROVE  Exclusive!Leave(p)
  <2>1. inside = {p}
    BY <1>3 DEF Release, SLIInv, SLTypeOK, OwnerExact
  <2>2. QED
    BY <1>3, <2>1 DEF Release, Exclusive!Leave
<1>4. ASSUME NEW p \in Procs,
             SleepAcquire(p) \/ ReleaseNotOwner(p) \/ SLKillProc(p) \/ SLExitProc(p)
      PROVE  UNCHANGED inside
  BY <1>4 DEF SleepAcquire, ReleaseNotOwner, SLKillProc, SLExitProc
<1>5. QED
  BY <1>1, <1>2, <1>3, <1>4 DEF SLNext, SLStep, Exclusive!Next

\* The sleep-lock implements an exclusive lock that only its owner opens.
THEOREM SLRefinement == SLSpec => ImplementsMutex
<1>1. SLInit => Exclusive!Init
  BY DEF SLInit, Exclusive!Init
<1>2. QED
  BY <1>1, SLStepRefines, SLInvariance, PTL DEF SLSpec, ImplementsMutex, Exclusive!Spec

HIDE SleepLockAssumption
HIDE KernelSleepAssumption
HIDE DEF kvars, CountCall, sleeplockvars, slvars, lk, holdingsleep

-----------------------------------------------------------------------------
(* Facts about numbers that the priority lock needs. *)

\* Every set of natural numbers that is not empty has a least element.
LEMMA Least ==
  ASSUME NEW T \in SUBSET Nat, T # {}
  PROVE  \E m \in T : \A n \in T : m <= n
<1>1. PICK m \in T : \A n \in T : <<n, m>> \notin OpToRel(<, Nat)
  BY NatLessThanWellFounded, WFMin, Zenon
<1>2. \A n \in T : ~(n < m)
  BY <1>1 DEF OpToRel
<1>3. QED
  BY <1>2

\* The first of the greatest values of a finite sequence of integers.
LEMMA FirstGreatest ==
  ASSUME NEW m \in Nat, NEW f, \A i \in 0..m : f[i] \in Int
  PROVE  \E j \in 0..m : \A i \in 0..m : f[i] <= f[j] /\ (i < j => f[i] < f[j])
<1> DEFINE P(n) == \E j \in 0..n : \A i \in 0..n : f[i] <= f[j] /\ (i < j => f[i] < f[j])
           T == {n \in 0..m : ~P(n)}
<1>1. SUFFICES ASSUME T # {} PROVE FALSE
  <2>1. m \notin T => P(m)
    OBVIOUS
  <2>2. QED
    BY <2>1
<1>2. PICK n \in T : \A k \in T : n <= k
  <2>1. T \in SUBSET Nat
    OBVIOUS
  <2> HIDE DEF T
  <2>2. QED
    BY <1>1, <2>1, Least
<1>3. P(0)
  <2>1. \A i \in 0..0 : f[i] <= f[0] /\ (i < 0 => f[i] < f[0])
    OBVIOUS
  <2>2. QED
    BY <2>1
<1>4. n \in 1..m /\ n - 1 \in 0..m /\ P(n - 1)
  <2> HIDE DEF P
  <2>1. n # 0
    BY <1>2, <1>3
  <2>2. n - 1 \in 0..m /\ n - 1 \notin T
    BY <1>2, <2>1
  <2>3. QED
    BY <1>2, <2>1, <2>2
<1>5. PICK j \in 0..n - 1 : \A i \in 0..n - 1 : f[i] <= f[j] /\ (i < j => f[i] < f[j])
  BY <1>4
<1>6. CASE f[n] > f[j]
  <2>1. \A i \in 0..n : f[i] <= f[n] /\ (i < n => f[i] < f[n])
    BY <1>4, <1>5, <1>6
  <2>2. QED
    BY <1>2, <1>4, <2>1
<1>7. CASE f[n] <= f[j]
  <2>1. \A i \in 0..n : f[i] <= f[j] /\ (i < j => f[i] < f[j])
    BY <1>4, <1>5, <1>7
  <2>2. QED
    BY <1>2, <1>4, <2>1
<1>8. QED
  BY <1>4, <1>5, <1>6, <1>7

-----------------------------------------------------------------------------
(* The walk along the list of plock_release(). *)

USE PLockAssumption DEF Null, Nodes

\* v is the walk from h along nx.
Walk(v, h, nx) ==
  v = [k \in 0..NumNodes |->
        IF k = 0 THEN h ELSE IF v[k-1] = Null THEN Null ELSE nx[v[k-1]]]

\* There is a walk from every node, whether the list is circular or not.
LEMMA WalkExists == ASSUME NEW h, NEW nx PROVE \E v : Walk(v, h, nx)
<1> DEFINE F(v, k) == IF k = 0 THEN h ELSE IF v[k-1] = Null THEN Null ELSE nx[v[k-1]]
           P(n) == \E v : \A k \in 0..n : v[k] = F(v, k)
           T == {n \in 0..NumNodes : ~P(n)}
<1>1. ASSUME T # {} PROVE FALSE
  <2>1. PICK n \in T : \A k \in T : n <= k
    <3>1. T \in SUBSET Nat
      OBVIOUS
    <3> HIDE DEF T
    <3>2. QED
      BY <1>1, <3>1, Least
  <2>2. P(0)
    <3>1. \A k \in 0..0 : [i \in 0..0 |-> h][k] = F([i \in 0..0 |-> h], k)
      OBVIOUS
    <3>2. QED
      BY <3>1
  <2>3. n \in 1..NumNodes /\ n - 1 \in 0..NumNodes /\ P(n - 1)
    <3> HIDE DEF P
    <3>1. n # 0
      BY <2>1, <2>2
    <3>2. n - 1 \in 0..NumNodes /\ n - 1 \notin T
      BY <2>1, <3>1
    <3>3. QED
      BY <2>1, <3>1, <3>2
  <2>4. PICK v : \A k \in 0..n - 1 : v[k] = F(v, k)
    BY <2>3
  <2> DEFINE w == [k \in 0..n |-> IF k = n THEN F(v, n) ELSE v[k]]
  <2>5. \A k \in 0..n : w[k] = F(w, k)
    BY <2>3, <2>4
  <2>6. QED
    BY <2>1, <2>5
<1>2. P(NumNodes)
  BY <1>1
<1>3. PICK v : \A k \in 0..NumNodes : v[k] = F(v, k)
  BY <1>2
<1> DEFINE w == [k \in 0..NumNodes |-> v[k]]
<1>4. w = [k \in 0..NumNodes |-> F(w, k)]
  BY <1>3
<1>5. QED
  BY <1>4 DEF Walk

\* There is only one.
LEMMA WalkUnique ==
  ASSUME NEW h, NEW nx, NEW v, NEW w, Walk(v, h, nx), Walk(w, h, nx)
  PROVE  v = w
<1> DEFINE T == {k \in 0..NumNodes : v[k] # w[k]}
<1>1. ASSUME T # {} PROVE FALSE
  <2>1. PICK k \in T : \A i \in T : k <= i
    <3>1. T \in SUBSET Nat
      OBVIOUS
    <3> HIDE DEF T
    <3>2. QED
      BY <1>1, <3>1, Least
  <2>2. k # 0
    <3>1. v[0] = h /\ w[0] = h
      BY DEF Walk
    <3>2. QED
      BY <3>1
  <2>3. k - 1 \in 0..NumNodes /\ v[k-1] = w[k-1]
    BY <2>1, <2>2
  <2>4. QED
    BY <2>2, <2>3 DEF Walk
<1>2. \A k \in 0..NumNodes : v[k] = w[k]
  BY <1>1
<1>3. QED
  BY <1>2 DEF Walk

\* Visited is that walk.
LEMMA VisitedWalks == Walk(Visited, head, next)
<1>1. PICK v : Walk(v, head, next)
  BY WalkExists
<1>2. QED
  BY <1>1 DEF Visited, Walk

\* So it is in the next state.
LEMMA VisitedWalksNext == Walk(Visited', head', next')
<1>1. PICK v : Walk(v, head', next')
  BY WalkExists
<1>2. QED
  BY <1>1 DEF Visited, Walk


\* While the list does not change, neither does the walk.
LEMMA VisitedKept ==
  ASSUME head' = head, next' = next
  PROVE  Visited' = Visited /\ Positions' = Positions
<1>1. Visited' = Visited
  BY DEF Visited
<1>2. QED
  BY <1>1 DEF Positions

\* A walk visits nodes until it ends.
LEMMA WalkType ==
  ASSUME NEW v, NEW h \in Nodes \cup {Null}, NEW nx \in [Nodes -> Nodes \cup {Null}],
         Walk(v, h, nx)
  PROVE  \A k \in 0..NumNodes : v[k] \in Nodes \cup {Null}
<1> DEFINE T == {k \in 0..NumNodes : v[k] \notin Nodes \cup {Null}}
<1>1. ASSUME T # {} PROVE FALSE
  <2>1. PICK k \in T : \A i \in T : k <= i
    <3>1. T \in SUBSET Nat
      OBVIOUS
    <3> HIDE DEF T
    <3>2. QED
      BY <1>1, <3>1, Least
  <2>2. v[0] = h
    BY DEF Walk
  <2>3. k # 0 /\ k - 1 \in 0..NumNodes /\ v[k-1] \in Nodes \cup {Null}
    BY <2>1, <2>2
  <2>4. v[k] = IF v[k-1] = Null THEN Null ELSE nx[v[k-1]]
    BY <2>3 DEF Walk
  <2>5. QED
    BY <2>3, <2>4
<1>2. QED
  BY <1>1

\* Before a node that is visited there are only nodes.
LEMMA WalkPrefix ==
  ASSUME NEW v, NEW h, NEW nx, Walk(v, h, nx),
         NEW k \in 0..NumNodes, v[k] # Null, NEW j \in 0..k
  PROVE  v[j] # Null
<1> DEFINE T == {i \in 0..k : v[k - i] = Null}
<1>1. ASSUME T # {} PROVE FALSE
  <2>1. PICK i \in T : \A x \in T : i <= x
    <3>1. T \in SUBSET Nat
      OBVIOUS
    <3> HIDE DEF T
    <3>2. QED
      BY <1>1, <3>1, Least
  <2>2. i # 0
    OBVIOUS
  <2>3. i - 1 \in 0..k /\ i - 1 \notin T
    BY <2>1, <2>2
  <2> DEFINE n == k - (i - 1)
  <2>4. n \in 1..NumNodes /\ v[n] # Null /\ v[n - 1] = Null
    BY <2>2, <2>3
  <2> HIDE DEF n
  <2>5. v[n] = IF v[n-1] = Null THEN Null ELSE nx[v[n-1]]
    BY <2>4 DEF Walk
  <2>6. QED
    BY <2>4, <2>5
<1>2. k - j \in 0..k /\ k - (k - j) = j
  OBVIOUS
<1>3. QED
  BY <1>1, <1>2

\* A walk of more hops than there are nodes meets some node twice.
LEMMA TooMany ==
  ASSUME NEW v \in [0..NumNodes -> Nodes]
  PROVE  \E j, k \in 0..NumNodes : j # k /\ v[j] = v[k]
<1>1. IsFiniteSet(0..NumNodes) /\ Cardinality(0..NumNodes) = NumNodes + 1
  BY FS_Interval, 0 \in Int, NumNodes \in Int, ~(0 > NumNodes), NumNodes - 0 + 1 = NumNodes + 1
<1>2. IsFiniteSet(Nodes) /\ Cardinality(Nodes) = NumNodes
  <2>1. IsFiniteSet(1..NumNodes) /\ Cardinality(1..NumNodes) = IF 1 > NumNodes THEN 0 ELSE NumNodes - 1 + 1
    BY FS_Interval, 1 \in Int, NumNodes \in Int
  <2>2. QED
    BY <2>1
<1>3. Cardinality(Nodes) < Cardinality(0..NumNodes)
  BY <1>1, <1>2
<1> HIDE DEF Nodes
<1> DEFINE D == 0..NumNodes
<1>4. IsFiniteSet(D) /\ Cardinality(Nodes) < Cardinality(D) /\ v \in [D -> Nodes]
  BY <1>1, <1>3
<1> HIDE DEF D
<1>5. \E j, k \in D : j # k /\ v[j] = v[k]
  BY <1>2, <1>4, FS_PigeonHole
<1>6. QED
  BY <1>5 DEF D

-----------------------------------------------------------------------------
(* The invariant of the priority lock. *)

USE KernelSleepAssumption
USE DEF kvars, CountCall, plvars, plockvars, pool

\* Where a process can be: it sleeps on its own node, and who is inside the
\* lock has none.
PLocated ==
  \A p \in Procs :
    /\ Sleeps(p) => node[p] # Null /\ chan[p] = node[p]
    /\ p \in owners => node[p] = Null

\* The list ends, visits no node twice, and visits the nodes of the sleepers.
Listed ==
  /\ NumNodes \notin Positions
  /\ \A j, k \in Positions : Visited[j] = Visited[k] => j = k
  /\ {Visited[k] : k \in Positions} = {node[p] : p \in Sleepers}

\* locked counts the owner, or the process that was chosen to be the next one.
Owned == outcome = "ok" => Cardinality(owners \cup Granted) = plocked

\* The inductive invariant.  NodesOwned keeps a node that alloc_node() hands out
\* off the list; Listed gives a release its walk; Located makes its wakeup reach
\* the chosen process and nobody else; Owned makes that process the only one.
PIInv == NodesOwned /\ PLocated /\ (NoneKilled => Listed /\ Owned)

\* What the walk of a state gives.
LEMMA VisitedType == PTypeOK => \A k \in 0..NumNodes : Visited[k] \in Nodes \cup {Null}
  BY VisitedWalks, WalkType DEF PTypeOK

\* Two processes never wait on one node.
LEMMA NodesDiffer ==
  ASSUME NodesOwned, NEW p \in Procs, NEW q \in Procs, node[p] # Null, node[p] = node[q]
  PROVE  p = q
  BY DEF NodesOwned

\* inside and Granted have at most one member together.
LEMMA OneOwner ==
  ASSUME PTypeOK, Cardinality(owners \cup Granted) = plocked
  PROVE  /\ plocked = 0 => owners = {} /\ Granted = {}
         /\ \A p \in owners \cup Granted : owners \cup Granted = {p} /\ plocked = 1
<1>1. IsFiniteSet(owners \cup Granted)
  BY FS_Subset DEF PTypeOK, Granted
<1>2. plocked = 0 => owners \cup Granted = {}
  BY <1>1, FS_EmptySet
<1>3. ASSUME NEW p \in owners \cup Granted
      PROVE  owners \cup Granted = {p} /\ plocked = 1
  <2>1. plocked = 1
    BY <1>2, <1>3 DEF PTypeOK
  <2>2. \E x : owners \cup Granted = {x}
    BY <1>1, <2>1, FS_Singleton
  <2>3. QED
    BY <1>3, <2>1, <2>2
<1>4. QED
  BY <1>2, <1>3

\* The invariant holds when the system starts.
LEMMA PInitIInv == PInit => PIInv
<1> SUFFICES ASSUME PInit PROVE PIInv
  OBVIOUS
<1> USE DEF PInit, KInit
<1>1. NodesOwned /\ PLocated
  BY DEF NodesOwned, PTypeOK, KTypeOK, PLocated, Sleeps
<1>2. Positions = {}
  <2>1. ASSUME NEW k \in 0..NumNodes, Visited[k] # Null PROVE FALSE
    <3>1. Visited[0] # Null
      BY <2>1, VisitedWalks, WalkPrefix
    <3>2. Visited[0] = head
      BY VisitedWalks DEF Walk
    <3>3. QED
      BY <3>1, <3>2
  <2>2. QED
    BY <2>1 DEF Positions
<1>3. Sleepers = {} /\ owners \cup Granted = {}
  BY DEF Sleepers, Sleeps, Granted
<1>4. Listed
  BY <1>2, <1>3 DEF Listed
<1>5. Owned
  BY <1>3, FS_EmptySet DEF Owned
<1>6. QED
  BY <1>1, <1>4, <1>5 DEF PIInv

\* AcquireFree keeps the invariant.
LEMMA AcquireFreeStep ==
  ASSUME PIInv, NEW p \in Procs, AcquireFree(p)
  PROVE  PIInv'
<1> USE DEF AcquireFree, Calls
<1>1. NodesOwned'
  BY DEF PIInv, NodesOwned, PTypeOK, KTypeOK
<1>2. PLocated'
  BY DEF PIInv, PLocated, Sleeps
<1>3. Visited' = Visited /\ Positions' = Positions
  BY VisitedKept
<1>4. ASSUME NoneKilled' PROVE Listed' /\ Owned'
  <2>1. Listed /\ Owned
    BY <1>4 DEF PIInv, NoneKilled
  <2>2. Listed'
    BY <1>3, <2>1 DEF Listed, Sleepers, Sleeps
  <2>3. owners = {} /\ Granted = {}
    BY <2>1, OneOwner DEF PIInv, NodesOwned, Owned
  <2>4. (owners \cup Granted)' = {p}
    BY <2>3 DEF Granted, Runs
  <2>5. QED
    BY <2>2, <2>4, FS_Singleton DEF Owned
<1>5. QED
  BY <1>1, <1>2, <1>4 DEF PIInv

\* Enqueue keeps the invariant: the new node was not on the list, and puts
\* itself before what was.
LEMMA EnqueueStep ==
  ASSUME PIInv, NEW p \in Procs, NEW pr \in Priorities, NEW n \in Nodes, Enqueue(p, pr, n)
  PROVE  PIInv'
<1> USE DEF Enqueue, Calls, FirstFree, SleepOn
<1>1. NodesOwned'
  <2>1. PTypeOK'
    BY SMTT(20) DEF PIInv, NodesOwned, PTypeOK, KTypeOK
  <2>2. /\ active' = [active EXCEPT ![n] = 1] /\ proc' = [proc EXCEPT ![n] = p]
        /\ node' = [node EXCEPT ![p] = n] /\ active[n] # 1 /\ node[p] = Null
        /\ DOMAIN active = Nodes /\ DOMAIN proc = Nodes /\ DOMAIN node = Procs
        /\ \A q \in Procs : node[q] \in Nodes \cup {Null}
    BY DEF PIInv, NodesOwned, PTypeOK
  <2>3. \A q \in Procs : node[q] # n
    BY <2>2 DEF PIInv, NodesOwned
  <2> HIDE DEF Enqueue, Calls, FirstFree, SleepOn
  <2>4. QED
    BY <2>1, <2>2, <2>3 DEF PIInv, NodesOwned
<1>2. PLocated'
  BY DEF PIInv, NodesOwned, PTypeOK, KTypeOK, PLocated, Sleeps
<1>3. ASSUME NoneKilled' PROVE Listed' /\ Owned'
  <2>1. Listed /\ Owned
    BY <1>3 DEF PIInv, NoneKilled
  <2>2. \A k \in Positions : Visited[k] # n
    <3>1. \A q \in Sleepers : node[q] # n
      BY DEF PIInv, NodesOwned, PLocated, Sleepers
    <3>2. {Visited[k] : k \in Positions} = {node[q] : q \in Sleepers}
      BY <2>1 DEF Listed
    <3> HIDE DEF Enqueue, Calls, FirstFree, SleepOn
    <3>3. QED
      BY <3>1, <3>2
  <2>3. \A k \in 0..NumNodes : Visited[k] \in Nodes \cup {Null}
    BY VisitedType DEF PIInv, NodesOwned
  <2> DEFINE w == [k \in 0..NumNodes |-> IF k = 0 THEN n ELSE Visited[k-1]]
  <2>4. next' = [next EXCEPT ![n] = head] /\ next \in [Nodes -> Nodes \cup {Null}]
    BY DEF PIInv, NodesOwned, PTypeOK
  <2>5. Walk(w, head', next')
    <3>1. ASSUME NEW k \in 0..NumNodes
          PROVE  w[k] = IF k = 0 THEN head'
                        ELSE IF w[k-1] = Null THEN Null ELSE next'[w[k-1]]
      <4>1. CASE k = 0
        BY <4>1
      <4>2. CASE k = 1
        BY <4>2, <2>4, VisitedWalks DEF Walk
      <4>3. CASE k > 1
        <5>1. w[k] = Visited[k-1] /\ w[k-1] = Visited[k-2] /\ k - 1 \in 0..NumNodes
          BY <4>3
        <5>2. Visited[k-1] = IF Visited[k-2] = Null THEN Null ELSE next[Visited[k-2]]
          BY <4>3, VisitedWalks DEF Walk
        <5>3. Visited[k-2] # n /\ Visited[k-2] \in Nodes \cup {Null}
          BY <2>2, <2>3, <4>3 DEF Positions
        <5>4. QED
          BY <2>4, <4>3, <5>1, <5>2, <5>3
      <4>4. QED
        BY <4>1, <4>2, <4>3
    <3>2. QED
      BY <3>1 DEF Walk
  <2>6. Visited' = w
    BY <2>5, VisitedWalksNext, WalkUnique
  <2>7. Positions' = {k \in 0..NumNodes : k = 0 \/ k - 1 \in Positions}
    BY <2>6 DEF Positions
  <2>8. \A j, k \in Positions' : Visited'[j] = Visited'[k] => j = k
    BY <2>1, <2>2, <2>6, <2>7 DEF Listed, Positions
  <2>9. NumNodes \notin Positions'
    <3>1. SUFFICES ASSUME NumNodes \in Positions' PROVE FALSE
      OBVIOUS
    <3>2. \A k \in 0..NumNodes : k \in Positions'
      BY <3>1, VisitedWalksNext, WalkPrefix DEF Positions
    <3>3. w \in [0..NumNodes -> Nodes]
      BY <2>3, <2>6, <3>2 DEF Positions
    <3>4. \A j, k \in 0..NumNodes : w[j] = w[k] => j = k
      BY <2>6, <2>8, <3>2
    <3> HIDE DEF w
    <3>5. QED
      BY <3>3, <3>4, TooMany
  <2>10. Sleepers' = Sleepers \cup {p}
    BY DEF PIInv, NodesOwned, PTypeOK, KTypeOK, Sleepers, Sleeps
  <2>11. {Visited'[k] : k \in Positions'} = {Visited[k] : k \in Positions} \cup {n}
    <3>1. ASSUME NEW k \in Positions' PROVE Visited'[k] \in {Visited[i] : i \in Positions} \cup {n}
      BY <2>6, <2>7 DEF Positions
    <3>2. 0 \in Positions' /\ Visited'[0] = n
      BY <2>6, <2>7
    <3>3. ASSUME NEW k \in Positions
          PROVE  k + 1 \in Positions' /\ Visited'[k + 1] = Visited[k]
      <4>1. k \in 0..NumNodes /\ k # NumNodes
        BY <2>1 DEF Listed, Positions
      <4>2. QED
        BY <2>6, <2>7, <4>1
    <3>4. QED
      BY <3>1, <3>2, <3>3
  <2>12. {node'[q] : q \in Sleepers'} = {node[q] : q \in Sleepers} \cup {n}
    <3>1. p \notin Sleepers /\ Sleepers \subseteq Procs
      BY DEF Sleepers, Sleeps, Runs
    <3>2. node'[p] = n /\ \A q \in Sleepers : node'[q] = node[q]
      BY <3>1 DEF PIInv, NodesOwned, PTypeOK
    <3>3. QED
      BY <2>10, <3>2
  <2>13. Granted' = Granted
    BY DEF PIInv, NodesOwned, PTypeOK, KTypeOK, Granted, Runs
  <2>14. QED
    BY <2>1, <2>8, <2>9, <2>11, <2>12, <2>13 DEF Listed, Owned
<1>4. QED
  BY <1>1, <1>2, <1>3 DEF PIInv

\* ReturnFromSleep keeps the invariant: the node it frees is not on the list.
LEMMA ReturnStep ==
  ASSUME PIInv, NEW p \in Procs, ReturnFromSleep(p)
  PROVE  PIInv'
<1> USE DEF ReturnFromSleep, LeaveSleep
<1>1. NodesOwned'
  <2>1. PTypeOK'
    BY DEF PIInv, NodesOwned, PTypeOK, KTypeOK
  <2>2. QED
    BY <2>1, SMTT(20) DEF PIInv, NodesOwned, PTypeOK, KTypeOK
<1>2. PLocated'
  BY DEF PIInv, NodesOwned, PTypeOK, KTypeOK, PLocated, Sleeps, Runs
<1>3. ASSUME NoneKilled' PROVE Listed' /\ Owned'
  <2>1. Listed /\ Owned
    BY <1>3 DEF PIInv, NoneKilled
  <2>2. p \notin Sleepers /\ Sleepers' = Sleepers /\ Sleepers \subseteq Procs
    BY DEF Sleepers, Sleeps, Runs
  <2>3. \A q \in Sleepers : node[q] # node[p]
    BY <2>2, NodesDiffer DEF PIInv
  <2>4. \A k \in Positions : Visited[k] # node[p]
    BY <2>1, <2>3 DEF Listed
  <2>5. \A k \in 0..NumNodes : Visited[k] \in Nodes \cup {Null}
    BY VisitedType DEF PIInv, NodesOwned
  <2>6. next' = [next EXCEPT ![node[p]] = Null] /\ next \in [Nodes -> Nodes \cup {Null}]
    BY DEF PIInv, NodesOwned, PTypeOK
  <2>7. Walk(Visited, head', next')
    <3>1. ASSUME NEW k \in 0..NumNodes, k # 0
          PROVE  Visited[k] = IF Visited[k-1] = Null THEN Null ELSE next'[Visited[k-1]]
      <4>1. Visited[k] = IF Visited[k-1] = Null THEN Null ELSE next[Visited[k-1]]
        BY <3>1, VisitedWalks DEF Walk
      <4>2. k - 1 \in 0..NumNodes /\ Visited[k-1] \in Nodes \cup {Null}
        BY <2>5, <3>1
      <4>3. Visited[k-1] # Null => Visited[k-1] # node[p]
        BY <2>4, <4>2 DEF Positions
      <4>4. QED
        BY <2>6, <4>1, <4>2, <4>3
    <3>2. Visited = [k \in 0..NumNodes |-> Visited[k]] /\ Visited[0] = head'
      BY VisitedWalks DEF Walk
    <3> DEFINE u == [k \in 0..NumNodes |->
                 IF k = 0 THEN head' ELSE IF Visited[k-1] = Null THEN Null ELSE next'[Visited[k-1]]]
    <3>3. \A k \in 0..NumNodes : Visited[k] = u[k]
      BY <3>1, <3>2
    <3>4. Visited = u
      BY <3>2, <3>3
    <3>5. QED
      BY <3>4 DEF Walk
  <2>8. Visited' = Visited
    BY <2>7, VisitedWalksNext, WalkUnique
  <2>9. Positions' = Positions
    BY <2>8 DEF Positions
  <2>10. \A q \in Sleepers : node'[q] = node[q]
    BY <2>2 DEF PIInv, NodesOwned, PTypeOK
  <2>11. {node'[q] : q \in Sleepers'} = {node[q] : q \in Sleepers}
    BY <2>2, <2>10
  <2>12. Listed'
    BY <2>1, <2>8, <2>9, <2>11 DEF Listed
  <2>13. (owners \cup Granted)' = owners \cup Granted
    BY DEF PIInv, NodesOwned, PTypeOK, Granted, Runs
  <2>14. QED
    BY <2>1, <2>12, <2>13 DEF Owned
<1>4. QED
  BY <1>1, <1>2, <1>3 DEF PIInv

\* ReleaseFree keeps the invariant.
LEMMA ReleaseFreeStep ==
  ASSUME PIInv, NEW p \in Procs, ReleaseFree(p)
  PROVE  PIInv'
<1> USE DEF ReleaseFree, CallsPRelease
<1>1. NodesOwned'
  BY DEF PIInv, NodesOwned, PTypeOK, KTypeOK
<1>2. PLocated'
  BY DEF PIInv, PLocated, Sleeps
<1>3. Visited' = Visited /\ Positions' = Positions
  BY VisitedKept
<1>4. ASSUME NoneKilled' PROVE Listed' /\ Owned'
  <2>1. Listed /\ Owned
    BY <1>4 DEF PIInv, NoneKilled
  <2>2. Listed'
    BY <1>3, <2>1, SMTT(20) DEF Listed, Sleepers, Sleeps
  <2>3. owners \cup Granted = {p}
    BY <2>1, OneOwner DEF PIInv, NodesOwned, Owned
  <2>4. p \notin Granted
    BY DEF PIInv, PLocated, Granted
  <2>5. (owners \cup Granted)' = {}
    BY <2>3, <2>4 DEF Granted, Runs
  <2>6. QED
    BY <2>2, <2>5, FS_EmptySet DEF Owned
<1>5. QED
  BY <1>1, <1>2, <1>4 DEF PIInv

\* What unlinking the node at position k makes of the walk.
LEMMA UnlinkWalk ==
  ASSUME PTypeOK, Listed, NEW k \in Positions, Unlink(k)
  PROVE  Visited' = [j \in 0..NumNodes |->
                       IF j < k THEN Visited[j]
                       ELSE IF j < NumNodes THEN Visited[j+1] ELSE Null]
<1> DEFINE w == [j \in 0..NumNodes |->
                   IF j < k THEN Visited[j] ELSE IF j < NumNodes THEN Visited[j+1] ELSE Null]
<1>1. k \in 0..NumNodes /\ k < NumNodes /\ Visited[k] \in Nodes
  BY VisitedType DEF Listed, Positions
<1>2. Visited[NumNodes] = Null
  BY DEF Listed, Positions
<1>3. \A j \in 1..NumNodes :
        Visited[j] = IF Visited[j-1] = Null THEN Null ELSE next[Visited[j-1]]
  BY VisitedWalks DEF Walk
<1>4. Visited[0] = head
  BY VisitedWalks DEF Walk
<1>5. \A i, j \in 0..NumNodes : Visited[i] # Null /\ Visited[i] = Visited[j] => i = j
  BY DEF Listed, Positions
<1>6. \A j \in 0..NumNodes : Visited[j] \in Nodes \cup {Null}
  BY VisitedType
<1>7. \A j \in 0..k : Visited[j] # Null
  BY VisitedWalks, WalkPrefix DEF Positions
<1>8. Walk(w, head', next')
  <2>1. w[0] = head'
    <3>1. CASE k = 0
      BY <1>1, <1>3, <3>1 DEF Unlink
    <3>2. CASE k # 0
      BY <1>1, <1>4, <3>2 DEF Unlink
    <3>3. QED
      BY <3>1, <3>2
  <2>2. ASSUME NEW j \in 1..NumNodes
        PROVE  w[j] = IF w[j-1] = Null THEN Null ELSE next'[w[j-1]]
    <3>1. CASE j < k
      <4>1. w[j] = Visited[j] /\ w[j-1] = Visited[j-1]
        <5>1. j \in 0..NumNodes /\ j - 1 \in 0..NumNodes /\ j - 1 < k
          BY <1>1, <3>1
        <5>2. QED
          BY <3>1, <5>1
      <4>2. Visited[j-1] # Visited[k-1]
        BY <1>1, <1>5, <1>7, <3>1
      <4>3. next'[Visited[j-1]] = next[Visited[j-1]]
        <5>1. j - 1 \in 0..NumNodes /\ j - 1 \in 0..k
          BY <1>1, <3>1
        <5>2. Visited[j-1] \in Nodes /\ DOMAIN next = Nodes
          BY <1>6, <1>7, <5>1 DEF PTypeOK
        <5>3. QED
          BY <4>2, <5>2 DEF Unlink
      <4>4. QED
        BY <1>3, <4>1, <4>3
    <3>2. CASE j = k
      <4>1. w[j] = Visited[k+1] /\ w[j-1] = Visited[k-1]
        BY <1>1, <3>2
      <4>2. Visited[k-1] \in Nodes /\ Visited[k-1] # Null
        BY <1>1, <1>6, <1>7, <3>2
      <4>3. next'[Visited[k-1]] = next[Visited[k]]
        BY <3>2, <4>2 DEF Unlink, PTypeOK
      <4>4. Visited[k+1] = next[Visited[k]]
        <5>1. k + 1 \in 1..NumNodes /\ (k + 1) - 1 = k
          BY <1>1
        <5>2. QED
          BY <1>1, <1>3, <5>1
      <4>5. QED
        BY <4>1, <4>2, <4>3, <4>4
    <3>3. CASE j > k
      <4>1. w[j-1] = Visited[j]
        BY <1>1, <3>3
      <4>2. CASE j = NumNodes
        BY <1>1, <1>2, <4>1, <4>2
      <4>3. CASE j < NumNodes
        <5>1. w[j] = Visited[j+1]
          <6>1. j \in 0..NumNodes /\ ~(j < k)
            BY <1>1, <3>3
          <6>2. QED
            BY <4>3, <6>1
        <5>2. Visited[j+1] = IF Visited[j] = Null THEN Null ELSE next[Visited[j]]
          <6>1. j + 1 \in 1..NumNodes /\ (j + 1) - 1 = j
            BY <4>3
          <6>2. QED
            BY <1>3, <6>1
        <5>3. Visited[j] # Null => next'[Visited[j]] = next[Visited[j]]
          <6>1. CASE k = 0
            BY <6>1 DEF Unlink
          <6>2. CASE k # 0
            <7>1. k - 1 \in 0..NumNodes /\ j \in 0..NumNodes /\ k - 1 # j
              BY <1>1, <3>3, <6>2
            <7>2. Visited[j] # Null => Visited[j] # Visited[k-1] /\ Visited[j] \in Nodes
              BY <1>5, <1>6, <7>1
            <7>3. QED
              BY <6>2, <7>2 DEF Unlink, PTypeOK
          <6>3. QED
            BY <6>1, <6>2
        <5>4. QED
          BY <4>1, <5>1, <5>2, <5>3
      <4>4. QED
        BY <4>2, <4>3
    <3>4. QED
      BY <1>1, <3>1, <3>2, <3>3
  <2> DEFINE u == [j \in 0..NumNodes |->
               IF j = 0 THEN head' ELSE IF w[j-1] = Null THEN Null ELSE next'[w[j-1]]]
  <2>3. \A j \in 0..NumNodes : w[j] = u[j]
    <3>1. ASSUME NEW j \in 0..NumNodes PROVE w[j] = u[j]
      <4> HIDE DEF w
      <4>1. CASE j = 0
        BY <2>1, <4>1
      <4>2. CASE j \in 1..NumNodes
        BY <2>2, <4>2
      <4>3. QED
        BY <4>1, <4>2
    <3>2. QED
      BY <3>1
  <2>4. w = u
    BY <2>3
  <2>5. QED
    BY <2>4 DEF Walk
<1>9. QED
  BY <1>8, VisitedWalksNext, WalkUnique

\* The node that a release picks while nobody is killed is the one of exactly one
\* sleeper, whom its wakeup makes RUNNABLE.
LEMMA Chosen ==
  ASSUME PIInv, NoneKilled, NEW p \in Procs, NEW k \in 0..NumNodes, ReleaseHandOver(p, k)
  PROVE  \E q \in Sleepers :
           /\ node[q] = Visited[k]
           /\ pstate' = [pstate EXCEPT ![q] = "RUNNABLE"]
           /\ Sleepers' = Sleepers \ {q}
           /\ Granted' = Granted \cup {q}
<1> USE DEF ReleaseHandOver, CallsPRelease
<1>1. k \in Positions /\ Listed
  BY DEF IsMax, PIInv
<1>2. PICK q \in Sleepers : node[q] = Visited[k]
  BY <1>1 DEF Listed
<1>3. q \in Procs /\ Sleeps(q) /\ node[q] # Null /\ chan[q] = Visited[k]
  BY <1>2 DEF Sleepers, PIInv, PLocated
<1>4. \A x \in Procs : Sleeps(x) /\ chan[x] = Visited[k] => x = q
  BY <1>2, <1>3, NodesDiffer DEF PIInv, PLocated
<1>5. pstate \in [Procs -> {"RUNNABLE", "SLEEPING", "ZOMBIE", "HALTED"}]
  BY DEF PIInv, NodesOwned, PTypeOK, KTypeOK
<1>6. pstate' = [pstate EXCEPT ![q] = "RUNNABLE"]
  <2>1. pstate' = [x \in Procs |-> IF x = q THEN "RUNNABLE" ELSE pstate[x]]
    BY <1>3, <1>4 DEF Woken
  <2>2. QED
    BY <1>3, <1>5, <2>1
<1>7. Sleepers' = Sleepers \ {q}
  BY <1>3, <1>5, <1>6 DEF Sleepers, Sleeps
<1>8. Granted' = Granted \cup {q}
  BY <1>3, <1>5, <1>6 DEF Granted, Runs
<1>9. QED
  BY <1>2, <1>6, <1>7, <1>8

\* ReleaseHandOver keeps the invariant.
LEMMA HandOverStep ==
  ASSUME PIInv, NEW p \in Procs, NEW k \in 0..NumNodes, ReleaseHandOver(p, k)
  PROVE  PIInv'
<1> USE DEF ReleaseHandOver, CallsPRelease
<1>1. k \in Positions
  BY DEF IsMax
<1>2. Visited[k] \in Nodes
  BY <1>1, VisitedType DEF PIInv, NodesOwned, Positions
<1>3. NodesOwned'
  <2>1. next \in [Nodes -> Nodes \cup {Null}] /\ head \in Nodes \cup {Null}
    BY DEF PIInv, NodesOwned, PTypeOK
  <2>2. next[Visited[k]] \in Nodes \cup {Null}
    BY <1>2, <2>1
  <2>3. head' \in Nodes \cup {Null} /\ next' \in [Nodes -> Nodes \cup {Null}]
    BY <2>1, <2>2 DEF Unlink
  <2>4. PTypeOK'
    BY <2>3 DEF PIInv, NodesOwned, PTypeOK, KTypeOK, Woken
  <2>5. QED
    BY <2>4 DEF PIInv, NodesOwned
<1>4. PLocated'
  BY DEF PIInv, NodesOwned, PTypeOK, KTypeOK, PLocated, Sleeps, Woken
<1>5. ASSUME NoneKilled' PROVE Listed' /\ Owned'
  <2>1. NoneKilled /\ Listed /\ Owned
    BY <1>5 DEF PIInv, NoneKilled
  <2>2. PICK q \in Sleepers :
           /\ node[q] = Visited[k]
           /\ Sleepers' = Sleepers \ {q}
           /\ Granted' = Granted \cup {q}
    BY <2>1, Chosen
  <2>3. Visited' = [j \in 0..NumNodes |->
                       IF j < k THEN Visited[j]
                       ELSE IF j < NumNodes THEN Visited[j+1] ELSE Null]
    BY <1>1, <2>1, UnlinkWalk DEF PIInv, NodesOwned
  <2>4. \A j \in 0..NumNodes :
          j \in Positions' <=> (j < k /\ j \in Positions) \/ (j >= k /\ j + 1 \in Positions)
    BY <2>1, <2>3 DEF Listed, Positions
  <2>5. NumNodes \notin Positions'
    BY <2>1, <2>4 DEF Listed, Positions
  <2>6. \A i, j \in Positions' : Visited'[i] = Visited'[j] => i = j
    <3>1. ASSUME NEW i \in Positions', NEW j \in Positions', Visited'[i] = Visited'[j]
          PROVE  i = j
      <4>1. i \in 0..NumNodes - 1 /\ j \in 0..NumNodes - 1
        BY <2>5 DEF Positions
      <4> DEFINE up(x) == IF x < k THEN x ELSE x + 1
      <4>2. up(i) \in Positions /\ up(j) \in Positions
        BY <2>4, <4>1
      <4>3. Visited'[i] = Visited[up(i)] /\ Visited'[j] = Visited[up(j)]
        BY <2>3, <4>1
      <4>4. up(i) = up(j)
        <5> HIDE DEF up
        <5>1. QED
          BY <2>1, <3>1, <4>2, <4>3 DEF Listed
      <4>5. QED
        BY <4>1, <4>4
    <3>2. QED
      BY <3>1
  <2>7. {Visited'[j] : j \in Positions'} = {Visited[j] : j \in Positions} \ {Visited[k]}
    <3>1. ASSUME NEW j \in Positions'
          PROVE  \E i \in Positions : i # k /\ Visited'[j] = Visited[i]
      <4>1. j \in 0..NumNodes - 1
        BY <2>5 DEF Positions
      <4>2. CASE j < k
        BY <2>3, <2>4, <4>1, <4>2
      <4>3. CASE j >= k
        <5>1. j + 1 \in Positions /\ j + 1 # k /\ Visited'[j] = Visited[j+1]
          BY <2>3, <2>4, <4>1, <4>3
        <5>2. QED
          BY <5>1
      <4>4. QED
        BY <4>1, <4>2, <4>3
    <3>2. ASSUME NEW i \in Positions, i # k
          PROVE  \E j \in Positions' : Visited'[j] = Visited[i]
      <4>1. i \in 0..NumNodes
        BY DEF Positions
      <4>2. CASE i < k
        BY <2>3, <2>4, <4>1, <4>2
      <4>3. CASE i > k
        <5>1. i - 1 \in 0..NumNodes /\ i - 1 >= k /\ i - 1 < NumNodes /\ (i - 1) + 1 = i
          BY <4>1, <4>3
        <5>2. i - 1 \in Positions' /\ Visited'[i - 1] = Visited[i]
          BY <2>3, <2>4, <5>1
        <5>3. QED
          BY <5>2
      <4>4. QED
        BY <3>2, <4>1, <4>2, <4>3
    <3>3. \A i \in Positions : i # k => Visited[i] # Visited[k]
      BY <1>1, <2>1 DEF Listed
    <3>4. QED
      BY <3>1, <3>2, <3>3
  <2>8. {node'[x] : x \in Sleepers'} = {node[x] : x \in Sleepers} \ {Visited[k]}
    <3>1. \A x \in Sleepers : node[x] = Visited[k] => x = q
      BY <1>2, <2>2, NodesDiffer DEF PIInv, Sleepers
    <3>2. QED
      BY <2>2, <3>1
  <2>9. Listed'
    BY <2>1, <2>5, <2>6, <2>7, <2>8 DEF Listed
  <2>10. owners \cup Granted = {p} /\ plocked = 1 /\ p \notin Granted
    BY <2>1, OneOwner DEF PIInv, NodesOwned, Owned, PLocated, Granted
  <2>11. (owners \cup Granted)' = {q}
    BY <2>2, <2>10
  <2>12. QED
    BY <2>9, <2>10, <2>11, FS_Singleton DEF Owned
<1>6. QED
  BY <1>3, <1>4, <1>5 DEF PIInv

\* A release that goes out of control keeps the invariant.
LEMMA WildStep ==
  ASSUME PIInv, NEW p \in Procs, ReleaseSpins(p) \/ ReleaseWild(p)
  PROVE  PIInv'
<1> USE DEF ReleaseSpins, ReleaseWild, CallsPRelease
<1>1. NodesOwned'
  BY DEF PIInv, NodesOwned, PTypeOK, KTypeOK
<1>2. PLocated'
  BY DEF PIInv, PLocated, Sleeps
<1>3. Visited' = Visited /\ Positions' = Positions
  BY VisitedKept
<1>4. ASSUME NoneKilled' PROVE Listed' /\ Owned'
  <2>1. Listed
    BY <1>4 DEF PIInv, NoneKilled
  <2>2. Listed'
    BY <1>3, <2>1 DEF Listed, Sleepers, Sleeps
  <2>3. QED
    BY <2>2 DEF Owned
<1>5. QED
  BY <1>1, <1>2, <1>4 DEF PIInv

\* A kill and an exit keep the invariant.
LEMMA PKillExitStep ==
  ASSUME PIInv, NEW p \in Procs, PKillProc(p) \/ PExitProc(p)
  PROVE  PIInv' /\ ~NoneKilled'
<1> USE DEF PKillProc, Kill, PExitProc, Exit
<1>1. NodesOwned'
  <2>1. pstate' \in [Procs -> {"RUNNABLE", "SLEEPING", "ZOMBIE", "HALTED"}]
    <3>1. pstate \in [Procs -> {"RUNNABLE", "SLEEPING", "ZOMBIE", "HALTED"}]
      BY DEF PIInv, NodesOwned, PTypeOK, KTypeOK
    <3>2. \E s \in {"RUNNABLE", "SLEEPING", "ZOMBIE", "HALTED"} : pstate' = [pstate EXCEPT ![p] = s]
      BY <3>1
    <3>3. QED
      BY <3>1, <3>2
  <2>2. killed' \in [Procs -> BOOLEAN] /\ chan' \in [Procs -> {NoChan} \cup Nodes]
    BY DEF PIInv, NodesOwned, PTypeOK, KTypeOK
  <2>3. PTypeOK'
    BY <2>1, <2>2 DEF PIInv, NodesOwned, PTypeOK, KTypeOK
  <2>4. QED
    BY <2>3 DEF PIInv, NodesOwned
<1>2. PLocated'
  BY DEF PIInv, NodesOwned, PTypeOK, KTypeOK, PLocated, Sleeps, Runs
<1>3. ~NoneKilled'
  BY DEF PIInv, NodesOwned, PTypeOK, KTypeOK, NoneKilled
<1>4. QED
  BY <1>1, <1>2, <1>3 DEF PIInv

\* Every step keeps the invariant.
LEMMA PNextIInv == PIInv /\ [PNext]_plvars => PIInv'
<1> SUFFICES ASSUME PIInv, [PNext]_plvars PROVE PIInv'
  OBVIOUS
<1>1. ASSUME NEW p \in Procs, PStep(p) PROVE PIInv'
  BY <1>1, AcquireFreeStep, EnqueueStep, ReturnStep, ReleaseFreeStep, HandOverStep,
     WildStep, PKillExitStep DEF PStep, PAcquire, PRelease
<1>2. ASSUME NEW p \in Procs, PKillProc(p) PROVE PIInv'
  BY <1>2, PKillExitStep
<1>3. CASE UNCHANGED plvars
  <2>1. Visited' = Visited /\ Positions' = Positions
    BY <1>3, VisitedKept
  <2>2. Sleepers' = Sleepers /\ Granted' = Granted
    BY <1>3 DEF Sleepers, Granted, Sleeps, Runs
  <2>3. NodesOwned' /\ PLocated'
    BY <1>3 DEF PIInv, NodesOwned, PTypeOK, KTypeOK, PLocated, Sleeps
  <2>4. NoneKilled' = NoneKilled
    BY <1>3 DEF NoneKilled
  <2>5. Listed => Listed'
    BY <1>3, <2>1, <2>2 DEF Listed
  <2>6. Owned => Owned'
    BY <1>3, <2>2 DEF Owned
  <2>7. QED
    BY <2>3, <2>4, <2>5, <2>6 DEF PIInv
<1>4. QED
  BY <1>1, <1>2, <1>3 DEF PNext

\* The inductive invariant holds of every state that plock_acquire(),
\* plock_release(), kill() and exit() can reach.
THEOREM PInvariance == PSpec => []PIInv
<1>1. QED
  BY PInitIInv, PNextIInv, PTL DEF PSpec

\* alloc_node() and free_node() keep every node of the pool with the process
\* that waits on it, killed or not.
THEOREM NodesAreOwned == PSpec => []NodesOwned
<1>1. PIInv => NodesOwned
  BY DEF PIInv
<1>2. QED
  BY <1>1, PInvariance, PTL

\* While nobody is killed, the list of plock_release() holds the nodes of
\* exactly the sleepers, and locked counts the one process that owns the lock.
THEOREM QueueIsExact == PSpec => []QueueExact
<1>1. PIInv => QueueExact
  BY DEF PIInv, QueueExact, PLocated, Listed, Owned, Circular, Sleepers
<1>2. QED
  BY <1>1, PInvariance, PTL

\* A release with a sleeper of priority 0 or more picks a node.
LEMMA SomeoneIsPicked ==
  ASSUME PIInv, NoneKilled, NEW q \in Sleepers, priority[node[q]] >= 0
  PROVE  \E k \in Positions : IsMax(k)
<1>1. Listed /\ PTypeOK
  BY DEF PIInv, NodesOwned
<1>2. PICK i \in Positions : Visited[i] = node[q]
  BY <1>1 DEF Listed
<1> DEFINE key(k) == IF k \in Positions THEN priority[Visited[k]] ELSE -1
           f == [k \in 0..NumNodes |-> key(k)]
<1>3. \A k \in Positions : k \in 0..NumNodes /\ priority[Visited[k]] \in Int
  BY <1>1, VisitedType DEF Positions, PTypeOK
<1>4. \A k \in 0..NumNodes : f[k] \in Int
  BY <1>3
<1>5. PICK j \in 0..NumNodes : \A k \in 0..NumNodes : f[k] <= f[j] /\ (k < j => f[k] < f[j])
  <2> HIDE DEF f
  <2>1. QED
    BY <1>4, FirstGreatest
<1>6. f[i] >= 0 /\ f[i] <= f[j]
  BY <1>2, <1>3, <1>5
<1>7. j \in Positions /\ f[j] = priority[Visited[j]] /\ priority[Visited[j]] > -1
  BY <1>3, <1>4, <1>5, <1>6
<1>8. \A k \in Positions : k \in 0..NumNodes /\ f[k] = priority[Visited[k]]
  BY <1>3
<1>9. IsMax(j)
  BY <1>5, <1>7, <1>8 DEF IsMax
<1>10. QED
  BY <1>7, <1>9

\* Who leaves the lock while somebody sleeps hands it over.
LEMMA LeavesByHandOver ==
  ASSUME PIInv, NoneKilled, [PNext]_plvars, ~(owners \subseteq owners'),
         NEW q \in Sleepers, priority[node[q]] >= 0
  PROVE  \E p \in Procs, k \in 0..NumNodes : ReleaseHandOver(p, k)
<1>1. PICK p \in Procs : PRelease(p)
  <2>1. ASSUME NEW p \in Procs, PAcquire(p) \/ ReturnFromSleep(p) \/ PExitProc(p) \/ PKillProc(p)
        PROVE  owners \subseteq owners'
    BY <2>1 DEF PAcquire, AcquireFree, Enqueue, ReturnFromSleep, PExitProc, PKillProc
  <2>2. ~UNCHANGED plvars
    OBVIOUS
  <2>3. QED
    BY <2>1, <2>2 DEF PNext, PStep
<1>2. Listed
  BY DEF PIInv
<1>3. ~ReleaseSpins(p)
  BY <1>2 DEF ReleaseSpins, Circular, Listed
<1>4. ~ReleaseWild(p)
  BY SomeoneIsPicked DEF ReleaseWild
<1>5. ~ReleaseFree(p)
  <2>1. PICK i \in Positions : Visited[i] = node[q]
    BY <1>2 DEF Listed
  <2>2. i \in 0..NumNodes /\ Visited[i] # Null /\ 0 \in 0..i
    BY DEF Positions
  <2>3. Visited[0] # Null
    BY <2>2, VisitedWalks, WalkPrefix
  <2>4. Visited[0] = head
    BY VisitedWalks DEF Walk
  <2>5. QED
    BY <2>3, <2>4 DEF ReleaseFree
<1>6. QED
  BY <1>1, <1>3, <1>4, <1>5 DEF PRelease

\* plock_release() hands the lock to one of the sleepers, and no sleeper asked
\* with a higher priority than the one it picks.
THEOREM HandOver == PSpec => HandOverToHighest
<1>1. ASSUME PIInv, [PNext]_plvars, NoneKilled, ~(owners \subseteq owners'),
             NEW x \in Sleepers, priority[node[x]] >= 0
      PROVE  \E w \in Sleepers :
               /\ Sleepers' = Sleepers \ {w}
               /\ \A q \in Sleepers : priority[node[q]] <= priority[node[w]]
  <2>1. PICK p \in Procs, k \in 0..NumNodes : ReleaseHandOver(p, k)
    BY <1>1, LeavesByHandOver
  <2>2. PICK w \in Sleepers : node[w] = Visited[k] /\ Sleepers' = Sleepers \ {w}
    BY <1>1, <2>1, Chosen
  <2>3. IsMax(k) /\ Listed
    BY <1>1, <2>1 DEF ReleaseHandOver, PIInv
  <2>4. \A q \in Sleepers : \E j \in Positions : Visited[j] = node[q]
    BY <2>3 DEF Listed
  <2>5. \A q \in Sleepers : priority[node[q]] <= priority[node[w]]
    BY <2>2, <2>3, <2>4 DEF IsMax
  <2>6. QED
    BY <2>2, <2>5
<1>2. PIInv /\ [PNext]_plvars =>
        [ /\ NoneKilled
          /\ ~(owners \subseteq owners')
          /\ \E q \in Sleepers : priority[node[q]] >= 0
          => \E w \in Sleepers :
               /\ Sleepers' = Sleepers \ {w}
               /\ \A q \in Sleepers : priority[node[q]] <= priority[node[w]]]_plvars
  BY <1>1
<1>3. QED
  BY <1>2, PInvariance, PTL DEF PSpec, HandOverToHighest

\* A step of the lock is a step of a mutual exclusion while nobody is killed.
LEMMA ExclusiveStep ==
  ASSUME PIInv, [PNext]_plvars, NoneKilled
  PROVE  PExclusive!Next \/ UNCHANGED owners
<1> USE DEF PExclusive!Next, PExclusive!Enter, PExclusive!Leave
<1>1. PTypeOK /\ Owned
  BY DEF PIInv, NodesOwned
<1>2. ASSUME NEW p \in Procs, AcquireFree(p) PROVE PExclusive!Enter(p)
  BY <1>1, <1>2, OneOwner DEF AcquireFree, Calls, Owned
<1>3. ASSUME NEW p \in Procs, ReturnFromSleep(p) PROVE PExclusive!Enter(p)
  <2>1. p \in Granted /\ p \notin owners /\ outcome = "ok"
    BY <1>3 DEF ReturnFromSleep, Granted, PIInv, PLocated
  <2>2. owners = {}
    BY <1>1, <2>1, OneOwner DEF Owned
  <2>3. QED
    BY <1>3, <2>2 DEF ReturnFromSleep
<1>4. ASSUME NEW p \in Procs, PRelease(p) PROVE PExclusive!Leave(p)
  <2>1. p \in owners /\ owners' = owners \ {p} /\ outcome = "ok"
    BY <1>4 DEF PRelease, ReleaseFree, ReleaseHandOver, ReleaseSpins, ReleaseWild, CallsPRelease
  <2>2. owners = {p}
    BY <1>1, <2>1, OneOwner DEF Owned
  <2>3. QED
    BY <2>1, <2>2
<1>5. ASSUME NEW p \in Procs,
             (\E pr \in Priorities, n \in Nodes : Enqueue(p, pr, n)) \/ PExitProc(p) \/ PKillProc(p)
      PROVE  UNCHANGED owners
  BY <1>5 DEF Enqueue, PExitProc, PKillProc
<1>6. QED
  BY <1>2, <1>3, <1>4, <1>5 DEF PNext, PStep, PAcquire

\* While nobody is killed, plock_acquire() and plock_release() implement an
\* exclusive lock.
THEOREM PExclusion == PSpec => ExclusiveUntilKill
<1>1. PInit => PExclusive!Init
  BY DEF PInit, PExclusive!Init
<1>2. PIInv /\ [PNext]_plvars => [NoneKilled => PExclusive!Next \/ UNCHANGED owners]_plvars
  BY ExclusiveStep
<1>3. QED
  BY <1>1, <1>2, PInvariance, PTL DEF PSpec, ExclusiveUntilKill

=============================================================================
