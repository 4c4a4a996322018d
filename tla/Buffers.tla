------------------------------- MODULE Buffers -------------------------------
(***************************************************************************)
(* The buffer cache of LAB4/codes/bio.c and the disk driver of             *)
(* LAB4/codes/ide.c under it: processes that call bread(), bwrite() and    *)
(* brelse(), and the interrupt of the drive.                               *)
(*                                                                         *)
(* One action is one critical section of bcache.lock or of idelock, or the *)
(* taking or giving up of a buffer's sleep-lock, which SleepLock shows to  *)
(* be an exclusive lock.  The drive is modelled as the driver uses it: one *)
(* command at a time, then an interrupt.                                   *)
(***************************************************************************)
EXTENDS Naturals, Sequences, FiniteSets, SequencesExt

CONSTANTS
  Procs, Bufs, Values,
  Blocks,     \* numbers, in the order in which callers nest bread()
  Flaky,      \* the blocks that the drive may fail to read
  MaxHeld,    \* how many buffers a system call holds at once
  MaxDirty,   \* how many blocks the log keeps in the cache until it commits
  MaxCalls,   \* bound: how many times each process calls bread() or bwrite()
  NoOne, NoBlock, NoBuf, Zero

ASSUME BuffersAssumption ==
  /\ IsFiniteSet(Procs) /\ IsFiniteSet(Bufs) /\ Blocks \subseteq Nat /\ NoBlock \notin Blocks
  /\ Flaky \subseteq Blocks /\ NoOne \notin Procs /\ NoBuf \notin Bufs /\ Zero \in Values
  /\ MaxHeld \in Nat /\ MaxDirty \in Nat /\ MaxCalls \in Nat

VARIABLES
  lru,                  \* the list of buffers from bcache.head.next on
  blockno, refcnt, valid, dirty, data, owner,     \* of each buffer
  queue,                \* idequeue
  drive,                \* the command the drive works on, or NoCommand
  disk,
  pc, at,               \* of each process: where it is, and with which buffer
  held,                 \* the buffers that bread() returned to it
  left,                 \* how many calls it may still make
  panicked

cache == <<blockno, refcnt, valid, dirty, data>>
vars == <<lru, cache, owner, queue, drive, disk, pc, at, held, left, panicked>>

NoCommand == [cmd |-> "none", data |-> Zero]

Init ==
  /\ lru = CHOOSE s \in [1..Cardinality(Bufs) -> Bufs] : Range(s) = Bufs
  /\ blockno = [b \in Bufs |-> NoBlock]
  /\ refcnt = [b \in Bufs |-> 0]
  /\ valid = [b \in Bufs |-> FALSE] /\ dirty = [b \in Bufs |-> FALSE]
  /\ data = [b \in Bufs |-> Zero]
  /\ owner = [b \in Bufs |-> NoOne]
  /\ queue = <<>> /\ drive = NoCommand
  /\ disk = [k \in Blocks |-> Zero]
  /\ pc = [p \in Procs |-> "runs"] /\ at = [p \in Procs |-> NoBuf]
  /\ held = [p \in Procs |-> {}]
  /\ left = [p \in Procs |-> MaxCalls]
  /\ panicked = FALSE

At(p, l) == pc[p] = l /\ ~panicked
Goto(p, l, b) == pc' = [pc EXCEPT ![p] = l] /\ at' = [at EXCEPT ![p] = IF l = "runs" THEN NoBuf ELSE b]

-----------------------------------------------------------------------------
\* Mutants: the test for a buffer to recycle forgets one of its two conditions.
Recyclable_Dirty(b) == refcnt[b] = 0
Recyclable_Held(b) == ~dirty[b] /\ owner[b] = NoOne
Recyclable(b) == refcnt[b] = 0 /\ ~dirty[b]

\* The calls that bread() may make now: callers nest them in one order.
Asks(p, k) ==
  /\ At(p, "runs") /\ left[p] > 0
  /\ Cardinality(held[p]) < MaxHeld /\ \A b \in held[p] : blockno[b] < k
  /\ left' = [left EXCEPT ![p] = @ - 1]

\* bget(), block cached.
Hit(p, k) ==
  /\ Asks(p, k)
  /\ \E b \in Bufs :
       /\ blockno[b] = k
       /\ refcnt' = [refcnt EXCEPT ![b] = @ + 1]
       /\ Goto(p, "locks", b)
  /\ UNCHANGED <<lru, blockno, valid, dirty, data, owner, queue, drive, disk, held, panicked>>

\* bget(), not cached: the least recently used buffer that nobody needs.
Recycle(p, k) ==
  /\ Asks(p, k)
  /\ \A b \in Bufs : blockno[b] # k
  /\ \E i \in DOMAIN lru :
       /\ Recyclable(lru[i]) /\ \A j \in DOMAIN lru : j > i => ~Recyclable(lru[j])
       /\ blockno' = [blockno EXCEPT ![lru[i]] = k]
       /\ valid' = [valid EXCEPT ![lru[i]] = FALSE]
       /\ dirty' = [dirty EXCEPT ![lru[i]] = FALSE]
       /\ refcnt' = [refcnt EXCEPT ![lru[i]] = 1]
       /\ Goto(p, "locks", lru[i])
  /\ UNCHANGED <<lru, data, owner, queue, drive, disk, held, panicked>>

\* panic("bget: no buffers")
NoBuffers(p, k) ==
  /\ Asks(p, k)
  /\ \A b \in Bufs : blockno[b] # k /\ ~Recyclable(b)
  /\ panicked' = TRUE
  /\ UNCHANGED <<lru, cache, owner, queue, drive, disk, pc, at, held>>

\* bget() has the buffer's lock; bread() looks at B_VALID.
Lock(p) ==
  LET b == at[p]
  IN /\ At(p, "locks") /\ owner[b] = NoOne
     /\ owner' = [owner EXCEPT ![b] = p]
     /\ Goto(p, IF valid[b] THEN "runs" ELSE "starts", b)
     /\ held' = [held EXCEPT ![p] = IF valid[b] THEN @ \cup {b} ELSE @]
     /\ UNCHANGED <<lru, cache, queue, drive, disk, left, panicked>>

\* idestart(b)
Command(b) == [cmd |-> IF dirty[b] THEN "write" ELSE "read", data |-> data[b]]

\* iderw(): b goes to the end of the queue, and the process sleeps.
Enqueue(p) ==
  LET b == at[p]
  IN /\ At(p, "starts")
     /\ queue' = Append(queue, b)
     /\ drive' = IF queue = <<>> THEN Command(b) ELSE drive
     /\ Goto(p, "sleeps", b)
     /\ UNCHANGED <<lru, cache, owner, disk, held, left, panicked>>

\* Mutant: the interrupt wakes only one that waits for the drive.
Woken_None(b) == pc
Woken(b) == [p \in Procs |-> IF pc[p] = "sleeps" /\ at[p] = b THEN "tests" ELSE pc[p]]

\* ideintr(): the drive is done with the head of the queue.  A read that
\* failed leaves the buffer's bytes as they were, and the buffer valid.
Interrupt ==
  LET b == Head(queue)
      write == drive.cmd = "write"
      rest == Tail(queue)
  IN /\ drive # NoCommand /\ ~panicked
     /\ queue' = rest
     /\ disk' = IF write THEN [disk EXCEPT ![blockno[b]] = drive.data] ELSE disk
     /\ \/ data' = IF dirty[b] THEN data ELSE [data EXCEPT ![b] = disk[blockno[b]]]
        \/ ~write /\ blockno[b] \in Flaky /\ data' = data
     /\ valid' = [valid EXCEPT ![b] = TRUE]
     /\ dirty' = [dirty EXCEPT ![b] = FALSE]
     /\ pc' = Woken(b)
     /\ drive' = IF rest = <<>> THEN NoCommand ELSE Command(Head(rest))
     /\ UNCHANGED <<lru, blockno, refcnt, owner, at, held, left, panicked>>

\* iderw(): awake again, the process tests the flags.
Test(p) ==
  LET b == at[p]
  IN /\ At(p, "tests")
     /\ Goto(p, IF valid[b] /\ ~dirty[b] THEN "runs" ELSE "sleeps", b)
     /\ held' = [held EXCEPT ![p] = IF valid[b] /\ ~dirty[b] THEN @ \cup {b} ELSE @]
     /\ UNCHANGED <<lru, cache, owner, queue, drive, disk, left, panicked>>

\* The caller changes a block and calls log_write(), which keeps it in the cache.
Change(p, b) ==
  /\ At(p, "runs") /\ b \in held[p]
  /\ dirty[b] \/ Cardinality({x \in Bufs : dirty[x]}) < MaxDirty
  /\ \E v \in Values : v # data[b] /\ data' = [data EXCEPT ![b] = v]
  /\ dirty' = [dirty EXCEPT ![b] = TRUE]
  /\ UNCHANGED <<lru, blockno, refcnt, valid, owner, queue, drive, disk, pc, at, held, left,
                 panicked>>

\* bwrite(): of a block that the caller just filled, or of one the log kept.
Write(p, b) ==
  /\ At(p, "runs") /\ b \in held[p] /\ left[p] > 0
  /\ \E v \in Values : data' = [data EXCEPT ![b] = v]
  /\ dirty' = [dirty EXCEPT ![b] = TRUE]
  /\ Goto(p, "starts", b)
  /\ held' = [held EXCEPT ![p] = @ \ {b}]
  /\ left' = [left EXCEPT ![p] = @ - 1]
  /\ UNCHANGED <<lru, blockno, refcnt, valid, owner, queue, drive, disk, panicked>>

\* brelse(): the sleep-lock first, then, under bcache.lock, the reference.
Unlock(p, b) ==
  /\ At(p, "runs") /\ b \in held[p]
  /\ owner' = [owner EXCEPT ![b] = NoOne]
  /\ held' = [held EXCEPT ![p] = @ \ {b}]
  /\ Goto(p, "drops", b)
  /\ UNCHANGED <<lru, cache, queue, drive, disk, left, panicked>>

\* Element k of a list goes to its front.
ToFront(s, k) == [i \in DOMAIN s |-> s[IF i = 1 THEN k ELSE IF i <= k THEN i - 1 ELSE i]]

Drop(p) ==
  LET b == at[p]
  IN /\ At(p, "drops")
     /\ refcnt' = [refcnt EXCEPT ![b] = @ - 1]
     /\ IF refcnt[b] = 1
        THEN \E k \in DOMAIN lru : lru[k] = b /\ lru' = ToFront(lru, k)
        ELSE lru' = lru
     /\ Goto(p, "runs", b)
     /\ UNCHANGED <<blockno, valid, dirty, data, owner, queue, drive, disk, held, left, panicked>>

Step(p) == Lock(p) \/ Enqueue(p) \/ Test(p) \/ Drop(p)
Next ==
  \/ Interrupt
  \/ \E p \in Procs :
       \/ Step(p)
       \/ \E k \in Blocks : Hit(p, k) \/ Recycle(p, k) \/ NoBuffers(p, k)
       \/ \E b \in Bufs : Change(p, b) \/ Write(p, b) \/ Unlock(p, b)

Spec == Init /\ [][Next]_vars

\* The drive answers, a process inside a call goes on, and whoever has a buffer
\* calls brelse(): nothing forces a call of bread().
FairSpec ==
  /\ Spec /\ WF_vars(Interrupt)
  /\ \A p \in Procs : WF_vars(Step(p)) /\ \A b \in Bufs : WF_vars(Unlock(p, b))

-----------------------------------------------------------------------------
TypeOK ==
  /\ lru \in [1..Cardinality(Bufs) -> Bufs] /\ Range(lru) = Bufs
  /\ blockno \in [Bufs -> Blocks \cup {NoBlock}]
  /\ refcnt \in [Bufs -> Nat]
  /\ valid \in [Bufs -> BOOLEAN] /\ dirty \in [Bufs -> BOOLEAN] /\ data \in [Bufs -> Values]
  /\ owner \in [Bufs -> Procs \cup {NoOne}]
  /\ queue \in Seq(Bufs) /\ disk \in [Blocks -> Values]
  /\ pc \in [Procs -> {"runs", "locks", "starts", "sleeps", "tests", "drops"}]
  /\ at \in [Procs -> Bufs \cup {NoBuf}] /\ held \in [Procs -> SUBSET Bufs]

\* The processes between bget() and the end of brelse() of a buffer.
Users(b) == {p \in Procs : b \in held[p] \/ at[p] = b}

OneBufferPerBlock ==
  \A b, c \in Bufs : b # c /\ blockno[b] = blockno[c] => blockno[b] = NoBlock
CountsExact ==
  \A b \in Bufs : refcnt[b] = Cardinality(Users(b))
OwnersExact ==
  \A b \in Bufs, p \in Procs :
    owner[b] = p <=> b \in held[p] \/ (at[p] = b /\ pc[p] \in {"starts", "sleeps", "tests"})
QueueExact ==
  /\ \A i, j \in DOMAIN queue : queue[i] = queue[j] => i = j
  /\ \A b \in Bufs : b \in Range(queue) <=> \E p \in Procs : at[p] = b /\ pc[p] = "sleeps"
  /\ drive = IF queue = <<>> THEN NoCommand ELSE Command(Head(queue))

\* The counts and the queue tell exactly who is where: no block is in two
\* buffers, a buffer's count is the number of processes between bget() and the
\* end of brelse(), its owner is the one that has it or does its I/O, and the
\* queue holds each buffer some process waits for once, the drive at its head.
CacheExact == TypeOK /\ OneBufferPerBlock /\ CountsExact /\ OwnersExact /\ QueueExact

\* What a reader of block k would get, and who has it.
Caches(b, k) == blockno[b] = k /\ (valid[b] \/ dirty[b])
Locks(b, k) == blockno[b] = k /\ owner[b] # NoOne
Content == [k \in Blocks |->
  IF \E b \in Bufs : Caches(b, k) THEN data[CHOOSE b \in Bufs : Caches(b, k)] ELSE disk[k]]
Holder == [k \in Blocks |->
  IF \E b \in Bufs : Locks(b, k) THEN owner[CHOOSE b \in Bufs : Locks(b, k)] ELSE NoOne]

Store == INSTANCE BlockStore WITH content <- Content, holder <- Holder

\* Whatever is recycled, queued, written back or kept for the log meanwhile, a
\* process that gets a block finds in it what the last process to change it
\* left, and no other process has the block; a failed read spoils its block only.
ImplementsBlockStore == Store!Spec

\* Every bread() and every bwrite() returns.
EveryCallReturns ==
  \A p \in Procs : pc[p] # "runs" ~> pc[p] = "runs" \/ panicked

=============================================================================
