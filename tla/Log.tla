--------------------------------- MODULE Log ---------------------------------
(***************************************************************************)
(* The file system log of LAB4/codes/log.c: begin_op(), log_write() and    *)
(* end_op() of concurrent system calls, the group commit that the last of  *)
(* them makes, and recovery after a crash.                                 *)
(*                                                                         *)
(* A disk write of one block is one action, and a crash may come before    *)
(* and after each of them, during recovery too.  The rest of an action is  *)
(* one critical section of log.lock, but for the test at the head of       *)
(* log_write(), which is made without that lock and is a step of its own.  *)
(* The buffer cache is a function from blocks to the content that bread()  *)
(* would return; a buffer that is neither dirty nor held may be recycled   *)
(* at any time, and then bread() reads the disk.  How many buffers there   *)
(* are matters: those that the log keeps dirty may use them up.  Log       *)
(* blocks are read back only after they are written, so their cached       *)
(* copies are left out.                                                    *)
(*                                                                         *)
(* panic() stops the processor of its caller.  The other processors go on  *)
(* until they print something (console.c:205), so nothing is known of them *)
(* then: they may take further steps, and no fairness makes them.          *)
(***************************************************************************)
EXTENDS Integers, FiniteSets, Sequences, SequencesExt

CONSTANTS
  Procs,         \* the processes that make file system calls
  Blocks,        \* the blocks outside the log
  Values,        \* what a block may contain
  Blank,         \* what every block contains when mkfs has made the disk
  LOGSIZE,       \* entries of the header
  LogBlocks,     \* log.size of the superblock: the header and the log blocks
  NBUF,          \* the buffers of the cache
  MAXOPBLOCKS,   \* the blocks begin_op() reserves for each call
  OpBlocks,      \* the blocks that a call really changes, at most
  MaxOps,        \* bound: calls of each process
  MaxCrashes     \* bound: crashes

ASSUME LogAssumption ==
  /\ IsFiniteSet(Procs) /\ IsFiniteSet(Blocks)
  /\ Blank \in Values
  /\ {LOGSIZE, LogBlocks, MAXOPBLOCKS, NBUF} \subseteq Nat \ {0}
  /\ MAXOPBLOCKS <= LOGSIZE     \* param.h:11: LOGSIZE is (MAXOPBLOCKS*3)
  /\ NBUF <= LOGSIZE            \* param.h:12: NBUF is (MAXOPBLOCKS*3)
  /\ NBUF <= LogBlocks          \* mkfs.c:30: nlog is LOGSIZE
  /\ {OpBlocks, MaxOps, MaxCrashes} \subseteq Nat

VARIABLES
  disk,          \* the home blocks on disk
  logged,        \* the log blocks on disk, after the header
  head,          \* the block numbers in the header on disk
  cache, dirty,  \* b->data and B_DIRTY of the buffers of the home blocks
  lh,            \* the block numbers in log.lh
  outstanding, committing,
  at,            \* "user"; in begin_op() "asleep" or woken, "retry"; "op"; "commit"
  phase, tail,   \* where commit() or recover_from_log() is
  panicked,      \* the processes whose processor has panicked
  held,          \* the buffers that log_write() of p has been called for
  wrote,         \* the blocks that the call of p has changed
  ops, crashes   \* counts for the bounds

ondisk == <<disk, logged, head>>
inmemory == <<cache, dirty, lh, outstanding, committing, at, phase, tail, panicked, held,
              wrote>>
vars == <<ondisk, inmemory, ops, crashes>>

\* A boot: the memory is lost, and the first process calls initlog().
Boot ==
  /\ cache' = disk
  /\ dirty' = [b \in Blocks |-> FALSE]
  /\ lh' = <<>>
  /\ outstanding' = 0 /\ committing' = 0
  /\ at' = [p \in Procs |-> "user"]
  /\ phase' = "read_head" /\ tail' = 0
  /\ panicked' = {}
  /\ held' = [p \in Procs |-> {}]
  /\ wrote' = [p \in Procs |-> {}]

Init ==
  /\ disk = [b \in Blocks |-> Blank]
  /\ logged = [i \in 1..(LogBlocks - 1) |-> Blank]
  /\ head = <<>>
  /\ cache = disk
  /\ dirty = [b \in Blocks |-> FALSE]
  /\ lh = <<>>
  /\ outstanding = 0 /\ committing = 0
  /\ at = [p \in Procs |-> "user"]
  /\ phase = "read_head" /\ tail = 0
  /\ panicked = {}
  /\ held = [p \in Procs |-> {}]
  /\ wrote = [p \in Procs |-> {}]
  /\ ops = [p \in Procs |-> 0]
  /\ crashes = 0

\* initlog() ends before any other process runs.
Recovering == phase # "none" /\ committing = 0

-----------------------------------------------------------------------------
\* p is at the head of the loop of begin_op().
Attempts(p) ==
  /\ ~Recovering
  /\ \/ at[p] = "user" /\ ops[p] < MaxOps /\ ops' = [ops EXCEPT ![p] = @ + 1]
     \/ at[p] = "retry" /\ UNCHANGED ops

NoRoom == Len(lh) + (outstanding + 1) * MAXOPBLOCKS > LOGSIZE

SleepBegin(p) ==
  /\ Attempts(p)
  /\ committing = 1 \/ NoRoom
  /\ at' = [at EXCEPT ![p] = "asleep"]
  /\ UNCHANGED <<ondisk, cache, dirty, lh, outstanding, committing, phase, tail,
                 panicked, held, wrote, crashes>>

\* Mutant: a call starts while the commit is running.
begin_op_DuringCommit(p) ==
  /\ Attempts(p)
  /\ ~NoRoom
  /\ outstanding' = outstanding + 1
  /\ at' = [at EXCEPT ![p] = "op"]
  /\ wrote' = [wrote EXCEPT ![p] = {}]
  /\ UNCHANGED <<ondisk, cache, dirty, lh, committing, phase, tail, panicked, held, crashes>>

begin_op(p) ==
  /\ Attempts(p)
  /\ committing = 0 /\ ~NoRoom
  /\ outstanding' = outstanding + 1
  /\ at' = [at EXCEPT ![p] = "op"]
  /\ wrote' = [wrote EXCEPT ![p] = {}]
  /\ UNCHANGED <<ondisk, cache, dirty, lh, committing, phase, tail, panicked, held, crashes>>

\* kill() wakes a sleeper, and the loop tests again.
Kill(p) ==
  /\ at[p] = "asleep"
  /\ at' = [at EXCEPT ![p] = "retry"]
  /\ UNCHANGED <<ondisk, cache, dirty, lh, outstanding, committing, phase, tail,
                 panicked, held, wrote, ops, crashes>>

\* The buffers that bget() cannot recycle: those the log keeps, and those in hand.
Pinned == {b \in Blocks : dirty[b]} \cup UNION {held[p] : p \in Procs}

\* The call goes on, and does not stand in log_write().
Inside(p) == at[p] = "op" /\ p \notin panicked /\ held[p] = {}

\* The call wants to change block b, whose buffer nobody else has locked.
WantsToChange(p, b) ==
  /\ Inside(p)
  /\ \A q \in Procs : b \notin held[q]
  /\ Cardinality(wrote[p] \cup {b}) <= OpBlocks

HasBuffer(b) == Cardinality(Pinned \cup {b}) <= NBUF

TooBig == Len(lh) >= LOGSIZE \/ Len(lh) >= LogBlocks - 1

\* The first lines of log_write(), called with the changed buffer of b: the
\* size of the log is tested, and log.lock is not held.
TestSize(p, b) ==
  /\ WantsToChange(p, b) /\ HasBuffer(b)
  /\ ~TooBig
  /\ held' = [held EXCEPT ![p] = {b}]
  /\ UNCHANGED <<ondisk, cache, dirty, lh, outstanding, committing, at, phase, tail,
                 panicked, wrote, ops, crashes>>

\* The rest of log_write(), and brelse(): the block is added to the header,
\* unless it is there already, its buffer is marked dirty, and others may see
\* the change.  The header may have grown since the test.
log_write(p, b, v) ==
  /\ b \in held[p] /\ p \notin panicked
  /\ cache' = [cache EXCEPT ![b] = v]
  /\ dirty' = [dirty EXCEPT ![b] = TRUE]
  /\ lh' = IF b \in ToSet(lh) THEN lh ELSE Append(lh, b)
  /\ wrote' = [wrote EXCEPT ![p] = @ \cup {b}]
  /\ held' = [held EXCEPT ![p] = {}]
  /\ UNCHANGED <<ondisk, outstanding, committing, at, phase, tail, panicked, ops, crashes>>

\* "too big a transaction": the buffer stays locked.
log_writePanics(p, b) ==
  /\ WantsToChange(p, b) /\ HasBuffer(b)
  /\ TooBig
  /\ held' = [held EXCEPT ![p] = {b}]
  /\ panicked' = panicked \cup {p}
  /\ UNCHANGED <<ondisk, cache, dirty, lh, outstanding, committing, at, phase, tail,
                 wrote, ops, crashes>>

\* "bget: no buffers", in the bread() before a log_write().
bgetPanics(p, b) ==
  /\ WantsToChange(p, b) /\ ~HasBuffer(b)
  /\ panicked' = panicked \cup {p}
  /\ UNCHANGED <<ondisk, cache, dirty, lh, outstanding, committing, at, phase, tail,
                 held, wrote, ops, crashes>>

\* wakeup(&log)
Woken == [p \in Procs |-> IF at[p] = "asleep" THEN "retry" ELSE at[p]]

\* end_op() with other calls outstanding.
EndLeaves(p) ==
  /\ Inside(p)
  /\ outstanding > 1
  /\ outstanding' = outstanding - 1
  /\ at' = [Woken EXCEPT ![p] = "user"]
  /\ UNCHANGED <<ondisk, cache, dirty, lh, committing, phase, tail, panicked, held, wrote,
                 ops, crashes>>

\* end_op() of the last call, up to its call of commit().
EndCommits(p) ==
  /\ Inside(p)
  /\ outstanding = 1
  /\ outstanding' = 0
  /\ committing' = 1
  /\ at' = [at EXCEPT ![p] = "commit"]
  /\ phase' = IF lh = <<>> THEN "done" ELSE "write_log"
  /\ tail' = 0
  /\ UNCHANGED <<ondisk, cache, dirty, lh, panicked, held, wrote, ops, crashes>>

-----------------------------------------------------------------------------
\* One more of the blocks of the header is done, and then next comes.
Advance(next) ==
  IF tail + 1 = Len(lh)
  THEN phase' = next /\ tail' = 0
  ELSE tail' = tail + 1 /\ UNCHANGED phase

unlogged == <<outstanding, committing, at, panicked, held, wrote, ops, crashes>>

\* Nobody else has a buffer now, and bread() of a log block needs one.
BufferFree == Cardinality(Pinned) < NBUF

write_log ==
  /\ phase = "write_log"
  /\ BufferFree
  /\ logged' = [logged EXCEPT ![tail + 1] = cache[lh[tail + 1]]]
  /\ Advance("write_head")
  /\ UNCHANGED <<disk, head, cache, dirty, lh, unlogged>>

\* "bget: no buffers", in the first bread() of write_log().
CommitPanics(p) ==
  /\ phase = "write_log" /\ at[p] = "commit" /\ p \notin panicked
  /\ ~BufferFree
  /\ panicked' = panicked \cup {p}
  /\ UNCHANGED <<ondisk, cache, dirty, lh, outstanding, committing, at, phase, tail,
                 held, wrote, ops, crashes>>

\* Mutant: the blocks are not installed before the header is cleared.
write_head_NoInstall ==
  /\ phase = "write_head"
  /\ head' = lh
  /\ phase' = "clear"
  /\ UNCHANGED <<disk, logged, cache, dirty, lh, tail, unlogged>>

\* The commit point.
write_head ==
  /\ phase = "write_head"
  /\ head' = lh
  /\ phase' = "install"
  /\ UNCHANGED <<disk, logged, cache, dirty, lh, tail, unlogged>>

install_trans ==
  /\ phase = "install"
  /\ disk' = [disk EXCEPT ![lh[tail + 1]] = logged[tail + 1]]
  /\ cache' = [cache EXCEPT ![lh[tail + 1]] = logged[tail + 1]]
  /\ dirty' = [dirty EXCEPT ![lh[tail + 1]] = FALSE]
  /\ Advance("clear")
  /\ UNCHANGED <<logged, head, lh, unlogged>>

\* log.lh.n = 0; write_head()
ClearLog ==
  /\ phase = "clear"
  /\ lh' = <<>>
  /\ head' = <<>>
  /\ phase' = IF committing = 1 THEN "done" ELSE "none"
  /\ UNCHANGED <<disk, logged, cache, dirty, tail, unlogged>>

\* Mutant: the end of the commit wakes nobody.
EndDone_NoWakeup(p) ==
  /\ phase = "done" /\ at[p] = "commit"
  /\ committing' = 0
  /\ phase' = "none"
  /\ at' = [at EXCEPT ![p] = "user"]
  /\ UNCHANGED <<ondisk, cache, dirty, lh, outstanding, tail, panicked, held, wrote, ops, crashes>>

\* The last critical section of end_op().
EndDone(p) ==
  /\ phase = "done" /\ at[p] = "commit"
  /\ committing' = 0
  /\ phase' = "none"
  /\ at' = [Woken EXCEPT ![p] = "user"]
  /\ UNCHANGED <<ondisk, cache, dirty, lh, outstanding, tail, panicked, held, wrote, ops, crashes>>

\* recover_from_log(), which goes on with install_trans() and ClearLog.
read_head ==
  /\ phase = "read_head"
  /\ lh' = head
  /\ phase' = IF head = <<>> THEN "clear" ELSE "install"
  /\ UNCHANGED <<ondisk, cache, dirty, tail, unlogged>>

\* bget() recycles a buffer.
Recycle(b) ==
  /\ b \notin Pinned
  /\ cache' = [cache EXCEPT ![b] = disk[b]]
  /\ UNCHANGED <<ondisk, dirty, lh, phase, tail, unlogged>>

Crash ==
  /\ crashes < MaxCrashes
  /\ crashes' = crashes + 1
  /\ Boot
  /\ UNCHANGED <<ondisk, ops>>

DiskStep == write_log \/ write_head \/ install_trans \/ ClearLog \/ read_head

EndOp(p) == EndLeaves(p) \/ EndCommits(p) \/ EndDone(p)

Next ==
  \/ \E p \in Procs :
       \/ SleepBegin(p) \/ begin_op(p) \/ Kill(p) \/ EndOp(p)
       \/ CommitPanics(p)
       \/ \E b \in Blocks :
            \/ TestSize(p, b) \/ log_writePanics(p, b) \/ bgetPanics(p, b)
            \/ \E v \in Values : log_write(p, b, v)
  \/ DiskStep
  \/ \E b \in Blocks : Recycle(b)
  \/ Crash

Spec == Init /\ [][Next]_vars

\* The disk answers, log_write() returns, a call makes finitely many of them
\* and ends, and begin_op() goes on when it is woken: all of it as long as no
\* processor has panicked.
FairSpec ==
  /\ Spec
  /\ WF_vars(panicked = {} /\ DiskStep)
  /\ \A p \in Procs :
       /\ WF_vars(panicked = {} /\ \E b \in Blocks, v \in Values : log_write(p, b, v))
       /\ SF_vars(panicked = {} /\ EndOp(p))
       /\ WF_vars(panicked = {} /\ at[p] = "retry" /\ (SleepBegin(p) \/ begin_op(p)))

-----------------------------------------------------------------------------
Phases == {"none", "read_head", "write_log", "write_head", "install", "clear", "done"}

TypeOK ==
  /\ disk \in [Blocks -> Values] /\ cache \in [Blocks -> Values]
  /\ logged \in [1..(LogBlocks - 1) -> Values]
  /\ head \in Seq(Blocks) /\ Len(head) < NBUF
  /\ lh \in Seq(Blocks) /\ Len(lh) <= NBUF
  /\ dirty \in [Blocks -> BOOLEAN]
  /\ outstanding \in Nat /\ committing \in {0, 1}
  /\ at \in [Procs -> {"user", "asleep", "retry", "op", "commit"}]
  /\ phase \in Phases /\ tail \in Nat
  /\ panicked \subseteq Procs
  /\ held \in [Procs -> SUBSET Blocks]
  /\ wrote \in [Procs -> SUBSET Blocks]
  /\ ops \in [Procs -> Nat] /\ crashes \in Nat

\* What recovery would make of the disk as it is now.
Recovered ==
  [b \in Blocks |->
     IF b \in ToSet(head)
     THEN logged[CHOOSE i \in DOMAIN head : head[i] = b]
     ELSE disk[b]]

\* Group commit is atomic: whatever steps a crash falls between, in a commit
\* or in a recovery, the file system comes back as it was at a moment when no
\* call was in progress, and a later call sees what earlier ones wrote.
Store == INSTANCE AtomicStore WITH
  mem <- IF Recovering THEN Recovered ELSE cache,
  stable <- Recovered,
  active <- {p \in Procs : at[p] = "op"}
ImplementsAtomicStore == Store!Spec

\* When no block waits in the log, nothing that a finished call wrote can be
\* lost any more: end_op() of the last call returns after its commit.
FinishedDurable == ~Recovering /\ lh = <<>> => Recovered = cache

\* No lost wakeup: a process asleep in begin_op() has a reason to be, so a
\* commit or a call in progress will wake it.
NoLostWakeup ==
  \A p \in Procs : at[p] = "asleep" =>
    committing = 1 \/ (NoRoom /\ outstanding > 0)

\* Every begin_op() returns or the machine crashes or a processor panics, as
\* long as each process makes a bounded number of calls.
EveryCallBegins ==
  \A p \in Procs : at[p] \in {"asleep", "retry"} ~> at[p] \in {"op", "user"} \/ panicked # {}

\* Calls that change one block fewer than begin_op() reserves for each never
\* find the log or the cache too small, although log_write() looks at a header
\* to which others may still add, and refuses a block that is in it already.
ReservationSuffices ==
  OpBlocks < MAXOPBLOCKS /\ MAXOPBLOCKS < LOGSIZE /\ NBUF = LOGSIZE => panicked = {}

\* No call is too big for the space that begin_op() reserved for it.
NeverTooBig == panicked = {}

=============================================================================
