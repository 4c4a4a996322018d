-------------------------- MODULE FileSystemProofs --------------------------
(***************************************************************************)
(* Proofs about the two upper layers of the file system, for every number  *)
(* of processes, blocks, inodes, names, calls and crashes.                 *)
(*                                                                         *)
(* Log: a group commit is atomic, nothing that is not waiting in the log   *)
(* can be lost, and begin_op() reserves enough.  Files: the link counts    *)
(* and the reference counts are exact, nothing that is in use is freed,    *)
(* and the ilock() calls of the directories never wait in a circle.        *)
(***************************************************************************)
EXTENDS Log, Files, ProofLemmas

-----------------------------------------------------------------------------
(* The log. *)

Active == {p \in Procs : at[p] = "op"}

DistinctBlocks(s) == \A i, j \in 1..Len(s) : s[i] = s[j] => i = j

\* Who may be where in which phase: a commit runs while no call is active, and
\* a recovery while no process has begun anything.
Control ==
  /\ outstanding = Cardinality(Active)
  /\ committing = 1 => Active = {}
  /\ phase \in {"write_log", "write_head", "done"} => committing = 1
  /\ phase \in {"none", "read_head"} => committing = 0
  /\ Recovering => \A p \in Procs : at[p] = "user"

\* A block that is not in the header is the same on disk and in the cache.
Clean == \A b \in Blocks : b \notin ToSet(lh) => cache[b] = disk[b]

\* Before the commit point the header on disk is empty, and the blocks that
\* are only in the cache stay there.
Uncommitted ==
  phase \in {"none", "write_log", "write_head", "done"} =>
    head = <<>> /\ \A i \in 1..Len(lh) : dirty[lh[i]]

Empty ==
  /\ phase \in {"read_head", "done"} => lh = <<>>
  /\ phase = "none" /\ outstanding = 0 => lh = <<>>

\* Up to tail, and then all of them, the blocks of the header are in the log.
Logging ==
  /\ phase = "read_head" => tail = 0
  /\ phase = "write_log" =>
       tail < Len(lh) /\ \A i \in 1..tail : logged[i] = cache[lh[i]]
  /\ phase = "write_head" =>
       tail = 0 /\ lh # <<>> /\ \A i \in 1..Len(lh) : logged[i] = cache[lh[i]]

\* Up to tail the logged blocks are at home.  Beyond it a commit still has
\* them in the cache, and a recovery has read the old ones from disk.
Installing ==
  phase = "install" =>
    /\ head = lh /\ tail < Len(lh)
    /\ \A i \in 1..Len(lh) :
         /\ i <= tail => disk[lh[i]] = logged[i] /\ cache[lh[i]] = logged[i]
         /\ i > tail => IF committing = 1
                        THEN cache[lh[i]] = logged[i] /\ dirty[lh[i]]
                        ELSE cache[lh[i]] = disk[lh[i]]

Installed ==
  phase = "clear" =>
    /\ head = lh
    /\ \A i \in 1..Len(lh) : disk[lh[i]] = logged[i] /\ cache[lh[i]] = logged[i]

Contents == Clean /\ Uncommitted /\ Empty /\ Logging /\ Installing /\ Installed
Distinct == DistinctBlocks(lh) /\ DistinctBlocks(head)

\* A buffer that is locked or dirty keeps its place in the cache, and there is
\* one for each.  All blocks of the header are dirty when the commit begins, and
\* its first bread() finds a buffer: so the header is shorter than the cache.
Buffered ==
  /\ Cardinality(Pinned) <= NBUF
  /\ \A p \in Procs : held[p] # {} => at[p] = "op"
  /\ \/ phase \in {"write_head", "install", "clear"}
     \/ phase = "write_log" /\ tail > 0
     => Len(lh) < NBUF

\* The inductive invariant.
IInv == TypeOK /\ Distinct /\ Control /\ Contents /\ Buffered /\ NoLostWakeup

USE LogAssumption

\* What the header s names, as its elements.
LEMMA InHeader ==
  ASSUME NEW s \in Seq(Blocks)
  PROVE  /\ Len(s) \in Nat /\ DOMAIN s = 1..Len(s)
         /\ \A i \in 1..Len(s) : s[i] \in Blocks
         /\ \A b : b \in ToSet(s) <=> \E i \in 1..Len(s) : s[i] = b
         /\ s = <<>> <=> Len(s) = 0
  BY DEF ToSet

\* What log_write() makes of the header.
Header(s, b) == IF b \in ToSet(s) THEN s ELSE Append(s, b)

\* Absorption in log_write(): a header grows by at most one block, which it did not hold.
LEMMA Appended ==
  ASSUME NEW s \in Seq(Blocks), NEW b \in Blocks
  PROVE  LET t == Header(s, b)
         IN  /\ t \in Seq(Blocks)
             /\ Len(s) <= Len(t) /\ Len(t) <= Len(s) + 1
             /\ \A i \in 1..Len(s) : t[i] = s[i]
             /\ \A i \in 1..Len(t) : i > Len(s) => t[i] = b
             /\ ToSet(t) = ToSet(s) \cup {b}
             /\ DistinctBlocks(s) => DistinctBlocks(t)
<1> DEFINE t == Header(s, b)
<1> HIDE DEF t
<1>1. CASE b \in ToSet(s)
  <2>1. t = s
    BY <1>1 DEF t, Header
  <2>2. QED
    BY <1>1, <2>1, InHeader DEF t
<1>2. CASE b \notin ToSet(s)
  <2>1. t = Append(s, b) /\ t \in Seq(Blocks) /\ Len(t) = Len(s) + 1
    BY <1>2 DEF t, Header
  <2>2. /\ \A i \in 1..Len(s) : t[i] = s[i]
        /\ t[Len(t)] = b
    BY <2>1
  <2>3. \A i \in 1..Len(t) : i > Len(s) => i = Len(t)
    BY <2>1
  <2>4. /\ \A x : x \in ToSet(t) <=> \E i \in 1..Len(t) : t[i] = x
        /\ \A x : x \in ToSet(s) <=> \E i \in 1..Len(s) : s[i] = x
    BY <2>1, InHeader
  <2>5. \A i \in 1..Len(s) : s[i] # b
    BY <1>2, InHeader
  <2>6. ToSet(t) = ToSet(s) \cup {b}
    <3>1. ASSUME NEW x \in ToSet(t) PROVE x \in ToSet(s) \cup {b}
      BY <2>1, <2>2, <2>3, <2>4
    <3>2. ASSUME NEW x \in ToSet(s) \cup {b} PROVE x \in ToSet(t)
      <4>1. CASE x = b
        BY <4>1, <2>1, <2>2, <2>4
      <4>2. CASE x \in ToSet(s)
        BY <4>2, <2>1, <2>2, <2>4
      <4>3. QED
        BY <4>1, <4>2
    <3>3. QED
      BY <3>1, <3>2
  <2>7. DistinctBlocks(s) => DistinctBlocks(t)
    BY <2>1, <2>2, <2>3, <2>5 DEF DistinctBlocks
  <2>8. QED
    BY <2>1, <2>2, <2>3, <2>6, <2>7 DEF t
<1>3. QED
  BY <1>1, <1>2

\* A header without repetitions is no longer than a set that holds its blocks.
LEMMA HeaderFits ==
  ASSUME NEW s \in Seq(Blocks), DistinctBlocks(s), NEW S, IsFiniteSet(S),
         \A i \in 1..Len(s) : s[i] \in S
  PROVE  Len(s) <= Cardinality(S)
<1> DEFINE n == Len(s)
           f == [i \in 1..n |-> s[i]]
<1>1. n \in Nat
  OBVIOUS
<1>2. f \in Injection(1..n, S)
  BY DEF DistinctBlocks, Injection, IsInjective
<1> HIDE DEF n, f
<1>3. Cardinality(1..n) <= Cardinality(S)
  BY <1>2, FS_Injection
<1>4. Cardinality(1..n) = IF 1 > n THEN 0 ELSE n - 1 + 1
  BY <1>1, FS_Interval
<1>5. n <= Cardinality(S)
  BY <1>1, <1>3, <1>4
<1>6. QED
  BY <1>5 DEF n

-----------------------------------------------------------------------------
\* The calls inside a transaction can be counted.
LEMMA ActiveFinite == IsFiniteSet(Active) /\ Cardinality(Active) \in Nat
  BY FS_Subset, FS_CardinalityType DEF LogAssumption, Active

\* So can the buffers that keep their place, now and after a step.
LEMMA PinnedFinite ==
  ASSUME TypeOK
  PROVE  /\ Pinned \subseteq Blocks /\ IsFiniteSet(Pinned)
         /\ Cardinality(Pinned) \in Nat
         /\ \A S \in SUBSET Pinned :
              IsFiniteSet(S) /\ Cardinality(S) \in Nat /\ Cardinality(S) <= Cardinality(Pinned)
<1>1. Pinned \subseteq Blocks
  BY DEF TypeOK, Pinned
<1>2. IsFiniteSet(Pinned)
  BY <1>1, FS_Subset DEF LogAssumption
<1>3. QED
  BY <1>1, <1>2, FS_Subset, FS_CardinalityType

\* The invariant holds when the system starts.
LEMMA InitIInv == Init => IInv
<1> SUFFICES ASSUME Init PROVE IInv
  OBVIOUS
<1>1. TypeOK
  <2>1. \A h \in {head, lh} : h = <<>>
    BY DEF Init
  <2>2. \A h \in {head, lh} : h \in Seq(Blocks) /\ Len(h) < NBUF
    <3>1. <<>> \in Seq(Blocks) /\ Len(<<>>) = 0
      OBVIOUS
    <3>2. NBUF \in Nat /\ 0 < NBUF
      BY DEF LogAssumption
    <3>3. QED
      BY <2>1, <3>1, <3>2
  <2>3. logged \in [1..(LogBlocks - 1) -> Values]
    BY DEF Init, LogAssumption
  <2>4. outstanding \in Nat /\ tail \in Nat /\ crashes \in Nat /\ ops \in [Procs -> Nat]
    BY DEF Init
  <2>5. held \in [Procs -> SUBSET Blocks] /\ wrote \in [Procs -> SUBSET Blocks]
    BY DEF Init
  <2>6. Len(lh) <= NBUF
    BY <2>2 DEF LogAssumption
  <2>7. QED
    BY <2>2, <2>3, <2>4, <2>5, <2>6 DEF Init, TypeOK, Phases, LogAssumption
<1>2. Active = {}
  BY DEF Init, Active
<1>3. Control
  BY <1>2, FS_EmptySet DEF Init, Control, Recovering
<1>4. Distinct /\ Contents
  <2>1. lh = <<>> /\ head = <<>> /\ phase = "read_head" /\ tail = 0 /\ cache = disk
    BY DEF Init
  <2>2. Len(lh) = 0 /\ Len(head) = 0 /\ 1..0 = {}
    BY <2>1
  <2>3. Distinct
    BY <2>2 DEF Distinct, DistinctBlocks
  <2>4. Clean /\ Uncommitted /\ Empty
    BY <2>1 DEF Clean, Uncommitted, Empty
  <2>5. Logging /\ Installing /\ Installed
    BY <2>1 DEF Logging, Installing, Installed
  <2>6. QED
    BY <2>3, <2>4, <2>5, Zenon DEF Contents
<1>5. Buffered
  <2>1. Pinned = {}
    BY DEF Init, Pinned
  <2>2. Cardinality(Pinned) = 0
    BY <2>1, FS_EmptySet
  <2>3. QED
    BY <2>2 DEF Init, Buffered, LogAssumption
<1>6. NoLostWakeup
  BY DEF Init, NoLostWakeup
<1>7. QED
  BY <1>1, <1>3, <1>4, <1>5, <1>6 DEF IInv

\* Steps of begin_op() and end_op() do not touch the blocks.
LEMMA ContentsSame ==
  ASSUME IInv, UNCHANGED <<ondisk, cache, dirty, lh, phase, tail, committing>>,
         phase = "none" /\ outstanding' = 0 => lh = <<>>
  PROVE  Distinct' /\ Contents'
<1>1. UNCHANGED <<disk, logged, head, cache, dirty, lh, phase, tail, committing>>
  BY DEF ondisk
<1>2. Distinct /\ Clean /\ Uncommitted /\ Empty /\ Logging /\ Installing /\ Installed
  BY Zenon DEF IInv, Contents
<1>3. Distinct'
  BY <1>1, <1>2 DEF Distinct, DistinctBlocks
<1>4. Clean' /\ Uncommitted'
  BY <1>1, <1>2 DEF Clean, Uncommitted
<1>5. Empty'
  BY <1>1, <1>2 DEF Empty
<1>6. Logging'
  BY <1>1, <1>2 DEF Logging
<1>7. Installing' /\ Installed'
  BY <1>1, <1>2 DEF Installing, Installed
<1>8. QED
  BY <1>3, <1>4, <1>5, <1>6, <1>7, Zenon DEF Contents

\* Nor do these steps change which buffers keep their place.
LEMMA BufferedSame ==
  ASSUME IInv, UNCHANGED <<dirty, held, lh, phase>>, tail' = tail \/ phase = "none",
         \A p \in Procs : held[p] # {} => at'[p] = "op"
  PROVE  Buffered'
<1>1. Pinned' = Pinned
  BY DEF Pinned
<1>2. QED
  BY <1>1 DEF IInv, Buffered

\* While a call is active or about to begin and no commit runs, the log rests.
LEMMA Resting ==
  ASSUME IInv, ~Recovering, committing = 0
  PROVE  phase = "none" /\ (outstanding = 0 => lh = <<>>)
  BY DEF IInv, Recovering, Contents, Empty

\* While a process is inside a transaction, no commit and no recovery is under way.
LEMMA ActiveRests ==
  ASSUME IInv, NEW p \in Procs, at[p] = "op"
  PROVE  ~Recovering /\ committing = 0 /\ phase = "none" /\ outstanding > 0
<1>1. p \in Active
  BY DEF Active
<1>2. committing = 0 /\ ~Recovering
  BY <1>1 DEF IInv, Control, TypeOK
<1>3. Cardinality(Active) # 0
  BY <1>1, ActiveFinite, FS_EmptySet
<1>4. outstanding > 0
  BY <1>3, ActiveFinite DEF IInv, Control
<1>5. QED
  BY <1>2, <1>4 DEF Recovering

\* There is room for one call in an empty log.
LEMMA EmptyHasRoom ==
  ASSUME lh = <<>>, outstanding = 0
  PROVE  ~NoRoom
<1>1. Len(lh) = 0
  OBVIOUS
<1>2. (outstanding + 1) * MAXOPBLOCKS = MAXOPBLOCKS
  BY DEF LogAssumption
<1>3. QED
  BY <1>1, <1>2 DEF NoRoom, LogAssumption

\* More calls reserve more blocks: the product in begin_op()'s test grows.
LEMMA ProductMonotone ==
  ASSUME NEW m \in Nat, NEW n \in Nat, m <= n, NEW k \in Nat
  PROVE  (m + 1) * k \in Nat /\ (n + 1) * k \in Nat /\ (m + 1) * k <= (n + 1) * k
<1>1. PICK d \in Nat : n = m + d
  <2>1. n - m \in Nat /\ n = m + (n - m)
    OBVIOUS
  <2>2. QED
    BY <2>1
<1>2. d * k \in Nat /\ (m + 1) * k \in Nat
  OBVIOUS
<1>3. (n + 1) * k = (m + 1) * k + d * k
  BY <1>1
<1>4. QED
  BY <1>2, <1>3

\* Once there is no room, more calls and more blocks make none.
LEMMA RoomShrinks ==
  ASSUME NoRoom, lh \in Seq(Blocks), lh' \in Seq(Blocks), Len(lh) <= Len(lh'),
         outstanding \in Nat, outstanding' \in Nat, outstanding <= outstanding'
  PROVE  NoRoom'
<1> DEFINE r == (outstanding + 1) * MAXOPBLOCKS
<1>1. r \in Nat /\ r' \in Nat /\ r <= r'
  BY ProductMonotone DEF LogAssumption
<1>2. Len(lh) + r > LOGSIZE
  BY DEF NoRoom
<1>3. Len(lh) \in Nat /\ Len(lh') \in Nat /\ LOGSIZE \in Nat
  BY DEF LogAssumption
<1> HIDE DEF r
<1>4. Len(lh') + r' > LOGSIZE
  BY <1>1, <1>2, <1>3
<1>5. QED
  BY <1>4 DEF NoRoom, r

-----------------------------------------------------------------------------
\* SleepBegin keeps the invariant.
LEMMA SleepBeginStep ==
  ASSUME IInv, NEW p \in Procs, SleepBegin(p)
  PROVE  IInv'
<1>1. TypeOK'
  <2>1. TypeOK
    BY DEF IInv
  <2>2. ops' = ops \/ ops' = [ops EXCEPT ![p] = @ + 1]
    BY DEF SleepBegin, Attempts
  <2>3. ops \in [Procs -> Nat]
    BY <2>1 DEF TypeOK
  <2>4. ops' \in [Procs -> Nat]
    BY <2>2, <2>3
  <2>5. at' \in [Procs -> {"user", "asleep", "retry", "op", "commit"}]
    BY <2>1 DEF TypeOK, SleepBegin
  <2>6. QED
    BY <2>1, <2>4, <2>5 DEF TypeOK, SleepBegin, ondisk
<1>2. Active' = Active
  BY DEF SleepBegin, Attempts, Active, IInv, TypeOK
<1>3. Control'
  BY <1>2 DEF IInv, Control, Recovering, SleepBegin, Attempts
<1>4. Distinct' /\ Contents'
  BY ContentsSame DEF SleepBegin, IInv, Contents, Empty
<1>5. ASSUME committing = 0 PROVE NoRoom /\ outstanding > 0
  <2>1. NoRoom /\ ~Recovering
    BY <1>5 DEF SleepBegin, Attempts
  <2>2. outstanding # 0
    BY <1>5, <2>1, Resting, EmptyHasRoom
  <2>3. QED
    BY <2>1, <2>2 DEF IInv, TypeOK
<1>6. NoRoom' = NoRoom
  BY DEF SleepBegin, NoRoom
<1>7. NoLostWakeup'
  BY <1>5, <1>6 DEF IInv, TypeOK, NoLostWakeup, SleepBegin
<1>8. Buffered'
  <2>1. at[p] # "op"
    BY DEF SleepBegin, Attempts
  <2>2. \A q \in Procs : held[q] # {} => at'[q] = "op"
    BY <2>1 DEF IInv, TypeOK, Buffered, SleepBegin
  <2>3. QED
    BY <2>2, BufferedSame DEF SleepBegin
<1>9. QED
  BY <1>1, <1>3, <1>4, <1>7, <1>8 DEF IInv

\* Begin keeps the invariant.
LEMMA BeginStep ==
  ASSUME IInv, NEW p \in Procs, begin_op(p)
  PROVE  IInv'
<1>1. TypeOK'
  BY DEF IInv, TypeOK, begin_op, Attempts, ondisk
<1>2. phase = "none" /\ ~Recovering
  BY Resting DEF begin_op, Attempts
<1>3. Active' = Active \cup {p} /\ p \notin Active
  BY DEF begin_op, Attempts, Active, IInv, TypeOK
<1>4. Cardinality(Active') = Cardinality(Active) + 1
  BY <1>3, ActiveFinite, FS_AddElement
<1>5. Control'
  BY <1>2, <1>4 DEF IInv, Control, Recovering, begin_op
<1>6. Distinct' /\ Contents'
  BY ContentsSame DEF begin_op, IInv, TypeOK
<1>7. NoLostWakeup'
  <2>1. ASSUME NEW q \in Procs, at'[q] = "asleep" PROVE NoRoom' /\ outstanding' > 0
    <3>1. NoRoom /\ outstanding > 0
      BY <2>1 DEF IInv, TypeOK, NoLostWakeup, begin_op
    <3>2. NoRoom'
      BY <3>1, RoomShrinks DEF IInv, TypeOK, begin_op
    <3>3. QED
      BY <3>1, <3>2 DEF IInv, TypeOK, begin_op
  <2>2. QED
    BY <2>1 DEF NoLostWakeup
<1>8. Buffered'
  <2>1. \A q \in Procs : held[q] # {} => at'[q] = "op"
    BY DEF IInv, TypeOK, Buffered, begin_op
  <2>2. QED
    BY <2>1, BufferedSame DEF begin_op
<1>9. QED
  BY <1>1, <1>5, <1>6, <1>7, <1>8 DEF IInv

\* Kill keeps the invariant.
LEMMA KillStep ==
  ASSUME IInv, NEW p \in Procs, Kill(p)
  PROVE  IInv'
<1>1. TypeOK'
  BY DEF IInv, TypeOK, Kill, ondisk
<1>2. Active' = Active
  BY DEF Kill, Active, IInv, TypeOK
<1>3. Control'
  BY <1>2 DEF IInv, Control, Recovering, Kill
<1>4. Distinct' /\ Contents'
  BY ContentsSame DEF Kill, IInv, Contents, Empty
<1>5. NoLostWakeup'
  BY DEF IInv, TypeOK, NoLostWakeup, Kill, NoRoom
<1>6. Buffered'
  <2>1. \A q \in Procs : held[q] # {} => at'[q] = "op"
    BY DEF IInv, TypeOK, Buffered, Kill
  <2>2. QED
    BY <2>1, BufferedSame DEF Kill
<1>7. QED
  BY <1>1, <1>3, <1>4, <1>5, <1>6 DEF IInv

\* A panic leaves everything where it is, locked buffers too.
LEMMA PanicStep ==
  ASSUME IInv, NEW p \in Procs,
         CommitPanics(p) \/ \E b \in Blocks : bgetPanics(p, b)
  PROVE  IInv'
<1>1. /\ panicked' = panicked \cup {p}
      /\ UNCHANGED <<ondisk, cache, dirty, lh, outstanding, committing, at, phase, tail,
                     held, wrote, ops, crashes>>
  BY DEF CommitPanics, bgetPanics
<1>2. TypeOK'
  BY <1>1 DEF IInv, TypeOK, ondisk
<1>3. Control' /\ NoLostWakeup'
  BY <1>1 DEF IInv, Control, Active, Recovering, NoLostWakeup, NoRoom
<1>4. Distinct' /\ Contents'
  BY <1>1, ContentsSame DEF IInv, Contents, Empty
<1>5. Buffered'
  BY <1>1, BufferedSame DEF IInv, Buffered
<1>6. QED
  BY <1>2, <1>3, <1>4, <1>5 DEF IInv

\* The test of log_write(), whatever comes of it: the buffer is locked, and there was one.
LEMMA TestStep ==
  ASSUME IInv, NEW p \in Procs, NEW b \in Blocks, TestSize(p, b) \/ log_writePanics(p, b)
  PROVE  IInv'
<1>1. /\ WantsToChange(p, b) /\ HasBuffer(b)
      /\ held' = [held EXCEPT ![p] = {b}]
      /\ panicked' = panicked \/ panicked' = panicked \cup {p}
      /\ UNCHANGED <<ondisk, cache, dirty, lh, outstanding, committing, at, phase, tail,
                     wrote, ops, crashes>>
  BY DEF TestSize, log_writePanics
<1>2. TypeOK'
  <2>1. held' \in [Procs -> SUBSET Blocks]
    BY <1>1 DEF IInv, TypeOK
  <2>2. QED
    BY <1>1, <2>1 DEF IInv, TypeOK, ondisk
<1>3. Control' /\ NoLostWakeup'
  BY <1>1 DEF IInv, Control, Active, Recovering, NoLostWakeup, NoRoom
<1>4. Distinct' /\ Contents'
  BY <1>1, ContentsSame DEF IInv, Contents, Empty
<1>5. Buffered'
  <2>1. held[p] = {} /\ at[p] = "op"
    BY <1>1 DEF WantsToChange, Inside
  <2>2. \A q \in Procs : held'[q] = IF q = p THEN {b} ELSE held[q]
    BY <1>1 DEF IInv, TypeOK
  <2>3. Pinned' = Pinned \cup {b}
    BY <1>1, <2>1, <2>2 DEF Pinned
  <2>4. \A q \in Procs : held'[q] # {} => at'[q] = "op"
    BY <1>1, <2>1, <2>2 DEF IInv, Buffered
  <2>5. QED
    BY <1>1, <2>3, <2>4 DEF IInv, Buffered, HasBuffer
<1>6. QED
  BY <1>2, <1>3, <1>4, <1>5 DEF IInv

\* A process that has locked a buffer is inside a transaction.
LEMMA HolderActive ==
  ASSUME IInv, NEW p \in Procs, held[p] # {}
  PROVE  at[p] = "op"
  BY DEF IInv, Buffered

\* Write keeps the invariant.
LEMMA WriteStep ==
  ASSUME IInv, NEW p \in Procs, NEW b \in Blocks, NEW v \in Values, log_write(p, b, v)
  PROVE  IInv'
<1>1. at[p] = "op" /\ phase = "none" /\ committing = 0 /\ outstanding > 0 /\ b \in held[p]
  BY HolderActive, ActiveRests DEF log_write
<1>2. lh \in Seq(Blocks)
  BY DEF IInv, TypeOK
<1>3. /\ lh' \in Seq(Blocks)
      /\ Len(lh) <= Len(lh') /\ Len(lh') <= Len(lh) + 1
      /\ \A i \in 1..Len(lh) : lh'[i] = lh[i]
      /\ \A i \in 1..Len(lh') : i > Len(lh) => lh'[i] = b
      /\ ToSet(lh') = ToSet(lh) \cup {b}
      /\ DistinctBlocks(lh) => DistinctBlocks(lh')
  <2>1. lh' = Header(lh, b)
    BY DEF log_write, Header
  <2>2. QED
    BY <1>2, <2>1, Appended
<1>4. Pinned' \subseteq Pinned
  <2>1. \A c \in Blocks : dirty'[c] => dirty[c] \/ c = b
    BY DEF IInv, TypeOK, log_write
  <2>2. \A q \in Procs : held'[q] \subseteq held[q]
    BY DEF IInv, TypeOK, log_write
  <2>3. QED
    BY <1>1, <2>1, <2>2 DEF Pinned
<1>5. Distinct'
  BY <1>3 DEF IInv, Distinct, DistinctBlocks, log_write, ondisk
<1>6. Clean'
  BY <1>3 DEF IInv, TypeOK, Contents, Clean, log_write, ondisk
<1>7. Uncommitted'
  <2>1. head' = <<>>
    BY <1>1 DEF IInv, Contents, Uncommitted, log_write, ondisk
  <2>2. ASSUME NEW i \in 1..Len(lh') PROVE dirty'[lh'[i]]
    <3>1. CASE i \in 1..Len(lh)
      <4>1. lh[i] \in Blocks /\ dirty[lh[i]]
        BY <1>1, <1>2, <3>1, InHeader DEF IInv, Contents, Uncommitted
      <4>2. dirty'[lh[i]]
        BY <4>1 DEF IInv, TypeOK, log_write
      <4>3. QED
        BY <1>3, <3>1, <4>2
    <3>2. CASE ~(i \in 1..Len(lh))
      <4>1. lh'[i] = b
        BY <1>2, <1>3, <3>2
      <4>2. QED
        BY <4>1 DEF IInv, TypeOK, log_write
    <3>3. QED
      BY <3>1, <3>2
  <2>3. QED
    BY <2>1, <2>2 DEF Uncommitted
<1>8. TypeOK' /\ Buffered'
  <2>1. wrote' \in [Procs -> SUBSET Blocks] /\ held' \in [Procs -> SUBSET Blocks]
    BY DEF IInv, TypeOK, log_write
  <2>2. cache' \in [Blocks -> Values] /\ dirty' \in [Blocks -> BOOLEAN]
    BY DEF IInv, TypeOK, log_write
  <2>3. /\ IsFiniteSet(Pinned') /\ Cardinality(Pinned') \in Nat
        /\ Cardinality(Pinned) \in Nat /\ Cardinality(Pinned') <= Cardinality(Pinned)
    BY <1>4, PinnedFinite DEF IInv
  <2>4. Cardinality(Pinned') <= NBUF
    BY <2>3 DEF IInv, Buffered, LogAssumption
  <2>5. ASSUME NEW i \in 1..Len(lh') PROVE lh'[i] \in Pinned'
    <3>1. lh'[i] \in Blocks
      BY <1>3, InHeader
    <3>2. phase' = "none"
      BY <1>1 DEF log_write
    <3>3. dirty'[lh'[i]]
      BY <1>7, <3>2 DEF Uncommitted
    <3>4. QED
      BY <3>1, <3>3 DEF Pinned
  <2>6. Len(lh') <= NBUF
    BY <1>3, <2>3, <2>4, <2>5, HeaderFits DEF IInv, Distinct, LogAssumption
  <2>7. \A q \in Procs : held'[q] # {} => at'[q] = "op"
    BY DEF IInv, TypeOK, Buffered, log_write
  <2>8. Buffered'
    BY <1>1, <2>4, <2>7 DEF Buffered, log_write
  <2>9. TypeOK'
    BY <1>3, <2>1, <2>2, <2>6 DEF IInv, TypeOK, log_write, ondisk
  <2>10. QED
    BY <2>8, <2>9
<1>9. Control'
  BY DEF IInv, Control, Active, Recovering, log_write
<1>10. Empty' /\ Logging' /\ Installing' /\ Installed'
  BY <1>1 DEF IInv, TypeOK, Empty, Logging, Installing, Installed, log_write
<1>11. NoLostWakeup'
  <2>1. NoRoom => NoRoom'
    BY <1>2, <1>3, RoomShrinks DEF IInv, TypeOK, log_write
  <2>2. QED
    BY <1>1, <2>1 DEF IInv, NoLostWakeup, log_write
<1>12. QED
  BY <1>8, <1>9, <1>5, <1>6, <1>7, <1>10, <1>11 DEF IInv, Contents

-----------------------------------------------------------------------------
\* wakeup(&log) leaves nobody asleep and starts nobody.
LEMMA WokenSleepers ==
  ASSUME TypeOK
  PROVE  /\ Woken \in [Procs -> {"user", "retry", "op", "commit"}]
         /\ \A q \in Procs : Woken[q] = "op" <=> at[q] = "op"
  BY DEF TypeOK, Woken

\* EndLeaves keeps the invariant.
LEMMA EndLeavesStep ==
  ASSUME IInv, NEW p \in Procs, EndLeaves(p)
  PROVE  IInv'
<1> USE WokenSleepers
<1>1. at' = [Woken EXCEPT ![p] = "user"] /\ at[p] = "op" /\ held[p] = {}
  BY DEF EndLeaves, Inside
<1>2. at' \in [Procs -> {"user", "retry", "op", "commit"}]
  BY <1>1 DEF IInv
<1>3. TypeOK'
  BY <1>2 DEF IInv, TypeOK, EndLeaves, ondisk
<1>4. Active' = Active \ {p} /\ p \in Active
  BY <1>1 DEF IInv, Active
<1>5. Cardinality(Active') = Cardinality(Active) - 1
  BY <1>4, ActiveFinite, FS_RemoveElement
<1>6. ~Recovering
  BY <1>1, ActiveRests
<1>7. Control'
  <2>1. committing = 1 => Active' = {}
    BY <1>4 DEF IInv, Control
  <2>2. ~Recovering'
    BY <1>6 DEF EndLeaves, Recovering
  <2>3. outstanding' = Cardinality(Active')
    BY <1>5 DEF IInv, Control, EndLeaves
  <2>4. QED
    BY <2>1, <2>2, <2>3 DEF IInv, Control, EndLeaves
<1>8. Distinct' /\ Contents'
  BY ContentsSame DEF EndLeaves, IInv, TypeOK
<1>9. NoLostWakeup'
  BY <1>2 DEF NoLostWakeup
<1>10. Buffered'
  <2>1. \A q \in Procs : held[q] # {} => at'[q] = "op"
    BY <1>1 DEF IInv, Buffered
  <2>2. QED
    BY <2>1, BufferedSame DEF EndLeaves
<1>11. QED
  BY <1>3, <1>7, <1>8, <1>9, <1>10 DEF IInv

\* EndCommits keeps the invariant.
LEMMA EndCommitsStep ==
  ASSUME IInv, NEW p \in Procs, EndCommits(p)
  PROVE  IInv'
<1>1. phase = "none" /\ committing = 0 /\ at[p] = "op" /\ held[p] = {}
  BY ActiveRests DEF EndCommits, Inside
<1>2. Active' = Active \ {p} /\ p \in Active
  BY <1>1 DEF IInv, TypeOK, Active, EndCommits
<1>3. Cardinality(Active') = 0
  <2>1. Cardinality(Active \ {p}) = Cardinality(Active) - 1
    BY <1>2, ActiveFinite, FS_RemoveElement
  <2>2. Cardinality(Active) = 1
    BY DEF IInv, Control, EndCommits
  <2>3. QED
    BY <1>2, <2>1, <2>2
<1>4. Active' = {}
  <2>1. IsFiniteSet(Active')
    BY <1>2, ActiveFinite, FS_Subset
  <2>2. QED
    BY <1>3, <2>1, FS_EmptySet
<1>5. TypeOK'
  <2>1. phase' \in Phases /\ tail' \in Nat
    BY DEF Phases, EndCommits
  <2>2. at' \in [Procs -> {"user", "asleep", "retry", "op", "commit"}]
    BY DEF IInv, TypeOK, EndCommits
  <2>3. QED
    BY <2>1, <2>2 DEF IInv, TypeOK, EndCommits, ondisk
<1>6. Control'
  BY <1>3, <1>4 DEF Control, Recovering, EndCommits
<1>7. Distinct' /\ Clean'
  BY DEF IInv, Contents, Distinct, DistinctBlocks, Clean, EndCommits, ondisk
<1>8. Uncommitted'
  BY <1>1 DEF IInv, Contents, Uncommitted, EndCommits, ondisk
<1>9. lh # <<>> => 0 < Len(lh)
  BY InHeader DEF IInv, TypeOK
<1>10. Empty' /\ Logging' /\ Installing' /\ Installed'
  BY <1>9 DEF Empty, Logging, Installing, Installed, EndCommits
<1>11. NoLostWakeup'
  BY DEF NoLostWakeup, EndCommits
<1>12. Buffered'
  <2>1. Pinned' = Pinned
    BY DEF Pinned, EndCommits
  <2>2. \A q \in Procs : held[q] # {} => at'[q] = "op"
    BY <1>1 DEF IInv, TypeOK, Buffered, EndCommits
  <2>3. QED
    BY <2>1, <2>2 DEF IInv, Buffered, EndCommits
<1>13. QED
  BY <1>5, <1>6, <1>7, <1>8, <1>10, <1>11, <1>12 DEF IInv, Contents

\* The last critical section of end_op() keeps the invariant: it wakes every sleeper.
LEMMA EndDoneStep ==
  ASSUME IInv, NEW p \in Procs, EndDone(p)
  PROVE  IInv'
<1> USE WokenSleepers
<1>1. at' = [Woken EXCEPT ![p] = "user"] /\ at[p] = "commit"
  BY DEF EndDone
<1>2. at' \in [Procs -> {"user", "retry", "op", "commit"}]
  BY <1>1 DEF IInv
<1>3. TypeOK'
  BY <1>2 DEF IInv, TypeOK, Phases, EndDone, ondisk
<1>4. Active' = Active
  BY <1>1 DEF IInv, Active
<1>5. Control'
  BY <1>4 DEF IInv, Control, Recovering, EndDone
<1>6. lh = <<>> /\ head = <<>>
  BY DEF IInv, Contents, Empty, Uncommitted, EndDone
<1>7. Distinct' /\ Contents'
  BY <1>6 DEF IInv, Distinct, DistinctBlocks, Contents, Clean, Uncommitted, Empty, Logging,
         Installing, Installed, EndDone, ondisk
<1>8. NoLostWakeup'
  BY <1>2 DEF NoLostWakeup
<1>9. Buffered'
  <2>1. Pinned' = Pinned
    BY DEF Pinned, EndDone
  <2>2. \A q \in Procs : held[q] # {} => at'[q] = "op"
    BY <1>1 DEF IInv, Buffered
  <2>3. QED
    BY <2>1, <2>2 DEF IInv, Buffered, EndDone
<1>10. QED
  BY <1>3, <1>5, <1>7, <1>8, <1>9 DEF IInv

-----------------------------------------------------------------------------
\* A disk write leaves the processes where they are.
LEMMA ProcessesSame ==
  ASSUME IInv, UNCHANGED unlogged,
         Len(lh') = Len(lh) \/ committing = 1 \/ Recovering
  PROVE  Active' = Active /\ NoLostWakeup'
<1>1. UNCHANGED <<outstanding, committing, at>>
  BY DEF unlogged
<1>2. CASE Len(lh') = Len(lh)
  BY <1>1, <1>2 DEF IInv, NoLostWakeup, NoRoom, Active
<1>3. CASE committing = 1
  BY <1>1, <1>3 DEF NoLostWakeup, Active
<1>4. CASE Recovering
  BY <1>1, <1>4 DEF IInv, Control, NoLostWakeup, Active
<1>5. QED
  BY <1>2, <1>3, <1>4

\* It unlocks no buffer and makes none dirty: it may only free buffers.
LEMMA BuffersFreed ==
  ASSUME IInv, UNCHANGED unlogged, \A b \in Blocks : dirty'[b] => dirty[b],
         \/ phase' \in {"write_head", "install", "clear"}
         \/ phase' = "write_log" /\ tail' > 0
         => Len(lh') < NBUF
  PROVE  Buffered'
<1>1. UNCHANGED <<held, at>>
  BY DEF unlogged
<1>2. Pinned' \in SUBSET Pinned
  BY <1>1 DEF Pinned
<1>3. /\ Cardinality(Pinned') \in Nat /\ Cardinality(Pinned) \in Nat
      /\ Cardinality(Pinned') <= Cardinality(Pinned)
  BY <1>2, PinnedFinite DEF IInv
<1>4. Cardinality(Pinned') <= NBUF
  BY <1>3 DEF IInv, Buffered, LogAssumption
<1>5. QED
  BY <1>1, <1>4 DEF IInv, Buffered

\* The first bread() of write_log() finds a buffer: so the header is short enough.
LEMMA ShortEnough ==
  ASSUME IInv, write_log
  PROVE  Len(lh) < NBUF
<1>1. \A i \in 1..Len(lh) : lh[i] \in Pinned
  BY InHeader DEF IInv, TypeOK, Contents, Uncommitted, Pinned, write_log
<1>2. Len(lh) <= Cardinality(Pinned) /\ Len(lh) \in Nat /\ Cardinality(Pinned) \in Nat
  BY <1>1, HeaderFits, PinnedFinite DEF IInv, TypeOK, Distinct
<1>3. QED
  BY <1>2 DEF write_log, BufferFree, LogAssumption

\* WriteLog keeps the invariant.
LEMMA WriteLogStep ==
  ASSUME IInv, write_log
  PROVE  IInv'
<1>1. /\ phase = "write_log" /\ committing = 1 /\ head = <<>>
      /\ tail \in Nat /\ tail < Len(lh) /\ Len(lh) \in Nat /\ Len(lh) < NBUF
      /\ lh \in Seq(Blocks)
      /\ UNCHANGED <<disk, head, cache, dirty, lh, outstanding, committing, at>>
  BY ShortEnough
     DEF IInv, TypeOK, Control, Contents, Uncommitted, Logging, write_log, unlogged
<1>2. tail + 1 \in 1..Len(lh) /\ lh[tail + 1] \in Blocks
  BY <1>1, InHeader
<1>3. logged' = [logged EXCEPT ![tail + 1] = cache[lh[tail + 1]]]
  BY DEF write_log
<1>4. logged' \in [1..(LogBlocks - 1) -> Values] /\ cache[lh[tail + 1]] \in Values
  BY <1>2, <1>3 DEF IInv, TypeOK
<1>5. \A i \in 1..(tail + 1) : logged'[i] = cache[lh[i]]
  <2>1. logged \in [1..(LogBlocks - 1) -> Values] /\ \A i \in 1..tail : logged[i] = cache[lh[i]]
    BY <1>1 DEF IInv, TypeOK, Contents, Logging
  <2>2. LogBlocks \in Nat /\ tail + 1 \in 1..(LogBlocks - 1)
    BY <1>1, <1>2 DEF LogAssumption
  <2>3. TAKE i \in 1..(tail + 1)
  <2>4. CASE i = tail + 1
    BY <1>3, <2>1, <2>2, <2>4
  <2>5. CASE i # tail + 1
    <3>1. i \in 1..tail /\ i \in 1..(LogBlocks - 1)
      BY <1>1, <2>2, <2>3, <2>5
    <3>2. QED
      BY <1>3, <2>1, <2>5, <3>1
  <2>6. QED
    BY <2>4, <2>5
<1>6. \/ tail + 1 = Len(lh) /\ phase' = "write_head" /\ tail' = 0
      \/ tail + 1 < Len(lh) /\ phase' = "write_log" /\ tail' = tail + 1
  BY <1>1 DEF write_log, Advance
<1>7. TypeOK'
  <2>1. phase' \in Phases /\ tail' \in Nat
    BY <1>1, <1>6 DEF Phases
  <2>2. UNCHANGED <<disk, head, cache, dirty, lh, unlogged>>
    BY DEF write_log
  <2>3. QED
    BY <1>4, <2>1, <2>2 DEF IInv, TypeOK, unlogged
<1>8. Active' = Active /\ NoLostWakeup'
  BY <1>1, ProcessesSame DEF write_log
<1>9. Control'
  BY <1>1, <1>6, <1>8 DEF IInv, Control, Recovering
<1>10. Distinct' /\ Clean'
  BY <1>1 DEF IInv, Distinct, DistinctBlocks, Contents, Clean
<1>11. Uncommitted' /\ Empty' /\ Installing' /\ Installed'
  BY <1>1, <1>6 DEF IInv, Contents, Uncommitted, Empty, Installing, Installed
<1>12. Logging'
  <2>1. lh # <<>>
    BY <1>1, InHeader
  <2>2. QED
    BY <1>1, <1>5, <1>6, <2>1 DEF Logging
<1>13. Buffered'
  BY <1>1, BuffersFreed DEF write_log
<1>14. QED
  BY <1>7, <1>8, <1>9, <1>10, <1>11, <1>12, <1>13 DEF IInv, Contents

\* write_head() keeps the invariant: this single write commits.
LEMMA WriteHeadStep ==
  ASSUME IInv, write_head
  PROVE  IInv'
<1>1. /\ phase = "write_head" /\ committing = 1 /\ lh \in Seq(Blocks)
      /\ tail = 0 /\ lh # <<>> /\ head' = lh /\ phase' = "install" /\ Len(lh) < NBUF
      /\ UNCHANGED <<disk, logged, cache, dirty, lh, tail, unlogged>>
  BY DEF IInv, TypeOK, Control, Contents, Logging, Buffered, write_head
<1>2. TypeOK'
  BY <1>1 DEF IInv, TypeOK, Phases, unlogged
<1>3. Active' = Active /\ NoLostWakeup'
  BY <1>1, ProcessesSame
<1>4. Control'
  BY <1>1, <1>3 DEF IInv, Control, Recovering, unlogged
<1>5. Distinct' /\ Clean'
  BY <1>1 DEF IInv, Distinct, DistinctBlocks, Contents, Clean
<1>6. Uncommitted' /\ Empty' /\ Logging' /\ Installed'
  BY <1>1 DEF Uncommitted, Empty, Logging, Installed
<1>7. 0 < Len(lh) /\ \A i \in 1..Len(lh) : ~(i <= 0)
  BY <1>1, InHeader
<1>8. \A i \in 1..Len(lh) : cache[lh[i]] = logged[i] /\ dirty[lh[i]]
  BY <1>1 DEF IInv, Contents, Uncommitted, Logging
<1>9. Installing'
  BY <1>1, <1>7, <1>8 DEF Installing, unlogged
<1>10. Buffered'
  BY <1>1, BuffersFreed
<1>11. QED
  BY <1>2, <1>3, <1>4, <1>5, <1>6, <1>9, <1>10 DEF IInv, Contents

\* Install keeps the invariant.
LEMMA InstallStep ==
  ASSUME IInv, install_trans
  PROVE  IInv'
<1> DEFINE b == lh[tail + 1]
<1>1. /\ phase = "install" /\ head = lh
      /\ tail \in Nat /\ tail < Len(lh) /\ Len(lh) \in Nat /\ Len(lh) < NBUF
      /\ lh \in Seq(Blocks) /\ committing \in {0, 1}
      /\ UNCHANGED <<logged, head, lh, outstanding, committing, at>>
  BY DEF IInv, TypeOK, Contents, Installing, Buffered, install_trans, unlogged
<1>2. tail + 1 \in 1..Len(lh) /\ b \in Blocks /\ logged[tail + 1] \in Values
  <2>1. tail + 1 \in 1..Len(lh) /\ b \in Blocks
    BY <1>1, InHeader
  <2>2. tail + 1 \in 1..(LogBlocks - 1) /\ logged \in [1..(LogBlocks - 1) -> Values]
    BY <1>1 DEF IInv, TypeOK, LogAssumption
  <2>3. QED
    BY <2>1, <2>2
<1>3. \A i \in 1..Len(lh) : lh[i] \in Blocks /\ (lh[i] = b => i = tail + 1)
  BY <1>1, <1>2, InHeader DEF IInv, Distinct, DistinctBlocks
<1> HIDE DEF b
<1>4. /\ disk' = [disk EXCEPT ![b] = logged[tail + 1]]
      /\ cache' = [cache EXCEPT ![b] = logged[tail + 1]]
      /\ dirty' = [dirty EXCEPT ![b] = FALSE]
  BY DEF install_trans, b
<1>5. \/ tail + 1 = Len(lh) /\ phase' = "clear" /\ tail' = 0
      \/ tail + 1 < Len(lh) /\ phase' = "install" /\ tail' = tail + 1
  BY <1>1 DEF install_trans, Advance
<1>6. TypeOK'
  <2>1. disk' \in [Blocks -> Values] /\ cache' \in [Blocks -> Values]
    BY <1>2, <1>4 DEF IInv, TypeOK
  <2>2. dirty' \in [Blocks -> BOOLEAN]
    BY <1>4 DEF IInv, TypeOK
  <2>3. phase' \in Phases /\ tail' \in Nat
    BY <1>1, <1>5 DEF Phases
  <2>4. QED
    BY <1>1, <2>1, <2>2, <2>3 DEF IInv, TypeOK, install_trans, unlogged
<1>7. Active' = Active /\ NoLostWakeup'
  BY <1>1, ProcessesSame DEF install_trans
<1>8. Control'
  BY <1>1, <1>5, <1>7 DEF IInv, Control, Recovering
<1>9. Distinct'
  BY <1>1 DEF IInv, Distinct, DistinctBlocks
<1>10. Clean'
  <2>1. \A c \in Blocks : c # b => cache'[c] = cache[c] /\ disk'[c] = disk[c]
    BY <1>4 DEF IInv, TypeOK
  <2>2. disk'[b] = logged[tail + 1] /\ cache'[b] = logged[tail + 1]
    BY <1>2, <1>4 DEF IInv, TypeOK
  <2>3. QED
    BY <1>1, <2>1, <2>2 DEF IInv, Contents, Clean
<1>11. Uncommitted' /\ Empty' /\ Logging'
  BY <1>5 DEF Uncommitted, Empty, Logging
<1>12. ASSUME NEW i \in 1..Len(lh)
       PROVE  /\ i <= tail + 1 => disk'[lh[i]] = logged[i] /\ cache'[lh[i]] = logged[i]
              /\ i > tail + 1 => IF committing = 1
                                 THEN cache'[lh[i]] = logged[i] /\ dirty'[lh[i]]
                                 ELSE cache'[lh[i]] = disk'[lh[i]]
  <2>1. CASE i = tail + 1
    BY <1>1, <1>2, <1>4, <2>1 DEF IInv, TypeOK, b
  <2>2. CASE i # tail + 1
    <3>1. lh[i] # b /\ lh[i] \in Blocks
      BY <1>3, <2>2
    <3>2. /\ disk'[lh[i]] = disk[lh[i]] /\ cache'[lh[i]] = cache[lh[i]]
          /\ dirty'[lh[i]] = dirty[lh[i]]
      BY <1>4, <3>1 DEF IInv, TypeOK
    <3>3. (i <= tail + 1 => i <= tail) /\ (i > tail + 1 => i > tail)
      BY <1>1, <2>2
    <3>4. QED
      BY <1>1, <3>2, <3>3 DEF IInv, Contents, Installing
  <2>3. QED
    BY <2>1, <2>2
<1>13. Installing'
  BY <1>1, <1>5, <1>12 DEF Installing
<1>14. Installed'
  BY <1>1, <1>5, <1>12 DEF Installed
<1>15. Buffered'
  <2>1. \A c \in Blocks : dirty'[c] => dirty[c]
    BY <1>4 DEF IInv, TypeOK
  <2>2. QED
    BY <1>1, <2>1, BuffersFreed DEF install_trans
<1>16. QED
  BY <1>6, <1>7, <1>8, <1>9, <1>10, <1>11, <1>13, <1>14, <1>15 DEF IInv, Contents

\* ClearLog keeps the invariant.
LEMMA ClearLogStep ==
  ASSUME IInv, ClearLog
  PROVE  IInv'
<1>1. /\ phase = "clear" /\ head' = <<>> /\ lh' = <<>>
      /\ phase' = IF committing = 1 THEN "done" ELSE "none"
      /\ committing \in {0, 1}
      /\ UNCHANGED <<disk, logged, cache, dirty, tail, unlogged>>
  BY DEF IInv, TypeOK, ClearLog
<1>2. <<>> \in Seq(Blocks) /\ Len(<<>>) = 0 /\ 0 < NBUF /\ 0 <= NBUF
  <2>1. 0 < NBUF /\ 0 <= NBUF
    BY DEF LogAssumption
  <2>2. QED
    BY <2>1
<1>3. TypeOK'
  <2>1. \A h \in {head', lh'} : h \in Seq(Blocks) /\ Len(h) < NBUF /\ Len(h) <= NBUF
    BY <1>1, <1>2
  <2>2. QED
    BY <1>1, <2>1 DEF IInv, TypeOK, Phases, unlogged
<1>4. committing = 1 \/ Recovering
  BY <1>1 DEF Recovering
<1>5. Active' = Active /\ NoLostWakeup'
  BY <1>1, <1>4, ProcessesSame
<1>6. Control'
  BY <1>1, <1>4, <1>5 DEF IInv, Control, Recovering, unlogged
<1>7. Distinct'
  BY <1>1, <1>2 DEF Distinct, DistinctBlocks
<1>8. \A c \in Blocks : cache[c] = disk[c]
  <2>1. ASSUME NEW c \in Blocks, c \in ToSet(lh) PROVE cache[c] = disk[c]
    <3>1. PICK i \in 1..Len(lh) : lh[i] = c
      BY <2>1, InHeader DEF IInv, TypeOK
    <3>2. QED
      BY <1>1, <3>1 DEF IInv, Contents, Installed
  <2>2. QED
    BY <2>1 DEF IInv, Contents, Clean
<1>9. Clean'
  BY <1>1, <1>8 DEF Clean
<1>10. Uncommitted' /\ Empty' /\ Logging' /\ Installing' /\ Installed'
  BY <1>1, <1>2 DEF Uncommitted, Empty, Logging, Installing, Installed
<1>11. Buffered'
  BY <1>1, BuffersFreed
<1>12. QED
  BY <1>3, <1>5, <1>6, <1>7, <1>9, <1>10, <1>11 DEF IInv, Contents

\* ReadHead keeps the invariant.
LEMMA ReadHeadStep ==
  ASSUME IInv, read_head
  PROVE  IInv'
<1>1. /\ phase = "read_head" /\ lh' = head /\ lh = <<>> /\ tail = 0 /\ committing = 0
      /\ phase' = IF head = <<>> THEN "clear" ELSE "install"
      /\ UNCHANGED <<ondisk, cache, dirty, tail, unlogged>>
      /\ head \in Seq(Blocks) /\ Len(head) < NBUF /\ Len(head) <= NBUF
  BY DEF IInv, TypeOK, Control, Contents, Empty, Logging, read_head, LogAssumption
<1>2. TypeOK'
  BY <1>1 DEF IInv, TypeOK, Phases, ondisk, unlogged
<1>3. Active' = Active /\ NoLostWakeup'
  BY <1>1, ProcessesSame DEF Recovering
<1>4. Control'
  BY <1>1, <1>3 DEF IInv, Control, Recovering, unlogged
<1>5. Distinct'
  BY <1>1 DEF IInv, Distinct, DistinctBlocks, ondisk
<1>6. \A c \in Blocks : cache[c] = disk[c]
  <2>1. ToSet(lh) = {}
    BY <1>1 DEF ToSet
  <2>2. QED
    BY <2>1 DEF IInv, Contents, Clean
<1>7. Clean'
  BY <1>1, <1>6 DEF Clean, ondisk
<1>8. Uncommitted' /\ Empty' /\ Logging'
  BY <1>1 DEF Uncommitted, Empty, Logging
<1>9. Len(head) \in Nat /\ (head # <<>> => 0 < Len(head)) /\ (head = <<>> => Len(head) = 0)
  BY <1>1, InHeader
<1>10. \A i \in 1..Len(head) : head[i] \in Blocks /\ ~(i <= 0)
  BY <1>1, <1>9, InHeader
<1>11. Installing' /\ Installed'
  BY <1>1, <1>6, <1>9, <1>10 DEF Installing, Installed, ondisk, unlogged
<1>12. Buffered'
  BY <1>1, BuffersFreed
<1>13. QED
  BY <1>2, <1>3, <1>4, <1>5, <1>7, <1>8, <1>11, <1>12 DEF IInv, Contents

\* A buffer that may be recycled holds what the disk holds.
LEMMA RecycledSame ==
  ASSUME IInv, NEW b \in Blocks, Recycle(b)
  PROVE  UNCHANGED cache
<1>1. cache' = [cache EXCEPT ![b] = disk[b]] /\ ~dirty[b]
  BY DEF Recycle, Pinned
<1>2. ASSUME b \in ToSet(lh) PROVE cache[b] = disk[b]
  <2>1. PICK i \in 1..Len(lh) : lh[i] = b
    BY <1>2, InHeader DEF IInv, TypeOK
  <2>2. CASE phase \in {"none", "write_log", "write_head", "done"}
    BY <1>1, <2>1, <2>2 DEF IInv, Contents, Uncommitted
  <2>3. CASE phase = "install"
    <3>1. i <= tail \/ i > tail
      BY DEF IInv, TypeOK
    <3>2. QED
      BY <1>1, <2>1, <2>3, <3>1 DEF IInv, Contents, Installing
  <2>4. CASE phase = "clear"
    BY <2>1, <2>4 DEF IInv, Contents, Installed
  <2>5. CASE phase = "read_head"
    BY <1>2, <2>5 DEF IInv, Contents, Empty, ToSet
  <2>6. QED
    BY <2>2, <2>3, <2>4, <2>5 DEF IInv, TypeOK, Phases
<1>3. cache[b] = disk[b]
  BY <1>2 DEF IInv, Contents, Clean
<1>4. QED
  BY <1>1, <1>3 DEF IInv, TypeOK

\* The invariant depends on the variables only.
LEMMA StutterStep ==
  ASSUME IInv, UNCHANGED <<ondisk, cache, dirty, lh, phase, tail, unlogged>>
  PROVE  IInv'
<1>1. TypeOK'
  BY DEF IInv, TypeOK, ondisk, unlogged
<1>2. Control' /\ NoLostWakeup'
  BY DEF IInv, Control, Active, Recovering, NoLostWakeup, NoRoom, unlogged
<1>3. Distinct' /\ Contents'
  BY ContentsSame DEF unlogged, IInv, Contents, Empty
<1>4. Buffered'
  BY BufferedSame DEF IInv, Buffered, unlogged
<1>5. QED
  BY <1>1, <1>2, <1>3, <1>4 DEF IInv

\* A crash before any disk write keeps the invariant.
LEMMA CrashStep ==
  ASSUME IInv, Crash
  PROVE  IInv'
<1>1. TypeOK'
  <2>1. <<>> \in Seq(Blocks) /\ Len(<<>>) = 0 /\ 0 <= NBUF
    <3>1. 0 <= NBUF
      BY DEF LogAssumption
    <3>2. QED
      BY <3>1
  <2>2. lh' \in Seq(Blocks) /\ Len(lh') <= NBUF
    BY <2>1 DEF Crash, Boot
  <2>3. outstanding' \in Nat /\ tail' \in Nat /\ crashes' \in Nat
    BY DEF IInv, TypeOK, Crash, Boot
  <2>4. held' \in [Procs -> SUBSET Blocks] /\ wrote' \in [Procs -> SUBSET Blocks]
    BY DEF Crash, Boot
  <2>5. QED
    BY <2>2, <2>3, <2>4 DEF IInv, TypeOK, Phases, Crash, Boot, ondisk
<1>2. Active' = {}
  BY DEF Active, Crash, Boot
<1>3. Control'
  BY <1>2, FS_EmptySet DEF Control, Recovering, Crash, Boot
<1>4. Distinct'
  BY DEF IInv, Distinct, DistinctBlocks, Crash, Boot, ondisk
<1>5. Contents'
  BY DEF Contents, Clean, Uncommitted, Empty, Logging, Installing, Installed, Crash, Boot,
         ondisk
<1>6. NoLostWakeup'
  BY DEF NoLostWakeup, Crash, Boot
<1>7. Buffered'
  <2>1. Pinned' = {}
    BY DEF Pinned, Crash, Boot
  <2>2. Cardinality(Pinned') = 0
    BY <2>1, FS_EmptySet
  <2>3. QED
    BY <2>2 DEF Buffered, Crash, Boot, LogAssumption
<1>8. QED
  BY <1>1, <1>3, <1>4, <1>5, <1>6, <1>7 DEF IInv

-----------------------------------------------------------------------------
\* Every step, and every stutter, keeps the invariant.
LEMMA NextIInv == IInv /\ [Next]_vars => IInv'
<1> SUFFICES ASSUME IInv, [Next]_vars PROVE IInv'
  OBVIOUS
<1>1. ASSUME NEW p \in Procs,
             SleepBegin(p) \/ begin_op(p) \/ Kill(p) \/ EndOp(p) \/ CommitPanics(p)
      PROVE  IInv'
  BY <1>1, SleepBeginStep, BeginStep, KillStep, EndLeavesStep, EndCommitsStep, EndDoneStep,
     PanicStep DEF EndOp
<1>2. ASSUME NEW p \in Procs, NEW b \in Blocks,
             \/ TestSize(p, b) \/ log_writePanics(p, b) \/ bgetPanics(p, b)
             \/ \E v \in Values : log_write(p, b, v)
      PROVE  IInv'
  BY <1>2, TestStep, PanicStep, WriteStep
<1>3. CASE DiskStep
  BY <1>3, WriteLogStep, WriteHeadStep, InstallStep, ClearLogStep, ReadHeadStep DEF DiskStep
<1>4. ASSUME NEW b \in Blocks, Recycle(b) PROVE IInv'
  <2>1. UNCHANGED <<ondisk, cache, dirty, lh, phase, tail, unlogged>>
    BY <1>4, RecycledSame DEF Recycle
  <2>2. QED
    BY <2>1, StutterStep
<1>5. CASE Crash
  BY <1>5, CrashStep
<1>6. CASE UNCHANGED vars
  BY <1>6, StutterStep DEF vars, inmemory, unlogged
<1>7. QED
  BY <1>1, <1>2, <1>3, <1>4, <1>5, <1>6 DEF Next

\* The invariant holds in every reachable state.
THEOREM Invariance == Spec => []IInv
<1>1. QED
  BY InitIInv, NextIInv, PTL DEF Spec

-----------------------------------------------------------------------------
\* Recovered as a function of the disk d, the log blocks l and the header h.
RecoveredFrom(d, l, h) ==
  [b \in Blocks |->
     IF b \in ToSet(h) THEN l[CHOOSE i \in DOMAIN h : h[i] = b] ELSE d[b]]

\* Recovery takes the blocks the header names from the log and the others from their place.
LEMMA RecoveredBlocks ==
  ASSUME NEW d, NEW l, NEW h \in Seq(Blocks), DistinctBlocks(h)
  PROVE  /\ \A i \in 1..Len(h) : RecoveredFrom(d, l, h)[h[i]] = l[i]
         /\ \A b \in Blocks : b \notin ToSet(h) => RecoveredFrom(d, l, h)[b] = d[b]
<1>1. ASSUME NEW i \in 1..Len(h) PROVE RecoveredFrom(d, l, h)[h[i]] = l[i]
  <2>1. h[i] \in ToSet(h) /\ h[i] \in Blocks /\ DOMAIN h = 1..Len(h)
    BY InHeader
  <2>2. (CHOOSE j \in DOMAIN h : h[j] = h[i]) = i
    BY <2>1 DEF DistinctBlocks
  <2>3. QED
    BY <2>1, <2>2 DEF RecoveredFrom
<1>2. QED
  BY <1>1 DEF RecoveredFrom

\* The blocks decide what recovery makes of the disk.
LEMMA RecoveredUnique ==
  ASSUME NEW d, NEW l, NEW h \in Seq(Blocks), DistinctBlocks(h),
         NEW f, f = [b \in Blocks |-> f[b]],
         \A i \in 1..Len(h) : f[h[i]] = l[i],
         \A b \in Blocks : b \notin ToSet(h) => f[b] = d[b]
  PROVE  RecoveredFrom(d, l, h) = f
<1>1. ASSUME NEW b \in Blocks PROVE RecoveredFrom(d, l, h)[b] = f[b]
  <2>1. CASE b \in ToSet(h)
    <3>1. PICK i \in 1..Len(h) : h[i] = b
      BY <2>1, InHeader
    <3>2. QED
      BY <3>1, RecoveredBlocks
  <2>2. CASE b \notin ToSet(h)
    BY <2>2, RecoveredBlocks
  <2>3. QED
    BY <2>1, <2>2
<1>2. RecoveredFrom(d, l, h) = [b \in Blocks |-> RecoveredFrom(d, l, h)[b]]
  BY DEF RecoveredFrom
<1>3. QED
  BY <1>1, <1>2

\* Recovered, now and after a step, as a function of what is on disk.
LEMMA RecoveredIs ==
  /\ Recovered = RecoveredFrom(disk, logged, head)
  /\ Recovered' = RecoveredFrom(disk', logged', head')
  BY DEF Recovered, RecoveredFrom

\* With an empty header on disk, recovery changes nothing.
LEMMA NothingToRecover ==
  ASSUME TypeOK, head = <<>>
  PROVE  Recovered = disk
<1>1. \A b \in Blocks : b \notin ToSet(head)
  BY DEF ToSet
<1>2. Recovered = [b \in Blocks |-> disk[b]]
  BY <1>1 DEF Recovered
<1>3. QED
  BY <1>2 DEF TypeOK

\* Where the log is empty, the disk has what the cache has.
LEMMA Durable == IInv => FinishedDurable
<1> SUFFICES ASSUME IInv, ~Recovering, lh = <<>> PROVE Recovered = cache
  BY DEF FinishedDurable
<1>1. \A b \in Blocks : b \notin ToSet(lh)
  BY DEF ToSet
<1>2. cache = disk
  BY <1>1 DEF IInv, TypeOK, Contents, Clean
<1>3. head = <<>>
  <2>1. Len(lh) = 0
    OBVIOUS
  <2>2. CASE phase = "install"
    BY <2>1, <2>2 DEF IInv, TypeOK, Contents, Installing
  <2>3. CASE phase = "clear"
    BY <2>3 DEF IInv, Contents, Installed
  <2>4. CASE phase = "read_head"
    BY <2>4 DEF IInv, Control, Recovering
  <2>5. CASE phase \in {"none", "write_log", "write_head", "done"}
    BY <2>5 DEF IInv, Contents, Uncommitted
  <2>6. QED
    BY <2>2, <2>3, <2>4, <2>5 DEF IInv, TypeOK, Phases
<1>4. QED
  BY <1>2, <1>3, NothingToRecover DEF IInv

Mem == IF Recovering THEN Recovered ELSE cache
StoreVars == <<Mem, Recovered, Active>>

\* Steps of processes that write no block.
LEMMA BlocksSame ==
  ASSUME UNCHANGED <<ondisk, cache>>, Recovering' = Recovering
  PROVE  Recovered' = Recovered /\ Mem' = Mem
  BY DEF ondisk, Recovered, Mem

\* The calls of processes, seen as steps of the atomic store.
LEMMA ProcessRefines ==
  ASSUME IInv, NEW p \in Procs, SleepBegin(p) \/ begin_op(p) \/ Kill(p) \/ EndOp(p)
  PROVE  Store!Next \/ UNCHANGED StoreVars
<1>1. CASE SleepBegin(p) \/ Kill(p)
  <2>1. Active' = Active
    BY <1>1 DEF SleepBegin, Attempts, Kill, Active, IInv, TypeOK
  <2>2. QED
    BY <1>1, <2>1, BlocksSame DEF SleepBegin, Kill, Recovering, StoreVars
<1>2. CASE begin_op(p)
  <2>1. Active' = Active \cup {p} /\ p \notin Active
    BY <1>2 DEF begin_op, Attempts, Active, IInv, TypeOK
  <2>2. Recovered' = Recovered /\ Mem' = Mem
    BY <1>2, BlocksSame DEF begin_op, Recovering
  <2>3. Store!Begin(p)
    BY <2>1, <2>2 DEF Store!Begin, Active, Mem
  <2>4. QED
    BY <2>3 DEF Store!Next
<1>3. CASE EndLeaves(p) \/ EndCommits(p)
  <2>1. at[p] = "op" /\ ~Recovering /\ phase = "none"
    BY <1>3, ActiveRests DEF EndLeaves, EndCommits, Inside
  <2>2. Active' = Active \ {p} /\ p \in Active
    <3>1. CASE EndLeaves(p)
      BY <2>1, <3>1, WokenSleepers DEF EndLeaves, Active, IInv, TypeOK
    <3>2. CASE EndCommits(p)
      BY <2>1, <3>2 DEF EndCommits, Active, IInv, TypeOK
    <3>3. QED
      BY <1>3, <3>1, <3>2
  <2>3. Recovered' = Recovered /\ Mem' = Mem
    BY <1>3, <2>1, BlocksSame DEF EndLeaves, EndCommits, Recovering
  <2>4. Store!End(p)
    BY <2>2, <2>3 DEF Store!End, Active, Mem
  <2>5. QED
    BY <2>4 DEF Store!Next
<1>4. CASE EndDone(p)
  <2>1. Active' = Active
    BY <1>4, WokenSleepers DEF EndDone, Active, IInv, TypeOK
  <2>2. Recovering' = Recovering
    BY <1>4 DEF IInv, Control, EndDone, Recovering
  <2>3. Recovered' = Recovered /\ Mem' = Mem
    BY <1>4, <2>2, BlocksSame DEF EndDone
  <2>4. QED
    BY <2>1, <2>3 DEF StoreVars
<1>5. QED
  BY <1>1, <1>2, <1>3, <1>4 DEF EndOp

\* log_write() is a write to the store's volatile contents.
LEMMA WriteRefines ==
  ASSUME IInv, NEW p \in Procs, NEW b \in Blocks, NEW v \in Values, log_write(p, b, v)
  PROVE  Store!Next
<1>1. ~Recovering /\ p \in Active
  BY HolderActive, ActiveRests DEF log_write, Active
<1>2. ~Recovering'
  BY <1>1 DEF log_write, Recovering
<1>3. Recovered' = Recovered /\ Active' = Active
  BY DEF log_write, ondisk, Recovered, Active
<1>4. Mem' = [Mem EXCEPT ![b] = v]
  BY <1>1, <1>2 DEF Mem, log_write
<1>5. Store!Write(p, b, v)
  BY <1>1, <1>3, <1>4 DEF Store!Write, Active, Mem
<1>6. QED
  BY <1>5 DEF Store!Next

\* The commit point: the header on disk names what the log blocks hold.
LEMMA CommitRefines ==
  ASSUME IInv, IInv', write_head
  PROVE  Store!Next
<1>1. /\ phase = "write_head" /\ phase' = "install" /\ head' = lh
      /\ UNCHANGED <<disk, logged, cache, lh, at, committing>>
  BY DEF write_head, unlogged
<1>2. committing = 1 /\ ~Recovering /\ ~Recovering'
  BY <1>1 DEF IInv, Control, Recovering
<1>3. Active' = Active /\ Active = {}
  BY <1>1, <1>2 DEF IInv, Control, Active
<1>4. lh \in Seq(Blocks) /\ cache \in [Blocks -> Values] /\ DistinctBlocks(lh)
  BY DEF IInv, TypeOK, Distinct
<1>5. /\ \A i \in 1..Len(lh) : cache[lh[i]] = logged[i]
      /\ \A b \in Blocks : b \notin ToSet(lh) => cache[b] = disk[b]
  BY <1>1 DEF IInv, Contents, Logging, Clean
<1>6. RecoveredFrom(disk, logged, lh) = cache
  <2>1. cache = [b \in Blocks |-> cache[b]]
    BY <1>4
  <2>2. QED
    BY <1>4, <1>5, <2>1, RecoveredUnique
<1>7. Recovered' = Mem /\ Mem' = Mem
  BY <1>1, <1>2, <1>6, RecoveredIs DEF Mem
<1>8. Store!Commit
  BY <1>3, <1>7 DEF Store!Commit, Active, Mem
<1>9. QED
  BY <1>8 DEF Store!Next

\* The other writes change neither what recovery would make of the disk nor
\* what a call would read.
LEMMA WriteLogRefines ==
  ASSUME IInv, IInv', write_log
  PROVE  UNCHANGED StoreVars
<1>1. /\ UNCHANGED <<disk, cache, at, committing>>
      /\ committing = 1 /\ head = <<>> /\ head' = <<>>
  BY DEF IInv, Control, Contents, Uncommitted, write_log, unlogged
<1>2. Recovered = disk /\ Recovered' = disk'
  <2>1. \A b \in Blocks : b \notin ToSet(<<>>)
    BY DEF ToSet
  <2>2. Recovered = [b \in Blocks |-> disk[b]] /\ Recovered' = [b \in Blocks |-> disk'[b]]
    BY <1>1, <2>1 DEF Recovered
  <2>3. QED
    BY <2>2 DEF IInv, TypeOK
<1>3. ~Recovering /\ ~Recovering'
  BY <1>1 DEF Recovering
<1>4. Mem' = Mem
  BY <1>1, <1>3 DEF Mem
<1>5. QED
  BY <1>1, <1>2, <1>4 DEF StoreVars, Active

\* install_trans() is hidden: recovery already gave the new contents.
LEMMA InstallRefines ==
  ASSUME IInv, IInv', install_trans
  PROVE  UNCHANGED StoreVars
<1> DEFINE b == lh[tail + 1]
<1>1. /\ phase = "install" /\ head = lh /\ tail \in Nat /\ tail < Len(lh)
      /\ lh \in Seq(Blocks) /\ Len(lh) \in Nat /\ DistinctBlocks(lh)
      /\ UNCHANGED <<logged, head, lh, at, committing>>
  BY DEF IInv, TypeOK, Distinct, Contents, Installing, install_trans, unlogged
<1>2. tail + 1 \in 1..Len(lh) /\ b \in ToSet(lh) /\ b \in Blocks
  BY <1>1, InHeader
<1>3. disk' = [disk EXCEPT ![b] = logged[tail + 1]] /\ cache' = [cache EXCEPT ![b] = logged[tail + 1]]
  BY DEF install_trans
<1> HIDE DEF b
<1>4. Recovered' = Recovered
  <2>1. /\ \A i \in 1..Len(lh) : Recovered[lh[i]] = logged[i]
        /\ \A c \in Blocks : c \notin ToSet(lh) => Recovered[c] = disk[c]
    BY <1>1, RecoveredBlocks, RecoveredIs
  <2>2. \A c \in Blocks : c \notin ToSet(lh) => Recovered[c] = disk'[c]
    BY <1>2, <1>3, <2>1 DEF IInv, TypeOK
  <2>3. Recovered = [c \in Blocks |-> Recovered[c]]
    BY DEF Recovered
  <2>4. RecoveredFrom(disk', logged, lh) = Recovered
    BY <1>1, <2>1, <2>2, <2>3, RecoveredUnique
  <2>5. QED
    BY <1>1, <2>4, RecoveredIs
<1>5. Recovering' = Recovering
  BY <1>1 DEF install_trans, Advance, Recovering
<1>6. ASSUME ~Recovering PROVE cache' = cache
  <2>1. committing = 1
    BY <1>1, <1>6 DEF IInv, TypeOK, Recovering
  <2>2. cache[lh[tail + 1]] = logged[tail + 1]
    BY <1>1, <1>2, <2>1 DEF IInv, Contents, Installing
  <2>3. QED
    BY <1>3, <2>2 DEF IInv, TypeOK, b
<1>7. Mem' = Mem
  <2>1. CASE Recovering
    BY <1>4, <1>5, <2>1 DEF Mem
  <2>2. CASE ~Recovering
    BY <1>5, <1>6, <2>2 DEF Mem
  <2>3. QED
    BY <2>1, <2>2
<1>8. QED
  BY <1>1, <1>4, <1>7 DEF StoreVars, Active

\* Erasing the header is hidden: every block is installed.
LEMMA ClearRefines ==
  ASSUME IInv, IInv', ClearLog
  PROVE  UNCHANGED StoreVars
<1>1. /\ phase = "clear" /\ head = lh /\ head' = <<>> /\ lh' = <<>>
      /\ lh \in Seq(Blocks) /\ DistinctBlocks(lh) /\ disk \in [Blocks -> Values]
      /\ UNCHANGED <<disk, logged, cache, at, committing>>
  BY DEF IInv, TypeOK, Distinct, Contents, Installed, ClearLog, unlogged
<1>2. \A i \in 1..Len(lh) : disk[lh[i]] = logged[i]
  BY <1>1 DEF IInv, Contents, Installed
<1>3. RecoveredFrom(disk, logged, lh) = disk
  <2>1. disk = [b \in Blocks |-> disk[b]]
    BY <1>1
  <2>2. QED
    BY <1>1, <1>2, <2>1, RecoveredUnique
<1>4. RecoveredFrom(disk, logged, <<>>) = disk
  <2>1. \A b \in Blocks : b \notin ToSet(<<>>)
    BY DEF ToSet
  <2>2. RecoveredFrom(disk, logged, <<>>) = [b \in Blocks |-> disk[b]]
    BY <2>1 DEF RecoveredFrom
  <2>3. QED
    BY <1>1, <2>2
<1>5. Recovered = disk /\ Recovered' = disk
  BY <1>1, <1>3, <1>4, RecoveredIs
<1>6. cache = disk
  <2>1. \A b : b \notin ToSet(<<>>)
    BY DEF ToSet
  <2>2. \A b \in Blocks : cache'[b] = disk'[b]
    BY <1>1, <2>1 DEF IInv, Contents, Clean
  <2>3. QED
    BY <1>1, <2>2 DEF IInv, TypeOK
<1>7. Mem' = Mem
  BY <1>1, <1>5, <1>6 DEF Mem
<1>8. QED
  BY <1>1, <1>5, <1>7 DEF StoreVars, Active

\* Steps that change neither the cache nor what recovery gives are hidden.
LEMMA OtherRefines ==
  ASSUME IInv, read_head \/ UNCHANGED vars
               \/ (\E b \in Blocks : Recycle(b))
               \/ (\E p \in Procs : CommitPanics(p))
               \/ (\E p \in Procs, b \in Blocks :
                     TestSize(p, b) \/ log_writePanics(p, b) \/ bgetPanics(p, b))
  PROVE  UNCHANGED StoreVars
<1>1. CASE read_head
  <2>1. Recovering' = Recovering
    BY <1>1 DEF IInv, Control, read_head, Recovering, unlogged
  <2>2. QED
    BY <1>1, <2>1, BlocksSame DEF read_head, StoreVars, Active, unlogged
<1>2. ASSUME UNCHANGED <<ondisk, cache, at, phase, committing>> PROVE UNCHANGED StoreVars
  BY <1>2, BlocksSame DEF StoreVars, Active, Recovering
<1>3. QED
  BY <1>1, <1>2, RecycledSame
     DEF vars, inmemory, TestSize, log_writePanics, bgetPanics, CommitPanics, Recycle, unlogged

\* A crash takes the store back to its durable contents.
LEMMA CrashRefines ==
  ASSUME IInv, Crash
  PROVE  Store!Next
<1>1. Recovering' /\ Recovered' = Recovered
  BY DEF Crash, Boot, Recovering, ondisk, Recovered
<1>2. Active' = {}
  BY DEF Crash, Boot, Active
<1>3. Store!Crash
  BY <1>1, <1>2 DEF Store!Crash, Active
<1>4. QED
  BY <1>3 DEF Store!Next

\* Every step of the log is a step of the atomic store or hidden from it.
LEMMA StepRefines == IInv /\ IInv' /\ [Next]_vars => [Store!Next]_StoreVars
<1> SUFFICES ASSUME IInv, IInv', [Next]_vars PROVE Store!Next \/ UNCHANGED StoreVars
  OBVIOUS
<1>1. ASSUME NEW p \in Procs, NEW b \in Blocks, NEW v \in Values, log_write(p, b, v)
      PROVE  Store!Next
  BY <1>1, WriteRefines
<1>2. CASE DiskStep
  BY <1>2, WriteLogRefines, CommitRefines, InstallRefines, ClearRefines, OtherRefines
     DEF DiskStep
<1>3. QED
  BY <1>1, <1>2, ProcessRefines, OtherRefines, CrashRefines DEF Next

-----------------------------------------------------------------------------
\* log.c: what waits in no transaction is on disk, or will be after recovery.
THEOREM FinishedAreDurable == Spec => [](TypeOK /\ FinishedDurable)
<1>1. IInv => TypeOK /\ FinishedDurable
  BY Durable DEF IInv
<1>2. QED
  BY <1>1, Invariance, PTL

\* log.c: a process asleep in begin_op() will be woken by a commit or a call.
THEOREM WakeupsNotLost == Spec => []NoLostWakeup
<1>1. IInv => NoLostWakeup
  BY DEF IInv
<1>2. QED
  BY <1>1, Invariance, PTL

\* log.c: the group commit implements an atomic store that survives crashes.
THEOREM Refinement == Spec => ImplementsAtomicStore
<1>1. Init => Store!Init
  <2> SUFFICES ASSUME Init PROVE Store!Init
    OBVIOUS
  <2>1. IInv /\ head = <<>> /\ Recovering /\ disk \in [Blocks -> Values]
    BY InitIInv DEF Init, IInv, TypeOK, Recovering
  <2>2. Recovered = disk
    BY <2>1, NothingToRecover DEF IInv
  <2>3. Active = {}
    BY DEF Init, Active
  <2>4. QED
    BY <2>1, <2>2, <2>3 DEF Store!Init, Active
<1>2. IInv /\ IInv' /\ [Next]_vars =>
        [Store!Next]_<<IF Recovering THEN Recovered ELSE cache, Recovered,
                       {p \in Procs : at[p] = "op"}>>
  BY StepRefines DEF StoreVars, Mem, Active
<1>3. QED
  BY <1>1, <1>2, Invariance, PTL DEF Spec, ImplementsAtomicStore, Store!Spec

-----------------------------------------------------------------------------
(* The reservation of begin_op(). *)

\* What the theorem assumes of the constants: a call changes fewer blocks than
\* begin_op() reserves, one reservation does not fill the log, and NBUF is LOGSIZE.
Ample == OpBlocks < MAXOPBLOCKS /\ MAXOPBLOCKS < LOGSIZE /\ NBUF = LOGSIZE

\* How many blocks each call in progress has drawn from its reservation.
Drawn == [p \in Procs |-> IF p \in Active THEN Cardinality(wrote[p]) ELSE 0]
AllDrawn == SumFunctionOnSet(Drawn, Procs)

\* What begin_op() has reserved for the calls in progress.
Booked == outstanding * MAXOPBLOCKS

\* The buffers in the hands of the calls, and those that are dirty.
Locked == UNION {held[p] : p \in Procs}
Dirty == {b \in Blocks : dirty[b]}

\* What a call has written is in the header, and it stays below its reservation.
Owned ==
  /\ \A p \in Active : wrote[p] \subseteq ToSet(lh) /\ Cardinality(wrote[p] \cup held[p]) <= OpBlocks
  /\ \A p \in Procs : held[p] # {} => \E b \in Blocks : held[p] = {b}

\* A dirty buffer is one of the header that is not installed yet.
Located ==
  \A b \in Blocks : dirty[b] =>
    \E i \in 1..Len(lh) : lh[i] = b /\ phase # "clear" /\ (phase = "install" => i > tail)

\* The header and what the calls may still draw fit in the log.  One block is
\* left over: a call that is alone either started the header, or came while
\* another one was there, which has not drawn all that it reserved.
Room ==
  /\ outstanding > 0 => Len(lh) + Booked - AllDrawn <= LOGSIZE
  /\ outstanding = 1 =>
       \/ ToSet(lh) \subseteq UNION {wrote[p] : p \in Active}
       \/ Len(lh) + MAXOPBLOCKS - AllDrawn <= LOGSIZE - 1
  /\ phase = "write_log" => Len(lh) <= LOGSIZE - 2

Reserved == panicked = {} /\ Owned /\ Located /\ Room

\* One reservation more.
LEMMA Product ==
  ASSUME NEW n \in Nat, NEW k \in Nat
  PROVE  n * k \in Nat /\ (n + 1) * k \in Nat /\ (n + 1) * k = n * k + k
  OBVIOUS

\* What is used of the constants, and of the number of calls.
LEMMA Numbers ==
  ASSUME IInv, Ample
  PROVE  /\ MAXOPBLOCKS \in Nat /\ LOGSIZE \in Nat /\ NBUF \in Nat /\ LogBlocks \in Nat
         /\ OpBlocks \in Nat /\ OpBlocks <= MAXOPBLOCKS - 1 /\ MAXOPBLOCKS <= LOGSIZE - 1
         /\ NBUF = LOGSIZE /\ LOGSIZE <= LogBlocks
         /\ outstanding \in Nat /\ Len(lh) \in Nat /\ lh \in Seq(Blocks)
         /\ Booked \in Nat /\ (outstanding = 1 => Booked = MAXOPBLOCKS)
<1>1. /\ MAXOPBLOCKS \in Nat /\ LOGSIZE \in Nat /\ NBUF \in Nat /\ LogBlocks \in Nat
      /\ OpBlocks \in Nat /\ NBUF <= LogBlocks
  BY DEF LogAssumption
<1>2. outstanding \in Nat /\ lh \in Seq(Blocks)
  BY DEF IInv, TypeOK
<1>3. OpBlocks < MAXOPBLOCKS /\ MAXOPBLOCKS < LOGSIZE /\ NBUF = LOGSIZE
  BY DEF Ample
<1>4. Booked \in Nat /\ (outstanding = 1 => Booked = MAXOPBLOCKS)
  BY <1>1, <1>2 DEF Booked
<1>5. QED
  BY <1>1, <1>2, <1>3, <1>4

\* The draws are numbers, and each is less than a reservation.
LEMMA Draws ==
  ASSUME IInv, Ample, Owned
  PROVE  /\ \A p \in Procs : wrote[p] \subseteq Blocks /\ IsFiniteSet(wrote[p])
         /\ \A p \in Procs : Drawn[p] \in Nat /\ Drawn[p] <= MAXOPBLOCKS - 1
         /\ \A p \in Procs : p \notin Active => Drawn[p] = 0
         /\ AllDrawn \in Nat
         /\ AllDrawn <= Booked - outstanding
<1>1. \A p \in Procs : /\ wrote[p] \subseteq Blocks /\ held[p] \subseteq Blocks
  BY DEF IInv, TypeOK
<1>2. \A p \in Procs : IsFiniteSet(wrote[p]) /\ IsFiniteSet(wrote[p] \cup held[p])
  BY <1>1, FS_Subset DEF LogAssumption
<1>3. ASSUME NEW p \in Active
      PROVE  Cardinality(wrote[p]) \in Nat /\ Cardinality(wrote[p]) <= MAXOPBLOCKS - 1
  <2> DEFINE U == wrote[p] \cup held[p]
  <2>1. p \in Procs /\ Cardinality(U) <= OpBlocks
    BY DEF Active, Owned
  <2>2. IsFiniteSet(U) /\ wrote[p] \in SUBSET U
    BY <1>2, <2>1
  <2> HIDE DEF U
  <2>3. Cardinality(U) \in Nat /\ Cardinality(wrote[p]) <= Cardinality(U)
    BY <2>2, FS_Subset, FS_CardinalityType
  <2>4. Cardinality(wrote[p]) \in Nat
    BY <1>2, <2>1, FS_CardinalityType
  <2>5. QED
    BY <2>1, <2>3, <2>4, Numbers
<1>4. \A p \in Procs : /\ Drawn[p] \in Nat /\ Drawn[p] <= MAXOPBLOCKS - 1
                       /\ p \notin Active => Drawn[p] = 0
  BY <1>3, Numbers DEF Drawn
<1>5. IsFiniteSet(Procs) /\ Procs \cap Active = Active
  BY DEF LogAssumption, Active
<1>6. AllDrawn \in Nat
  <2>1. \A p \in Procs : Drawn[p] \in Int /\ Drawn[p] >= 0
    BY <1>4
  <2>2. QED
    BY <1>5, <2>1, SumType DEF AllDrawn
<1>7. AllDrawn <= Booked - outstanding
  <2> DEFINE k == MAXOPBLOCKS - 1
  <2>1. k \in Nat /\ MAXOPBLOCKS = k + 1
    BY Numbers
  <2>2. \A p \in Procs : Drawn[p] \in Int /\ Drawn[p] <= IF p \in Active THEN k ELSE 0
    BY <1>4
  <2> HIDE DEF k
  <2>3. AllDrawn <= k * Cardinality(Procs \cap Active)
    BY <1>5, <2>1, <2>2, SumAtMost DEF AllDrawn
  <2>4. Cardinality(Procs \cap Active) = outstanding
    BY <1>5 DEF IInv, Control
  <2>5. outstanding \in Nat
    BY Numbers
  <2>6. k * outstanding = outstanding * (k + 1) - outstanding
    BY <2>1, <2>5
  <2>7. Booked = outstanding * (k + 1)
    BY <2>1 DEF Booked
  <2>8. QED
    BY <2>3, <2>4, <2>6, <2>7
<1>8. QED
  BY <1>1, <1>2, <1>4, <1>6, <1>7

\* While calls are in progress, one more block fits, and a block for each of them.
LEMMA RoomLeft ==
  ASSUME IInv, Ample, Reserved, outstanding > 0
  PROVE  Len(lh) <= LOGSIZE - 2 /\ Len(lh) + outstanding <= LOGSIZE
<1>1. Owned /\ Room
  BY DEF Reserved
<1>2. /\ AllDrawn \in Nat /\ AllDrawn <= Booked - outstanding
      /\ Len(lh) + Booked - AllDrawn <= LOGSIZE
  BY <1>1, Draws DEF Room
<1>3. Len(lh) + outstanding <= LOGSIZE
  BY <1>2, Numbers
<1>4. CASE outstanding > 1
  BY <1>3, <1>4, Numbers
<1>5. CASE outstanding = 1
  <2>1. CASE ToSet(lh) \subseteq UNION {wrote[p] : p \in Active}
    <3>1. PICK p \in Active : Active = {p}
      <4>1. IsFiniteSet(Active) /\ Cardinality(Active) = 1
        BY <1>5, ActiveFinite DEF IInv, Control
      <4>2. PICK p \in Active : TRUE
        BY <4>1, FS_EmptySet
      <4>3. IsFiniteSet(Active \ {p}) /\ Cardinality(Active \ {p}) = 0
        BY <4>1, FS_RemoveElement
      <4>4. Active \ {p} = {}
        BY <4>3, FS_EmptySet
      <4>5. QED
        BY <4>4
    <3>2. p \in Procs /\ ToSet(lh) \subseteq wrote[p]
      BY <2>1, <3>1 DEF Active
    <3>3. IsFiniteSet(wrote[p]) /\ Drawn[p] <= MAXOPBLOCKS - 1 /\ Drawn[p] = Cardinality(wrote[p])
      BY <1>1, <3>1, <3>2, Draws DEF Drawn
    <3>4. \A i \in 1..Len(lh) : lh[i] \in wrote[p]
      BY <3>2, Numbers, InHeader
    <3>5. Len(lh) <= Cardinality(wrote[p])
      BY <3>3, <3>4, Numbers, HeaderFits DEF IInv, Distinct
    <3>6. Drawn[p] \in Nat
      BY <1>1, <3>2, Draws
    <3>7. QED
      BY <1>3, <1>5, <3>3, <3>5, <3>6, Numbers
  <2>2. CASE Len(lh) + MAXOPBLOCKS - AllDrawn <= LOGSIZE - 1
    <3>1. AllDrawn <= MAXOPBLOCKS - 1
      BY <1>2, <1>5, Numbers
    <3> DEFINE l == Len(lh)
               a == AllDrawn
    <3>2. l \in Nat /\ a \in Nat /\ MAXOPBLOCKS \in Nat /\ LOGSIZE \in Nat
      BY <1>2, Numbers
    <3>3. l + MAXOPBLOCKS - a <= LOGSIZE - 1 /\ a <= MAXOPBLOCKS - 1
      BY <2>2, <3>1
    <3> HIDE DEF l, a
    <3>4. l <= LOGSIZE - 2
      BY <3>2, <3>3
    <3>5. QED
      BY <1>3, <3>4 DEF l
  <2>3. QED
    BY <1>1, <1>5, <2>1, <2>2 DEF Room
<1>6. QED
  BY <1>3, <1>4, <1>5, Numbers

\* The dirty buffers are no more than the blocks of the header.
LEMMA DirtyCount ==
  ASSUME IInv, Ample, Located
  PROVE  IsFiniteSet(Dirty) /\ Cardinality(Dirty) \in Nat /\ Cardinality(Dirty) <= Len(lh)
<1> DEFINE D == Dirty
           n == Len(lh)
           f == [i \in 1..n |-> lh[i]]
           R == {lh[i] : i \in 1..n}
<1>1. n \in Nat
  BY Numbers
<1>2. D \in SUBSET R
  BY DEF Located, Dirty
<1>3. f \in Surjection(1..n, R)
  BY DEF Surjection
<1> HIDE DEF D, f, R, n
<1>4. IsFiniteSet(1..n) /\ Cardinality(1..n) = n
  <2>1. 1 \in Int /\ n \in Int
    BY <1>1
  <2>2. IsFiniteSet(1..n) /\ Cardinality(1..n) = IF 1 > n THEN 0 ELSE n - 1 + 1
    BY ONLY <2>1, FS_Interval, Zenon
  <2>3. QED
    BY <1>1, <2>2
<1>5. IsFiniteSet(R) /\ Cardinality(R) <= Cardinality(1..n)
  BY <1>3, <1>4, FS_Surjection
<1>6. IsFiniteSet(D) /\ Cardinality(D) <= Cardinality(R)
  BY <1>2, <1>5, FS_Subset
<1>7. Cardinality(D) \in Nat /\ Cardinality(R) \in Nat
  BY <1>5, <1>6, FS_CardinalityType
<1>8. Cardinality(D) <= n
  BY <1>1, <1>4, <1>5, <1>6, <1>7
<1>9. QED
  BY <1>6, <1>7, <1>8 DEF D, n

\* Each call in progress has at most one buffer in hand.
LEMMA InHand ==
  ASSUME IInv, Owned, NEW p \in Active, held[p] = {}, NEW b \in Blocks
  PROVE  /\ IsFiniteSet(Locked \cup {b}) /\ Cardinality(Locked \cup {b}) \in Nat
         /\ Cardinality(Locked \cup {b}) <= outstanding
<1> DEFINE U == Locked
           H == U \cup {b}
           g(c) == IF c \in U THEN CHOOSE q \in Procs : c \in held[q] ELSE p
           f == [c \in H |-> g(c)]
<1>1. ASSUME NEW c \in U PROVE g(c) \in Procs /\ c \in held[g(c)] /\ g(c) \in Active
  <2>1. \E q \in Procs : c \in held[q]
    BY DEF Locked
  <2>2. g(c) \in Procs /\ c \in held[g(c)]
    BY <2>1
  <2>3. at[g(c)] = "op"
    BY <2>2 DEF IInv, Buffered
  <2>4. QED
    BY <2>2, <2>3 DEF Active
<1>2. ASSUME NEW c \in H, NEW d \in H, g(c) = g(d) PROVE c = d
  <2>1. CASE c \in U /\ d \in U
    <3>1. c \in held[g(c)] /\ d \in held[g(c)] /\ g(c) \in Procs
      BY <1>1, <1>2, <2>1
    <3>2. PICK x \in Blocks : held[g(c)] = {x}
      BY <3>1 DEF Owned
    <3>3. QED
      BY <3>1, <3>2
  <2>2. CASE c \in U /\ d \notin U
    BY <1>1, <1>2, <2>2
  <2>3. CASE c \notin U /\ d \in U
    BY <1>1, <1>2, <2>3
  <2>4. CASE c \notin U /\ d \notin U
    BY <2>4
  <2>5. QED
    BY <2>1, <2>2, <2>3, <2>4
<1>3. \A c \in H : g(c) \in Active
  BY <1>1
<1> HIDE DEF g, U
<1>4. f \in Injection(H, Active)
  BY <1>2, <1>3 DEF Injection, IsInjective
<1> HIDE DEF H, f
<1>5. IsFiniteSet(H) /\ Cardinality(H) <= Cardinality(Active)
  BY <1>4, ActiveFinite, FS_Injection
<1>6. Cardinality(H) \in Nat /\ Cardinality(H) <= outstanding
  BY <1>5, FS_CardinalityType DEF IInv, Control
<1>7. QED
  BY <1>5, <1>6 DEF H, U

\* So a call that wants a block finds room in the log and a buffer.
LEMMA NoPanicInCall ==
  ASSUME IInv, Ample, Reserved, NEW p \in Procs, NEW b \in Blocks, WantsToChange(p, b)
  PROVE  ~TooBig /\ HasBuffer(b)
<1>1. p \in Active /\ held[p] = {} /\ at[p] = "op"
  BY DEF WantsToChange, Inside, Active
<1>2. outstanding > 0
  BY <1>1, ActiveRests
<1>3. Len(lh) <= LOGSIZE - 2 /\ Len(lh) + outstanding <= LOGSIZE
  BY <1>2, RoomLeft
<1>4. ~TooBig
  BY <1>3, Numbers DEF TooBig
<1> DEFINE D == Dirty
           H == Locked \cup {b}
<1>5. IsFiniteSet(D) /\ Cardinality(D) \in Nat /\ Cardinality(D) <= Len(lh)
  BY DirtyCount DEF Reserved
<1>6. IsFiniteSet(H) /\ Cardinality(H) \in Nat /\ Cardinality(H) <= outstanding
  BY <1>1, InHand DEF Reserved
<1>7. Pinned \cup {b} = D \cup H
  BY DEF Pinned, Dirty, Locked
<1> HIDE DEF D, H
<1>8. Cardinality(D \cup H) <= Cardinality(D) + Cardinality(H)
  <2>1. IsFiniteSet(D \cap H)
    BY <1>5, FS_Subset
  <2>2. Cardinality(D \cap H) \in Nat
    BY <2>1, FS_CardinalityType
  <2>3. Cardinality(D \cup H) = Cardinality(D) + Cardinality(H) - Cardinality(D \cap H)
    BY <1>5, <1>6, FS_Union
  <2>4. QED
    BY <1>5, <1>6, <2>2, <2>3
<1>9. Cardinality(D \cup H) \in Nat
  BY <1>5, <1>6, FS_Union, FS_CardinalityType
<1>10. Cardinality(D \cup H) <= NBUF
  <2> DEFINE u == Cardinality(D \cup H)
             d == Cardinality(D)
             h == Cardinality(H)
             l == Len(lh)
  <2>1. /\ u \in Nat /\ d \in Nat /\ h \in Nat /\ l \in Nat /\ outstanding \in Nat
        /\ u <= d + h /\ d <= l /\ h <= outstanding
    BY <1>5, <1>6, <1>8, <1>9, Numbers
  <2>2. l + outstanding <= NBUF /\ NBUF \in Nat
    BY <1>3, Numbers
  <2> HIDE DEF u, d, h, l
  <2>3. u <= NBUF
    BY <2>1, <2>2
  <2>4. QED
    BY <2>3 DEF u
<1>11. HasBuffer(b)
  BY <1>7, <1>10 DEF HasBuffer
<1>12. QED
  BY <1>4, <1>11

\* And the commit finds one.
LEMMA NoPanicInCommit ==
  ASSUME IInv, Ample, Reserved, phase = "write_log"
  PROVE  BufferFree
<1>1. Active = {}
  BY DEF IInv, Control
<1>2. \A q \in Procs : held[q] = {}
  BY <1>1 DEF IInv, Buffered, Active
<1>3. Pinned = Dirty
  BY <1>2 DEF Pinned, Dirty
<1>4. Cardinality(Dirty) \in Nat /\ Cardinality(Dirty) <= Len(lh)
  BY DirtyCount DEF Reserved
<1>5. Len(lh) <= LOGSIZE - 2
  BY DEF Reserved, Room
<1>6. QED
  BY <1>3, <1>4, <1>5, Numbers DEF BufferFree

-----------------------------------------------------------------------------
\* When no call is in progress, only the header counts.
LEMMA ReservedIdle ==
  ASSUME IInv', panicked' = {}, Active' = {}, Located',
         phase' = "write_log" => Len(lh') <= LOGSIZE - 2
  PROVE  Reserved'
<1>1. outstanding' = 0
  BY FS_EmptySet DEF IInv, Control
<1>2. \A p \in Procs : held'[p] = {}
  BY DEF IInv, Buffered, Active
<1>3. Owned'
  BY <1>2 DEF Owned
<1>4. Room'
  BY <1>1 DEF Room
<1>5. QED
  BY <1>3, <1>4 DEF Reserved

\* A step that leaves the calls in progress and the header as they are.
LEMMA ReservedSame ==
  ASSUME IInv, Reserved, UNCHANGED <<lh, dirty, wrote, held, panicked, outstanding, phase, tail>>,
         Active' = Active
  PROVE  Reserved'
<1>1. Owned' /\ Located'
  BY DEF Reserved, Owned, Located
<1>2. AllDrawn' = AllDrawn
  BY DEF AllDrawn, Drawn
<1>3. Room'
  BY <1>2 DEF Reserved, Room, Booked
<1>4. QED
  BY <1>1, <1>3 DEF Reserved

\* begin_op() reserves for one call more.
LEMMA BeginReserves ==
  ASSUME IInv, Ample, Reserved, NEW p \in Procs, begin_op(p)
  PROVE  Reserved'
<1>1. /\ committing = 0 /\ ~Recovering /\ ~NoRoom /\ at[p] # "op"
      /\ outstanding' = outstanding + 1 /\ wrote' = [wrote EXCEPT ![p] = {}]
      /\ UNCHANGED <<dirty, lh, phase, tail, panicked, held>>
  BY DEF begin_op, Attempts
<1>2. Active' = Active \cup {p} /\ p \notin Active
  BY DEF begin_op, Attempts, Active, IInv, TypeOK
<1>3. held[p] = {}
  BY <1>1 DEF IInv, Buffered
<1>4. \A q \in Procs : wrote'[q] = IF q = p THEN {} ELSE wrote[q]
  BY <1>1 DEF IInv, TypeOK
<1>5. Cardinality({}) = 0 /\ Cardinality(wrote'[p] \cup held[p]) = 0
  BY <1>3, <1>4, FS_EmptySet
<1>6. Owned'
  <2>1. ASSUME NEW q \in Active'
        PROVE  wrote'[q] \subseteq ToSet(lh) /\ Cardinality(wrote'[q] \cup held[q]) <= OpBlocks
    <3>1. CASE q = p
      BY <1>4, <1>5, <3>1, Numbers
    <3>2. CASE q # p
      <4>1. q \in Active /\ q \in Procs /\ wrote'[q] = wrote[q]
        BY <1>2, <1>4, <3>2 DEF Active
      <4>2. QED
        BY <4>1 DEF Reserved, Owned
    <3>3. QED
      BY <3>1, <3>2
  <2>2. QED
    BY <1>1, <2>1 DEF Reserved, Owned
<1>7. Located'
  BY <1>1 DEF Reserved, Located
<1>8. AllDrawn' = AllDrawn
  <2>1. \A q \in Procs : Drawn'[q] = Drawn[q]
    BY <1>2, <1>4, <1>5 DEF Drawn
  <2>2. Drawn' = [q \in Procs |-> Drawn'[q]] /\ Drawn = [q \in Procs |-> Drawn[q]]
    BY DEF Drawn
  <2>3. Drawn' = Drawn
    BY <2>1, <2>2
  <2>4. QED
    BY <2>3 DEF AllDrawn
<1>9. AllDrawn \in Nat
  BY Draws DEF Reserved
<1>10. Booked' = Booked + MAXOPBLOCKS /\ Len(lh) + Booked' <= LOGSIZE
  <2>1. outstanding \in Nat /\ MAXOPBLOCKS \in Nat /\ Len(lh) \in Nat /\ LOGSIZE \in Nat
    BY Numbers
  <2>2. Booked' = (outstanding + 1) * MAXOPBLOCKS
    BY <1>1 DEF Booked
  <2>3. (outstanding + 1) * MAXOPBLOCKS = outstanding * MAXOPBLOCKS + MAXOPBLOCKS
    BY <2>1, Product
  <2>4. (outstanding + 1) * MAXOPBLOCKS \in Nat
    BY <2>1, Product
  <2>5. Len(lh) + Booked' <= LOGSIZE
    BY <1>1, <2>1, <2>2, <2>4 DEF NoRoom
  <2>6. QED
    BY <2>2, <2>3, <2>5 DEF Booked
<1>11. outstanding = 0 => ToSet(lh) = {}
  BY <1>1, Resting DEF ToSet
<1>12. phase = "none"
  BY <1>1, Resting
<1>13. Room'
  <2>1. Len(lh) + Booked' - AllDrawn <= LOGSIZE
    <3> DEFINE l == Len(lh)
               booked == Booked'
               drawn == AllDrawn
    <3>1. /\ l \in Nat /\ booked \in Nat /\ drawn \in Nat /\ LOGSIZE \in Nat
          /\ l + booked <= LOGSIZE
      <4>1. Booked \in Nat /\ MAXOPBLOCKS \in Nat
        BY Numbers
      <4>2. Booked' \in Nat
        BY <1>10, <4>1
      <4>3. QED
        BY <1>9, <1>10, <4>2, Numbers
    <3> HIDE DEF l, booked, drawn
    <3>2. l + booked - drawn <= LOGSIZE
      BY <3>1
    <3>3. QED
      BY <3>2 DEF l, booked, drawn
  <2>2. outstanding' = 1 => ToSet(lh) = {}
    <3>1. outstanding \in Nat /\ outstanding' = outstanding + 1
      BY <1>1, Numbers
    <3>2. outstanding' = 1 => outstanding = 0
      BY <3>1
    <3>3. QED
      BY <1>11, <3>2
  <2>3. QED
    BY <1>1, <1>8, <1>12, <2>1, <2>2 DEF Room
<1>14. QED
  BY <1>1, <1>6, <1>7, <1>13 DEF Reserved

\* The test of log_write() takes one more block in hand, within the reservation.
LEMMA TestReserves ==
  ASSUME IInv, Ample, Reserved, NEW p \in Procs, NEW b \in Blocks,
         TestSize(p, b) \/ log_writePanics(p, b) \/ bgetPanics(p, b)
  PROVE  Reserved'
<1>1. TestSize(p, b)
  <2>1. WantsToChange(p, b)
    BY DEF TestSize, log_writePanics, bgetPanics
  <2>2. QED
    BY <2>1, NoPanicInCall DEF log_writePanics, bgetPanics
<1>2. /\ held[p] = {} /\ Cardinality(wrote[p] \cup {b}) <= OpBlocks
      /\ held' = [held EXCEPT ![p] = {b}]
      /\ UNCHANGED <<lh, dirty, wrote, panicked, outstanding, phase, tail, at>>
  BY <1>1 DEF TestSize, WantsToChange, Inside
<1>3. \A q \in Procs : held'[q] = IF q = p THEN {b} ELSE held[q]
  BY <1>2 DEF IInv, TypeOK
<1>4. Active' = Active /\ Active \subseteq Procs
  BY <1>2 DEF Active
<1>5. Owned'
  BY <1>2, <1>3, <1>4 DEF Reserved, Owned
<1>6. Located'
  BY <1>2 DEF Reserved, Located
<1>7. AllDrawn' = AllDrawn
  BY <1>2, <1>4 DEF AllDrawn, Drawn
<1>8. Room'
  BY <1>2, <1>4, <1>7 DEF Reserved, Room, Booked
<1>9. QED
  BY <1>2, <1>5, <1>6, <1>8 DEF Reserved

\* log_write() draws a block when it adds one to the header.
LEMMA WriteReserves ==
  ASSUME IInv, Ample, Reserved, NEW p \in Procs, NEW b \in Blocks, NEW v \in Values,
         log_write(p, b, v)
  PROVE  Reserved'
<1>1. /\ b \in held[p] /\ dirty' = [dirty EXCEPT ![b] = TRUE]
      /\ wrote' = [wrote EXCEPT ![p] = @ \cup {b}] /\ held' = [held EXCEPT ![p] = {}]
      /\ UNCHANGED <<outstanding, phase, tail, panicked, at>>
  BY DEF log_write
<1>2. /\ at[p] = "op" /\ phase = "none" /\ outstanding > 0 /\ p \in Active
      /\ Active' = Active /\ Active \subseteq Procs
  BY <1>1, HolderActive, ActiveRests DEF Active
<1>3. held[p] = {b}
  BY <1>1 DEF Reserved, Owned
<1>4. /\ lh' \in Seq(Blocks) /\ Len(lh) <= Len(lh') /\ Len(lh') <= Len(lh) + 1
      /\ \A i \in 1..Len(lh) : lh'[i] = lh[i]
      /\ ToSet(lh') = ToSet(lh) \cup {b}
      /\ b \in ToSet(lh) => lh' = lh
  <2>1. lh' = Header(lh, b)
    BY DEF log_write, Header
  <2>2. QED
    BY <2>1, Numbers, Appended DEF Header
<1>5. \A q \in Procs : /\ wrote'[q] = IF q = p THEN wrote[p] \cup {b} ELSE wrote[q]
                       /\ held'[q] = IF q = p THEN {} ELSE held[q]
  BY <1>1 DEF IInv, TypeOK
<1>6. Owned'
  <2>1. ASSUME NEW q \in Active
        PROVE  wrote'[q] \subseteq ToSet(lh') /\ Cardinality(wrote'[q] \cup held'[q]) <= OpBlocks
    <3>1. q \in Procs /\ wrote[q] \subseteq ToSet(lh) /\ Cardinality(wrote[q] \cup held[q]) <= OpBlocks
      BY <1>2 DEF Reserved, Owned
    <3>2. wrote'[q] \cup held'[q] = wrote[q] \cup held[q]
      BY <1>3, <1>5, <3>1
    <3>3. wrote'[q] \subseteq ToSet(lh')
      BY <1>4, <1>5, <3>1
    <3>4. QED
      BY <3>1, <3>2, <3>3
  <2>2. \A q \in Procs : held'[q] # {} => \E c \in Blocks : held'[q] = {c}
    BY <1>5 DEF Reserved, Owned
  <2>3. QED
    BY <1>2, <2>1, <2>2 DEF Owned
<1>7. Located'
  <2>1. ASSUME NEW c \in Blocks, dirty'[c] PROVE \E i \in 1..Len(lh') : lh'[i] = c
    <3>1. CASE c = b
      <4>1. b \in ToSet(lh')
        BY <1>4
      <4>2. QED
        BY <1>4, <3>1, <4>1, InHeader
    <3>2. CASE c # b
      <4>1. dirty[c]
        BY <1>1, <2>1, <3>2 DEF IInv, TypeOK
      <4>2. PICK i \in 1..Len(lh) : lh[i] = c
        BY <4>1 DEF Reserved, Located
      <4>3. i \in 1..Len(lh')
        BY <1>4, Numbers
      <4>4. QED
        BY <1>4, <4>2, <4>3
    <3>3. QED
      BY <3>1, <3>2
  <2>2. phase' # "clear" /\ phase' # "install"
    BY <1>1, <1>2
  <2>3. QED
    BY <2>1, <2>2 DEF Located
<1>8. AllDrawn' = AllDrawn + IF b \in wrote[p] THEN 0 ELSE 1
  <2>1. IsFiniteSet(wrote[p]) /\ \A q \in Procs : Drawn[q] \in Nat
    BY Draws DEF Reserved
  <2>2. Cardinality(wrote[p]) \in Nat
    BY <2>1, FS_CardinalityType
  <2>3. Cardinality(wrote[p] \cup {b}) =
          Cardinality(wrote[p]) + IF b \in wrote[p] THEN 0 ELSE 1
    <3> DEFINE B == wrote[p]
    <3>1. IsFiniteSet(B) /\ Cardinality(B) \in Nat
      BY <1>2, <2>1, <2>2
    <3> HIDE DEF B
    <3>2. Cardinality(B \cup {b}) = IF b \in B THEN Cardinality(B) ELSE Cardinality(B) + 1
      BY <3>1, FS_AddElement
    <3>3. Cardinality(B \cup {b}) = Cardinality(B) + IF b \in B THEN 0 ELSE 1
      BY <3>1, <3>2
    <3>4. QED
      BY <3>3 DEF B
  <2>4. /\ Drawn[p] = Cardinality(wrote[p])
        /\ Drawn'[p] = Cardinality(wrote[p]) + IF b \in wrote[p] THEN 0 ELSE 1
        /\ \A q \in Procs \ {p} : Drawn'[q] = Drawn[q]
    BY <1>2, <1>5, <2>3 DEF Drawn
  <2>5. IsFiniteSet(Procs)
    BY DEF LogAssumption
  <2>6. (\A q \in Procs : Drawn[q] \in Int) /\ (\A q \in Procs : Drawn'[q] \in Int)
    BY <2>1, <2>2, <2>4
  <2> DEFINE f == Drawn
             g == Drawn'
  <2> HIDE DEF f, g
  <2>7. SumFunctionOnSet(g, Procs) = SumFunctionOnSet(f, Procs) + (g[p] - f[p])
    <3>1. /\ \A q \in Procs : f[q] \in Int /\ g[q] \in Int
          /\ \A q \in Procs \ {p} : g[q] = f[q]
      BY <2>4, <2>6 DEF f, g
    <3>2. QED
      BY <2>5, <3>1, SumUpdate
  <2>8. AllDrawn = SumFunctionOnSet(f, Procs) /\ AllDrawn' = SumFunctionOnSet(g, Procs)
    BY DEF AllDrawn, f, g
  <2>9. g[p] - f[p] = IF b \in wrote[p] THEN 0 ELSE 1
    BY <2>2, <2>4 DEF f, g
  <2>10. QED
    BY <2>7, <2>8, <2>9
<1>9. Len(lh') - AllDrawn' <= Len(lh) - AllDrawn /\ AllDrawn \in Nat /\ Len(lh') \in Nat
  <2>1. AllDrawn \in Nat
    BY Draws DEF Reserved
  <2>2. b \in wrote[p] => lh' = lh
    BY <1>2, <1>4 DEF Reserved, Owned
  <2>3. Len(lh') \in Nat
    BY <1>4
  <2>4. QED
    BY <1>4, <1>8, <2>1, <2>2, <2>3, Numbers
<1>10. AllDrawn' \in Nat
  BY <1>8, <1>9
<1>11. Room'
  <2> DEFINE l == Len(lh)
             m == Len(lh')
             a == AllDrawn
             c == AllDrawn'
  <2>1. /\ l \in Nat /\ m \in Nat /\ a \in Nat /\ c \in Nat /\ m - c <= l - a
        /\ Booked \in Nat /\ LOGSIZE \in Nat /\ MAXOPBLOCKS \in Nat
    BY <1>9, <1>10, Numbers
  <2>2. l + Booked - a <= LOGSIZE
    BY <1>2 DEF Reserved, Room
  <2>3. outstanding = 1 => \/ ToSet(lh) \subseteq UNION {wrote[q] : q \in Active}
                           \/ l + MAXOPBLOCKS - a <= LOGSIZE - 1
    BY DEF Reserved, Room
  <2> HIDE DEF l, m, a, c
  <2>4. m + Booked - c <= LOGSIZE
    BY <2>1, <2>2
  <2>5. l + MAXOPBLOCKS - a <= LOGSIZE - 1 => m + MAXOPBLOCKS - c <= LOGSIZE - 1
    BY <2>1
  <2>6. ASSUME ToSet(lh) \subseteq UNION {wrote[q] : q \in Active}
        PROVE  ToSet(lh') \subseteq UNION {wrote'[q] : q \in Active}
    BY <1>2, <1>4, <1>5, <2>6
  <2>7. Booked' = Booked
    BY <1>1 DEF Booked
  <2>8. outstanding = 1 => \/ ToSet(lh') \subseteq UNION {wrote'[q] : q \in Active}
                           \/ m + MAXOPBLOCKS - c <= LOGSIZE - 1
    BY <2>3, <2>5, <2>6
  <2>9. QED
    BY <1>1, <1>2, <2>4, <2>7, <2>8 DEF Room, m, c
<1>12. QED
  BY <1>1, <1>6, <1>7, <1>11 DEF Reserved

\* A call that ends gives back at least one block that it has not drawn.
LEMMA LeaveReserves ==
  ASSUME IInv, Ample, Reserved, NEW p \in Procs, EndLeaves(p)
  PROVE  Reserved'
<1>1. /\ at[p] = "op" /\ outstanding > 1 /\ outstanding' = outstanding - 1
      /\ UNCHANGED <<dirty, lh, phase, tail, panicked, held, wrote>>
  BY DEF EndLeaves, Inside
<1>2. Active' = Active \ {p} /\ p \in Active
  BY <1>1, WokenSleepers DEF EndLeaves, Active, IInv, TypeOK
<1>3. Owned' /\ Located'
  BY <1>1, <1>2 DEF Reserved, Owned, Located
<1>4. AllDrawn' = AllDrawn - Drawn[p] /\ Drawn[p] \in Nat /\ Drawn[p] <= MAXOPBLOCKS - 1
  <2>1. \A q \in Procs : Drawn[q] \in Nat /\ Drawn[q] <= MAXOPBLOCKS - 1
    BY Draws DEF Reserved
  <2>2. Drawn'[p] = 0 /\ \A q \in Procs \ {p} : Drawn'[q] = Drawn[q]
    BY <1>1, <1>2 DEF Drawn
  <2>3. IsFiniteSet(Procs)
    BY DEF LogAssumption
  <2> DEFINE f == Drawn
             g == Drawn'
  <2>4. /\ \A q \in Procs : f[q] \in Int /\ g[q] \in Int
        /\ \A q \in Procs \ {p} : g[q] = f[q]
    BY <2>1, <2>2
  <2>5. AllDrawn = SumFunctionOnSet(f, Procs) /\ AllDrawn' = SumFunctionOnSet(g, Procs)
    BY DEF AllDrawn
  <2>6. g[p] = 0 /\ f[p] = Drawn[p]
    BY <2>2
  <2> HIDE DEF f, g
  <2>7. SumFunctionOnSet(g, Procs) = SumFunctionOnSet(f, Procs) + (g[p] - f[p])
    BY <2>3, <2>4, SumUpdate
  <2>8. AllDrawn \in Nat
    BY Draws DEF Reserved
  <2>9. QED
    BY <2>1, <2>5, <2>6, <2>7, <2>8
<1>5. AllDrawn \in Nat
  BY Draws DEF Reserved
<1>6. Len(lh) + Booked - AllDrawn <= LOGSIZE
  <2>1. outstanding > 0
    BY <1>1, Numbers
  <2>2. QED
    BY <2>1 DEF Reserved, Room
<1>7. Booked = Booked' + MAXOPBLOCKS /\ Booked' \in Nat
  <2>1. MAXOPBLOCKS \in Nat /\ outstanding \in Nat /\ outstanding' \in Nat
        /\ outstanding = outstanding' + 1
    BY <1>1, Numbers
  <2> DEFINE n == outstanding'
  <2>2. n \in Nat /\ outstanding = n + 1
    BY <2>1
  <2> HIDE DEF n
  <2>3. (n + 1) * MAXOPBLOCKS = n * MAXOPBLOCKS + MAXOPBLOCKS /\ n * MAXOPBLOCKS \in Nat
    BY <2>1, <2>2, Product
  <2>4. Booked = (n + 1) * MAXOPBLOCKS /\ Booked' = n * MAXOPBLOCKS
    BY <2>2 DEF Booked, n
  <2>5. QED
    BY <2>3, <2>4
<1> DEFINE l == Len(lh)
           booked == Booked'
           drawn == AllDrawn'
<1>8. l + booked - drawn <= LOGSIZE - 1 /\ l + booked - drawn <= LOGSIZE
  <2>1. /\ l \in Nat /\ booked \in Nat /\ LOGSIZE \in Nat /\ MAXOPBLOCKS \in Nat
        /\ AllDrawn \in Nat /\ Drawn[p] \in Nat /\ Drawn[p] <= MAXOPBLOCKS - 1
        /\ drawn = AllDrawn - Drawn[p]
        /\ l + (booked + MAXOPBLOCKS) - AllDrawn <= LOGSIZE
    BY <1>4, <1>5, <1>6, <1>7, Numbers
  <2> HIDE DEF l, booked, drawn
  <2>2. QED
    BY <2>1
<1>9. outstanding' = 1 => Booked' = MAXOPBLOCKS
  BY Numbers DEF Booked
<1>10. phase = "none"
  BY <1>1, ActiveRests
<1>11. Room'
  BY <1>1, <1>8, <1>9, <1>10 DEF Room
<1>12. QED
  BY <1>1, <1>3, <1>11 DEF Reserved

\* The last call hands a header to the commit that is short enough for it.
LEMMA CommitReserves ==
  ASSUME IInv, IInv', Ample, Reserved, NEW p \in Procs, EndCommits(p)
  PROVE  Reserved'
<1>1. /\ outstanding = 1 /\ committing' = 1
      /\ phase' = IF lh = <<>> THEN "done" ELSE "write_log"
      /\ UNCHANGED <<dirty, lh, panicked>>
  BY DEF EndCommits
<1>2. Active' = {}
  BY <1>1 DEF IInv, Control
<1>3. Located'
  BY <1>1 DEF Reserved, Located
<1>4. Len(lh) <= LOGSIZE - 2
  BY <1>1, RoomLeft
<1>5. QED
  BY <1>1, <1>2, <1>3, <1>4, ReservedIdle DEF Reserved

\* A commit or a recovery runs while no call is in progress.
LEMMA DiskReserves ==
  ASSUME IInv, IInv', Ample, Reserved, DiskStep
  PROVE  Reserved'
<1>1. UNCHANGED unlogged /\ phase # "none"
  BY DEF DiskStep, write_log, write_head, install_trans, ClearLog, read_head
<1>2. Active' = {} /\ panicked' = {}
  <2>1. Active = {}
    <3>1. CASE committing = 1
      BY <3>1 DEF IInv, Control
    <3>2. CASE committing = 0
      BY <1>1, <3>2 DEF IInv, Control, Recovering, Active
    <3>3. QED
      BY <3>1, <3>2 DEF IInv, TypeOK
  <2>2. QED
    BY <1>1, <2>1 DEF unlogged, Active, Reserved
<1>3. /\ lh \in Seq(Blocks) /\ Len(lh) \in Nat /\ tail \in Nat /\ Located
      /\ phase = "write_log" => Len(lh) <= LOGSIZE - 2
  BY DEF IInv, TypeOK, Reserved, Room
<1>4. CASE write_log
  <2>1. /\ phase = "write_log" /\ UNCHANGED <<dirty, lh>>
        /\ phase' \in {"write_log", "write_head"}
    BY <1>4 DEF write_log, Advance
  <2>2. Located'
    BY <1>3, <2>1 DEF Located
  <2>3. QED
    BY <1>2, <1>3, <2>1, <2>2, ReservedIdle
<1>5. CASE write_head
  <2>1. phase' = "install" /\ tail' = 0 /\ UNCHANGED <<dirty, lh>>
    BY <1>5 DEF write_head, IInv, Contents, Logging
  <2>2. Located'
    BY <1>3, <2>1 DEF Located
  <2>3. QED
    BY <1>2, <2>1, <2>2, ReservedIdle
<1>6. CASE install_trans
  <2>1. /\ phase = "install" /\ dirty' = [dirty EXCEPT ![lh[tail + 1]] = FALSE] /\ lh' = lh
        /\ \/ tail + 1 = Len(lh) /\ phase' = "clear"
           \/ phase' = "install" /\ tail' = tail + 1
    BY <1>6 DEF install_trans, Advance
  <2>2. ASSUME NEW c \in Blocks, dirty'[c]
        PROVE  \E i \in 1..Len(lh) : lh[i] = c /\ i > tail + 1
    <3>1. dirty[c] /\ c # lh[tail + 1]
      BY <2>1, <2>2 DEF IInv, TypeOK
    <3>2. PICK i \in 1..Len(lh) : lh[i] = c /\ i > tail
      BY <1>3, <2>1, <3>1 DEF Located
    <3>3. i # tail + 1
      BY <3>1, <3>2
    <3>4. i > tail + 1
      BY <1>3, <3>2, <3>3
    <3>5. QED
      BY <3>2, <3>4
  <2>3. Located'
    BY <1>3, <2>1, <2>2 DEF Located
  <2>4. phase' # "write_log"
    BY <2>1
  <2>5. QED
    BY <1>2, <2>3, <2>4, ReservedIdle
<1>7. CASE ClearLog \/ read_head
  <2>1. phase \in {"clear", "read_head"} /\ dirty' = dirty /\ phase' # "write_log"
    BY <1>7 DEF ClearLog, read_head
  <2>2. phase = "read_head" => Len(lh) = 0
    BY DEF IInv, Contents, Empty
  <2>3. \A c \in Blocks : ~dirty[c]
    BY <1>3, <2>1, <2>2 DEF Located
  <2>4. Located'
    BY <2>1, <2>3 DEF Located
  <2>5. QED
    BY <1>2, <2>1, <2>4, ReservedIdle
<1>8. QED
  BY <1>4, <1>5, <1>6, <1>7 DEF DiskStep

\* The end of a commit, and a crash: there is nothing dirty, or nothing at all.
LEMMA RestReserves ==
  ASSUME IInv, IInv', Reserved, Crash \/ \E p \in Procs : EndDone(p)
  PROVE  Reserved'
<1>1. CASE Crash
  <2>1. /\ Active' = {} /\ panicked' = {} /\ phase' = "read_head"
        /\ \A b \in Blocks : ~dirty'[b]
    BY <1>1 DEF Crash, Boot, Active
  <2>2. Located'
    BY <2>1 DEF Located
  <2>3. QED
    BY <2>1, <2>2, ReservedIdle
<1>2. ASSUME NEW p \in Procs, EndDone(p) PROVE Reserved'
  <2>1. /\ phase = "done" /\ phase' = "none" /\ at[p] = "commit"
        /\ at' = [Woken EXCEPT ![p] = "user"] /\ UNCHANGED <<dirty, lh, panicked>>
    BY <1>2 DEF EndDone
  <2>2. Active' = {}
    <3>1. Active = {}
      BY <2>1 DEF IInv, Control
    <3>2. QED
      BY <2>1, <3>1, WokenSleepers DEF Active, IInv, TypeOK
  <2>3. Located'
    BY <2>1 DEF Reserved, Located
  <2>4. QED
    BY <2>1, <2>2, <2>3, ReservedIdle DEF Reserved
<1>3. QED
  BY <1>1, <1>2

\* Every step keeps the reservation.
LEMMA NextReserves == IInv /\ IInv' /\ Ample /\ Reserved /\ [Next]_vars => Reserved'
<1> SUFFICES ASSUME IInv, IInv', Ample, Reserved, [Next]_vars PROVE Reserved'
  OBVIOUS
<1>1. ASSUME NEW p \in Procs, SleepBegin(p) \/ Kill(p) PROVE Reserved'
  <2>1. Active' = Active
    BY <1>1 DEF SleepBegin, Attempts, Kill, Active, IInv, TypeOK
  <2>2. UNCHANGED <<lh, dirty, wrote, held, panicked, outstanding, phase, tail>>
    BY <1>1 DEF SleepBegin, Kill
  <2>3. QED
    BY <2>1, <2>2, ReservedSame
<1>2. ASSUME NEW p \in Procs, begin_op(p) \/ EndOp(p) PROVE Reserved'
  BY <1>2, BeginReserves, LeaveReserves, CommitReserves, RestReserves DEF EndOp
<1>3. ASSUME NEW p \in Procs, CommitPanics(p) PROVE FALSE
  BY <1>3, NoPanicInCommit DEF CommitPanics
<1>4. ASSUME NEW p \in Procs, NEW b \in Blocks,
             \/ TestSize(p, b) \/ log_writePanics(p, b) \/ bgetPanics(p, b)
             \/ \E v \in Values : log_write(p, b, v)
      PROVE  Reserved'
  BY <1>4, TestReserves, WriteReserves
<1>5. CASE DiskStep
  BY <1>5, DiskReserves
<1>6. ASSUME UNCHANGED <<unlogged, lh, dirty, phase, tail>> PROVE Reserved'
  <2>1. Active' = Active
    BY <1>6 DEF unlogged, Active
  <2>2. QED
    BY <1>6, <2>1, ReservedSame DEF unlogged
<1>7. (\E b \in Blocks : Recycle(b)) \/ UNCHANGED vars =>
        UNCHANGED <<unlogged, lh, dirty, phase, tail>>
  BY DEF Recycle, vars, inmemory, unlogged
<1>8. CASE Crash
  BY <1>8, RestReserves
<1>9. QED
  BY <1>1, <1>2, <1>3, <1>4, <1>5, <1>6, <1>7, <1>8 DEF Next

\* It holds at the start: no call has begun.
LEMMA InitReserves == Init => Reserved
<1> SUFFICES ASSUME Init PROVE Reserved
  OBVIOUS
<1>1. Active = {} /\ panicked = {} /\ outstanding = 0 /\ phase = "read_head"
  BY DEF Init, Active
<1>2. (\A p \in Procs : held[p] = {}) /\ (\A b \in Blocks : ~dirty[b])
  BY DEF Init
<1>3. Owned /\ Located /\ Room
  BY <1>1, <1>2 DEF Owned, Located, Room
<1>4. QED
  BY <1>1, <1>3 DEF Reserved

\* log.c, param.h: whatever the interleaving of the test in log_write() with the
\* writes of other calls, calls that stay below their reservation never panic,
\* for any number of processes and blocks and any LOGSIZE = NBUF > MAXOPBLOCKS.
THEOREM ReservationIsEnough == Spec => []ReservationSuffices
<1>1. Init => (Ample => Reserved)
  BY InitReserves
<1>2. IInv /\ IInv' /\ (Ample => Reserved) /\ [Next]_vars => (Ample => Reserved)'
  <2>1. Ample' <=> Ample
    BY DEF Ample
  <2>2. QED
    BY <2>1, NextReserves
<1>3. (Ample => Reserved) => ReservationSuffices
  BY DEF Ample, Reserved, ReservationSuffices
<1>4. QED
  BY <1>1, <1>2, <1>3, Invariance, PTL DEF Spec

-----------------------------------------------------------------------------
(* Inodes, directories and paths: the inductive invariant. *)

HIDE LogAssumption

\* A process that is in a call, or in none.
Jobs ==
  [pc : {"idle", "walk", "found", "parent", "old", "created", "bad", "clash", "victim", "unnamed"},
   call : CallRecords, todo : Paths, at : Inums \cup {0}, ip : Inums \cup {0},
   src : Inums \cup {0}, puts : Seq(Inums), drop : BOOLEAN, left : Nat]

\* What a call holds at each place of its way.
Shape(j) ==
  /\ Len(j.puts) <= 2 /\ (j.drop => j.puts # <<>>)
  /\ j.pc = "idle" => j.at = 0 /\ j.ip = 0 /\ j.src = 0
  /\ j.pc \in {"walk", "found", "parent", "clash", "victim"} => j.at # 0
  /\ j.pc \in {"old", "bad", "created", "unnamed"} => j.at = 0 /\ j.ip # 0
  /\ j.pc = "found" => j.ip = 0 /\ j.src = 0
  /\ j.pc = "bad" => j.call.op = "link"
  /\ j.pc \in {"walk", "parent", "clash"} /\ j.ip # 0 => j.call.op = "link"
  /\ j.pc = "parent" /\ j.call.op = "link" => j.ip # 0
  /\ j.pc \in {"victim", "unnamed"} => j.call.op = "unlink" /\ j.ip # 0
  /\ j.pc \in {"old", "created"} => j.call.op \in {"creat", "mkdir", "copy"}
  /\ j.src # 0 => j.call.op = "copy"
  /\ j.pc \in {"parent", "old", "created"} /\ j.call.op = "copy" => j.src # 0
  /\ j.pc \in {"parent", "clash", "victim"} => j.todo # <<>>
  /\ j.pc = "victim" => Head(j.todo) \in Names

FilesShaped ==
  FilesTyped /\ job \in [Callers -> Jobs] /\ \A p \in Callers : Shape(job[p])

\* The lock a call holds, or 0.
Owns(j) == IF j.pc \in {"clash", "victim"} THEN j.at
           ELSE IF j.pc \in {"created", "unnamed"} THEN j.ip ELSE 0
\* A lock is held by the call that is at a place where it holds it, and by no other.
LocksExact == \A i \in Inums, p \in Callers : owner[i] = p <=> Owns(job[p]) = i

\* What a call knows of the inodes it holds, locked or not.
Linking(j) == j.call.op = "link" /\ j.ip # 0
Informed(j) ==
  /\ j.pc \in {"parent", "clash", "victim"} => type[j.at] = "dir"
  /\ Linking(j) => type[j.ip] = "file"
  /\ j.pc \in {"created", "unnamed"} => type[j.ip] # "free"
  /\ j.pc = "victim" => names[j.at][Head(j.todo)] = j.ip
Knows(p) ==
  Informed(job[p]) /\ type[cwd[p]] = "dir" /\ (open[p] # 0 => type[open[p]] # "free")

\* The inode cache counts the references of the processes.
RefsExact == \A i \in Inums : ref[i] = SumFunctionOnSet([p \in Callers |-> Held(p, i)], Callers)

\* What a name leads to exists, and a directory with a name has the one parent.
Tree ==
  /\ type[Root] # "free"
  /\ \A i \in Inums : type[i] = "free" => lost[i] = 0
  /\ \A d \in Inums : type[d] = "dir" => parent[d] # 0
  /\ \A d \in Inums, n \in Names : names[d][n] # 0 =>
       /\ type[d] = "dir" /\ type[names[d][n]] # "free"
       /\ type[names[d][n]] = "dir" => parent[names[d][n]] = d

\* The named directories have depths: no directory is below itself.
Below(depth) ==
  \A d \in Inums, n \in Names :
    names[d][n] # 0 /\ type[names[d][n]] = "dir" => depth[d] < depth[names[d][n]]
Acyclic == \E depth \in [Inums -> Nat] : Below(depth)

\* unlink() never finds an inode with a name and no link.
NoLinkPanic == panic # "unlink: nlink < 1"

\* All of it.
FilesInvariant ==
  FilesShaped /\ LocksExact /\ (\A p \in Callers : Knows(p)) /\ RefsExact /\ Tree
  /\ LinksExact /\ Acyclic /\ NoLinkPanic

-----------------------------------------------------------------------------
(* What is finite, and what a list of references counts. *)

\* The inodes are finitely many numbers that are not 0, the callers are finitely
\* many, and no name is "." or "..".
LEMMA FilesBasics ==
  /\ IsFiniteSet(Callers) /\ NoOne \notin Callers
  /\ IsFiniteSet(Inums) /\ Inums \subseteq Nat /\ 0 \notin Inums /\ Root \in Inums
  /\ 2 \in Inums /\ 3 \in Inums /\ 4 \in Inums
  /\ IsFiniteSet(Names) /\ "." \notin Names /\ ".." \notin Names
  /\ "d" \in Names /\ "f" \in Names /\ IsFiniteSet(Inums \X Names)
  /\ Calls \subseteq CallRecords /\ (CHOOSE c \in Calls : TRUE) \in CallRecords
<1>1. 1 \in 1..4 /\ 2 \in 1..4 /\ 3 \in 1..4 /\ 4 \in 1..4
  OBVIOUS
<1>2. IsFiniteSet(Inums \X Names)
  BY FilesAssumption, FS_Product DEF FilesAssumption
<1>3. QED
  BY <1>1, <1>2, FilesAssumption DEF FilesAssumption, Root

\* Nothing occurs in a list of no reference.
LEMMA OccursNone ==
  ASSUME NEW x
  PROVE  Occurs(<<>>, x) = 0
<1>1. {i \in DOMAIN <<>> : <<>>[i] = x} = {}
  OBVIOUS
<1>2. QED
  BY <1>1, FS_EmptySet, Zenon DEF Occurs, Count

\* What occurs in a list of one reference.
LEMMA OccursOne ==
  ASSUME NEW a, NEW x
  PROVE  Occurs(<<a>>, x) = Is(a, x)
<1>1. {i \in DOMAIN <<a>> : <<a>>[i] = x} = IF a = x THEN {1} ELSE {}
  OBVIOUS
<1>2. QED
  BY <1>1, FS_EmptySet, FS_Singleton DEF Occurs, Is, Count

\* What occurs in a list of two references.
LEMMA OccursTwo ==
  ASSUME NEW a, NEW b, NEW x
  PROVE  Occurs(<<a, b>>, x) = Is(a, x) + Is(b, x)
<1>1. {i \in DOMAIN <<a, b>> : <<a, b>>[i] = x} =
        (IF a = x THEN {1} ELSE {}) \cup (IF b = x THEN {2} ELSE {})
  OBVIOUS
<1>2. Cardinality({1} \cup {2}) = 2 /\ {} \cup {2} = {2} /\ {1} \cup {} = {1}
      /\ {} \cup {} = {}
  <2>1. IsFiniteSet({1}) /\ Cardinality({1}) = 1 /\ 2 \notin {1}
    <3>1. IsFiniteSet({1}) /\ Cardinality({1}) = 1
      BY FS_Singleton, Zenon
    <3>2. 2 \notin {1}
      OBVIOUS
    <3>3. QED
      BY <3>1, <3>2, Zenon
  <2>2. Cardinality({1} \cup {2}) = Cardinality({1}) + 1
    BY <2>1, FS_AddElement, Zenon
  <2>3. {} \cup {2} = {2} /\ {1} \cup {} = {1} /\ {} \cup {} = {}
    OBVIOUS
  <2>4. QED
    BY <2>1, <2>2, <2>3
<1>3. Cardinality({}) = 0 /\ Cardinality({1}) = 1 /\ Cardinality({2}) = 1
  BY FS_EmptySet, FS_Singleton
<1>4. Occurs(<<a, b>>, x) = Cardinality(
        (IF a = x THEN {1} ELSE {}) \cup (IF b = x THEN {2} ELSE {}))
  BY <1>1 DEF Occurs, Count
<1>5. CASE a = x /\ b = x
  BY <1>2, <1>3, <1>4, <1>5 DEF Is
<1>6. CASE a = x /\ b # x
  BY <1>2, <1>3, <1>4, <1>6 DEF Is
<1>7. CASE a # x /\ b = x
  BY <1>2, <1>3, <1>4, <1>7 DEF Is
<1>8. CASE a # x /\ b # x
  BY <1>2, <1>3, <1>4, <1>8 DEF Is
<1>9. QED
  BY <1>5, <1>6, <1>7, <1>8

\* Lists of one and of two references are lists of references.
LEMMA ShortPuts ==
  ASSUME NEW a \in Inums, NEW b \in Inums
  PROVE  /\ <<>> \in Seq(Inums) /\ Len(<<>>) = 0
         /\ <<a>> \in Seq(Inums) /\ Len(<<a>>) = 1 /\ <<a>> # <<>>
         /\ <<a, b>> \in Seq(Inums) /\ Len(<<a, b>>) = 2 /\ <<a, b>> # <<>>
  OBVIOUS

\* A list of at most two references, written out.
LEMMA FewPuts ==
  ASSUME NEW s \in Seq(Inums), Len(s) <= 2
  PROVE  \/ s = <<>>
         \/ s = <<Head(s)>> /\ Head(s) \in Inums /\ Tail(s) = <<>>
         \/ \E b \in Inums : s = <<Head(s), b>> /\ Head(s) \in Inums /\ Tail(s) = <<b>>
<1>1. Len(s) \in Nat /\ s \in [1..Len(s) -> Inums]
  BY LenProperties
<1>2. CASE Len(s) = 0
  BY <1>2, EmptySeq
<1>3. CASE Len(s) = 1
  <2>1. s = <<s[1]>> /\ s[1] \in Inums
    BY <1>1, <1>3
  <2> DEFINE a == s[1]
  <2> HIDE DEF a
  <2>2. s = <<a>> /\ a \in Inums
    BY <2>1 DEF a
  <2>3. QED
    BY <2>2
<1>4. CASE Len(s) = 2
  <2>1. s = <<s[1], s[2]>> /\ s[1] \in Inums /\ s[2] \in Inums
    BY <1>1, <1>4
  <2> DEFINE a == s[1]
             b == s[2]
  <2> HIDE DEF a, b
  <2>2. s = <<a, b>> /\ a \in Inums /\ b \in Inums
    BY <2>1 DEF a, b
  <2>3. Head(s) = a /\ Tail(s) = <<b>>
    BY <2>2
  <2>4. QED
    BY <2>2, <2>3
<1>5. QED
  BY <1>1, <1>2, <1>3, <1>4

\* What is left of such a list once its head is dropped.
LEMMA PutsRest ==
  ASSUME NEW s \in Seq(Inums), Len(s) <= 2, NEW x
  PROVE  /\ Occurs(s, x) \in Nat
         /\ s # <<>> => /\ Head(s) \in Inums /\ Is(Head(s), x) <= Occurs(s, x)
                        /\ Tail(s) \in Seq(Inums) /\ Len(Tail(s)) <= 2
                        /\ Occurs(Tail(s), x) = Occurs(s, x) - Is(Head(s), x)
<1>1. CASE s = <<>>
  BY <1>1, OccursNone
<1>2. CASE s = <<Head(s)>> /\ Head(s) \in Inums /\ Tail(s) = <<>>
  <2> DEFINE a == Head(s)
             t == Tail(s)
  <2>1. s = <<a>> /\ a \in Inums /\ t = <<>>
    BY <1>2
  <2> HIDE DEF a, t
  <2>2. /\ Occurs(s, x) = Is(a, x) /\ Occurs(t, x) = 0 /\ t \in Seq(Inums) /\ Len(t) <= 2
        /\ Is(a, x) \in {0, 1}
    BY <2>1, OccursNone, OccursOne DEF Is
  <2>3. QED
    BY <2>1, <2>2 DEF a, t
<1>3. ASSUME NEW b \in Inums, s = <<Head(s), b>>, Head(s) \in Inums, Tail(s) = <<b>>
      PROVE  /\ Occurs(s, x) \in Nat
             /\ Head(s) \in Inums /\ Is(Head(s), x) <= Occurs(s, x)
             /\ Tail(s) \in Seq(Inums) /\ Len(Tail(s)) <= 2
             /\ Occurs(Tail(s), x) = Occurs(s, x) - Is(Head(s), x)
  <2> DEFINE a == Head(s)
             t == Tail(s)
  <2>1. s = <<a, b>> /\ a \in Inums /\ t = <<b>>
    BY <1>3
  <2> HIDE DEF a, t
  <2>2. /\ Occurs(s, x) = Is(a, x) + Is(b, x) /\ Occurs(t, x) = Is(b, x)
        /\ t \in Seq(Inums) /\ Len(t) <= 2
        /\ Is(a, x) \in {0, 1} /\ Is(b, x) \in {0, 1}
    BY <2>1, OccursOne, OccursTwo DEF Is
  <2>3. QED
    BY <2>1, <2>2 DEF a, t
<1>4. QED
  BY <1>1, <1>2, <1>3, FewPuts

\* A call's references are counted by a natural number, which is positive for
\* what it holds.
LEMMA HoldsType ==
  ASSUME NEW j \in Jobs, Shape(j), NEW x \in Inums
  PROVE  /\ Holds(j, x) \in Nat
         /\ x \in {j.at, j.ip, j.src} => Holds(j, x) > Occurs(j.puts, x)
         /\ Occurs(j.puts, x) \in Nat /\ Occurs(j.puts, x) <= Holds(j, x)
         /\ j.puts # <<>> /\ x = Head(j.puts) => Occurs(j.puts, x) > 0
<1>1. j.puts \in Seq(Inums) /\ Len(j.puts) <= 2
  BY DEF Jobs, Shape
<1>2. /\ Occurs(j.puts, x) \in Nat
      /\ j.puts # <<>> => Is(Head(j.puts), x) <= Occurs(j.puts, x)
  BY <1>1, PutsRest
<1>3. /\ Is(j.at, x) \in {0, 1} /\ Is(j.ip, x) \in {0, 1} /\ Is(j.src, x) \in {0, 1}
      /\ x \in {j.at, j.ip, j.src} => Is(j.at, x) = 1 \/ Is(j.ip, x) = 1 \/ Is(j.src, x) = 1
      /\ x = Head(j.puts) => Is(Head(j.puts), x) = 1
  BY DEF Is
<1>4. QED
  BY <1>2, <1>3 DEF Holds

-----------------------------------------------------------------------------
(* Records of calls. *)

\* A call that ends: nothing is left of it but references to put.
Ended(n, s) ==
  [pc |-> "idle", call |-> CHOOSE c \in Calls : TRUE, todo |-> <<>>, at |-> 0, ip |-> 0,
   src |-> 0, puts |-> s, drop |-> FALSE, left |-> n]

\* The two ways the code ends a call.
LEMMA EndedIs ==
  ASSUME NEW n, NEW s
  PROVE  [Idle(n) EXCEPT !.puts = s] = Ended(n, s) /\ Idle(n) = Ended(n, <<>>)
<1> DEFINE c == CHOOSE c \in Calls : TRUE
           k == [pc |-> "idle", call |-> c, todo |-> <<>>, at |-> 0, ip |-> 0,
                 src |-> 0, puts |-> <<>>, drop |-> FALSE, left |-> n]
           j == [Idle(n) EXCEPT !.puts = s]
<1> HIDE DEF c
<1>1. Idle(n) = k /\ Ended(n, <<>>) = k
  BY Zenon DEF Idle, c, Ended
<1>2. j = [pc |-> "idle", call |-> c, todo |-> <<>>, at |-> 0, ip |-> 0,
           src |-> 0, puts |-> s, drop |-> FALSE, left |-> n]
  <2>1. j = [k EXCEPT !.puts = s]
    BY <1>1
  <2> HIDE DEF j
  <2>2. QED
    BY <2>1
<1> HIDE DEF k, j
<1>3. j = Ended(n, s)
  BY <1>2, Zenon DEF Ended, c
<1>4. QED
  BY <1>1, <1>3 DEF j

\* What a call that ended holds.
LEMMA EndedFits ==
  ASSUME NEW n \in Nat, NEW s \in Seq(Inums), Len(s) <= 2
  PROVE  /\ Ended(n, s) \in Jobs /\ Shape(Ended(n, s)) /\ Owns(Ended(n, s)) = 0
         /\ Pends(Ended(n, s)) = 0 /\ ~Linking(Ended(n, s)) /\ Ended(n, s).pc = "idle"
         /\ \A x \in Inums : Holds(Ended(n, s), x) = Occurs(s, x)
<1> DEFINE c == CHOOSE c \in Calls : TRUE
           j == Ended(n, s)
<1>1. c \in CallRecords /\ <<>> \in Paths
  BY FilesBasics DEF Paths
<1> HIDE DEF c
<1>2. j = [pc |-> "idle", call |-> c, todo |-> <<>>, at |-> 0, ip |-> 0,
           src |-> 0, puts |-> s, drop |-> FALSE, left |-> n]
  BY DEF Ended, c
<1> HIDE DEF j
<1>3. j \in Jobs
  BY <1>1, <1>2 DEF Jobs
<1>4. /\ j.pc = "idle" /\ j.at = 0 /\ j.ip = 0 /\ j.src = 0
      /\ j.puts = s /\ j.drop = FALSE
  BY <1>2
<1>5. Shape(j)
  BY <1>4 DEF Shape
<1>6. Owns(j) = 0 /\ Pends(j) = 0 /\ ~Linking(j)
  BY <1>4 DEF Owns, Pends, Linking
<1>7. ASSUME NEW x \in Inums PROVE Holds(j, x) = Occurs(s, x)
  <2>1. Is(0, x) = 0 /\ Occurs(s, x) \in Nat
    BY FilesBasics, PutsRest DEF Is
  <2>2. Holds(j, x) = Is(0, x) + Is(0, x) + Is(0, x) + Occurs(s, x)
    BY <1>4 DEF Holds
  <2>3. QED
    BY <2>1, <2>2
<1>8. QED
  BY <1>3, <1>4, <1>5, <1>6, <1>7 DEF j

-----------------------------------------------------------------------------
(* Steps of one process: its call moves from job[p] to j. *)

\* The process takes the lock j holds, and gives up the one job[p] held.
LockMoves(p, j) ==
  /\ owner' = [i \in Inums |-> IF i = Owns(j) THEN p
                               ELSE IF i = Owns(job[p]) THEN NoOne ELSE owner[i]]
  /\ Owns(j) \notin {0, Owns(job[p])} => owner[Owns(j)] = NoOne

\* The reference counts change by what the process holds more or less.
RefsMove(p, j) ==
  /\ ref' = [i \in Inums |-> ref'[i]]
  /\ \A i \in Inums : ref'[i] = ref[i] + (Holds(j, i) - Holds(job[p], i))
                                + (Is(cwd'[p], i) - Is(cwd[p], i))
                                + (Is(open'[p], i) - Is(open[p], i))

\* What every step does with the processes and the inode cache.
Frame(p, j) ==
  /\ Goto(p, j) /\ LockMoves(p, j) /\ RefsMove(p, j)
  /\ valid' \in [Inums -> BOOLEAN]
  /\ cwd' \in [Callers -> Inums] /\ open' \in [Callers -> Inums \cup {0}]
  /\ \A q \in Callers \ {p} : cwd'[q] = cwd[q] /\ open'[q] = open[q]

\* Only the call of the process that steps changes.
LEMMA OneJob ==
  ASSUME FilesShaped, NEW p \in Callers, NEW j \in Jobs, Goto(p, j)
  PROVE  /\ job' \in [Callers -> Jobs] /\ job'[p] = j
         /\ \A q \in Callers \ {p} : job'[q] = job[q]
  BY DEF Goto, FilesShaped

\* No inode has the number 0.
LEMMA IsType ==
  ASSUME NEW x \in Inums
  PROVE  Is(0, x) = 0 /\ \A a : Is(a, x) \in {0, 1} /\ (Is(a, x) = 1 <=> a = x)
  BY FilesBasics DEF Is

\* What a process holds of an inode.
LEMMA HeldType ==
  ASSUME FilesShaped, NEW p \in Callers, NEW x \in Inums
  PROVE  /\ Held(p, x) \in Nat /\ Holds(job[p], x) \in Nat /\ Holds(job[p], x) <= Held(p, x)
         /\ x \in {job[p].at, job[p].ip, job[p].src, cwd[p], open[p]} =>
              Held(p, x) > Occurs(job[p].puts, x)
<1>1. job[p] \in Jobs /\ Shape(job[p])
  BY DEF FilesShaped
<1>2. /\ Holds(job[p], x) \in Nat
      /\ x \in {job[p].at, job[p].ip, job[p].src} => Holds(job[p], x) > Occurs(job[p].puts, x)
      /\ Occurs(job[p].puts, x) \in Nat /\ Occurs(job[p].puts, x) <= Holds(job[p], x)
  BY <1>1, HoldsType
<1>3. /\ Is(cwd[p], x) \in {0, 1} /\ Is(open[p], x) \in {0, 1}
      /\ x \in {cwd[p], open[p]} => Is(cwd[p], x) = 1 \/ Is(open[p], x) = 1
  BY DEF Is
<1> DEFINE h == Holds(job[p], x)
           o == Occurs(job[p].puts, x)
           a == Is(cwd[p], x)
           b == Is(open[p], x)
<1>4. Held(p, x) = h + a + b
  BY DEF Held
<1> HIDE DEF h, o, a, b
<1>5. QED
  BY <1>2, <1>3, <1>4 DEF h, o, a, b

\* The reference counts stay exact.
LEMMA RefsStep ==
  ASSUME FilesShaped, RefsExact, NEW p \in Callers, NEW j \in Jobs, Shape(j), Frame(p, j)
  PROVE  RefsExact' /\ ref' \in [Inums -> Nat]
<1>1. /\ job'[p] = j /\ \A q \in Callers \ {p} : job'[q] = job[q]
      /\ cwd' \in [Callers -> Inums] /\ open' \in [Callers -> Inums \cup {0}]
  BY OneJob DEF Frame
<1>2. ASSUME NEW x \in Inums
      PROVE  ref'[x] = SumFunctionOnSet([q \in Callers |-> Held(q, x)'], Callers) /\ ref'[x] \in Nat
  <2> DEFINE f == [q \in Callers |-> Held(q, x)]
             g == [q \in Callers |-> Held(q, x)']
  <2>1. f \in [Callers -> Nat]
    BY HeldType
  <2>2. \A q \in Callers \ {p} : g[q] = f[q]
    BY <1>1 DEF Held, Frame
  <2>3. g[p] = Holds(j, x) + Is(cwd'[p], x) + Is(open'[p], x)
    BY <1>1 DEF Held
  <2>4. f[p] = Holds(job[p], x) + Is(cwd[p], x) + Is(open[p], x)
    BY DEF Held
  <2>5. ref[x] = SumFunctionOnSet(f, Callers)
    BY DEF RefsExact
  <2>6. /\ Holds(j, x) \in Nat /\ Holds(job[p], x) \in Nat
        /\ Is(cwd'[p], x) \in Nat /\ Is(open'[p], x) \in Nat
        /\ Is(cwd[p], x) \in Nat /\ Is(open[p], x) \in Nat /\ ref[x] \in Nat
    <3>1. Holds(j, x) \in Nat
      BY HoldsType
    <3>2. Holds(job[p], x) \in Nat
      BY HeldType
    <3>3. \A a : Is(a, x) \in Nat
      BY DEF Is
    <3>4. ref[x] \in Nat
      BY DEF FilesShaped, FilesTyped
    <3>5. QED
      BY <3>1, <3>2, <3>3, <3>4
  <2>7. ref'[x] = ref[x] + (Holds(j, x) - Holds(job[p], x)) + (Is(cwd'[p], x) - Is(cwd[p], x))
                  + (Is(open'[p], x) - Is(open[p], x))
    BY DEF Frame, RefsMove
  <2> DEFINE gp == g[p]
             fp == f[p]
  <2>8. gp \in Nat /\ fp \in Nat /\ ref'[x] = ref[x] + (gp - fp)
    <3> HIDE DEF f, g
    <3>1. QED
      BY <2>3, <2>4, <2>6, <2>7
  <2>9. \A q \in Callers : g[q] \in Nat
    BY <2>1, <2>2, <2>8
  <2> HIDE DEF f, g
  <2>10. /\ SumFunctionOnSet(g, Callers) = SumFunctionOnSet(f, Callers) + (g[p] - f[p])
         /\ SumFunctionOnSet(g, Callers) \in Nat
    <3>1. /\ \A q \in Callers : f[q] \in Int /\ g[q] \in Int /\ g[q] >= 0
          /\ IsFiniteSet(Callers)
      BY <2>1, <2>9, FilesBasics
    <3>2. SumFunctionOnSet(g, Callers) \in Int /\ SumFunctionOnSet(g, Callers) >= 0
      BY <3>1, SumType
    <3>3. SumFunctionOnSet(g, Callers) =
            SumFunctionOnSet(f, Callers) + (IF p \in Callers THEN g[p] - f[p] ELSE 0)
      BY <2>2, <3>1, SumUpdate
    <3>4. QED
      BY <3>2, <3>3
  <2>11. ref'[x] = SumFunctionOnSet(g, Callers)
    BY <2>5, <2>8, <2>10
  <2>12. QED
    BY <2>10, <2>11 DEF g
<1>3. ref' \in [Inums -> Nat]
  BY <1>2 DEF Frame, RefsMove
<1>4. QED
  BY <1>2, <1>3 DEF RefsExact

\* The locks stay with the calls that hold them.
LEMMA LocksStep ==
  ASSUME FilesShaped, LocksExact, NEW p \in Callers, NEW j \in Jobs, Goto(p, j), LockMoves(p, j)
  PROVE  LocksExact' /\ owner' \in [Inums -> Callers \cup {NoOne}]
<1>1. job'[p] = j /\ \A q \in Callers \ {p} : job'[q] = job[q]
  BY OneJob
<1>2. owner' \in [Inums -> Callers \cup {NoOne}]
  BY DEF LockMoves, FilesShaped, FilesTyped
<1>3. ASSUME NEW i \in Inums, NEW q \in Callers
      PROVE  owner'[i] = q <=> Owns(job'[q]) = i
  <2>1. /\ owner'[i] = IF i = Owns(j) THEN p
                       ELSE IF i = Owns(job[p]) THEN NoOne ELSE owner[i]
        /\ Owns(j) = i => i = Owns(job[p]) \/ owner[i] = NoOne
        /\ NoOne \notin Callers /\ i # 0
        /\ owner[i] = q <=> Owns(job[q]) = i
        /\ owner[i] = p <=> Owns(job[p]) = i
    BY FilesBasics DEF LockMoves, LocksExact
  <2>2. CASE q = p
    BY <1>1, <2>1, <2>2
  <2>3. CASE q # p
    BY <1>1, <2>1, <2>3
  <2>4. QED
    BY <2>2, <2>3
<1>4. QED
  BY <1>2, <1>3 DEF LocksExact

\* A call that keeps its lock, or has none, leaves the locks alone.
LEMMA LockStays ==
  ASSUME FilesShaped, LocksExact, NEW p \in Callers, NEW j, UNCHANGED owner,
         Owns(j) = Owns(job[p])
  PROVE  LockMoves(p, j)
<1>1. \A i \in Inums : i = Owns(job[p]) => owner[i] = p
  BY DEF LocksExact
<1>2. owner \in [Inums -> Callers \cup {NoOne}]
  BY DEF FilesShaped, FilesTyped
<1>3. QED
  BY <1>1, <1>2 DEF LockMoves

\* What a step with a frame keeps.
LEMMA FrameStep ==
  ASSUME FilesInvariant, NEW p \in Callers, NEW j \in Jobs, Shape(j), Frame(p, j),
         type' \in [Inums -> {"free", "dir", "file"}],
         nlink' \in [Inums -> Nat], lost' \in [Inums -> Nat],
         names' \in [Inums -> [Names -> Inums \cup {0}]],
         parent' \in [Inums -> Inums \cup {0}]
  PROVE  /\ FilesShaped' /\ LocksExact' /\ RefsExact' /\ job'[p] = j
         /\ \A q \in Callers \ {p} : job'[q] = job[q] /\ cwd'[q] = cwd[q] /\ open'[q] = open[q]
<1>1. RefsExact' /\ ref' \in [Inums -> Nat]
  BY RefsStep DEF FilesInvariant
<1>2. Goto(p, j) /\ LockMoves(p, j)
  BY DEF Frame
<1>3. LocksExact' /\ owner' \in [Inums -> Callers \cup {NoOne}]
  BY <1>2, LocksStep DEF FilesInvariant
<1>4. /\ job' \in [Callers -> Jobs] /\ job'[p] = j
      /\ \A q \in Callers \ {p} : job'[q] = job[q]
  BY <1>2, OneJob DEF FilesInvariant
<1>5. FilesTyped'
  BY <1>1, <1>3 DEF FilesTyped, Frame
<1>6. \A q \in Callers : Shape(job'[q])
  BY <1>4 DEF FilesInvariant, FilesShaped
<1>7. FilesShaped'
  BY <1>4, <1>5, <1>6 DEF FilesShaped
<1>8. QED
  BY <1>1, <1>3, <1>4, <1>7 DEF Frame

\* A step that leaves the disk alone.
LEMMA QuietStep ==
  ASSUME FilesInvariant, NEW p \in Callers, NEW j \in Jobs, Shape(j), Frame(p, j),
         UNCHANGED <<inodes, lost>>, Pends(j) = Pends(job[p]), Knows(p)',
         NoLinkPanic'
  PROVE  FilesInvariant'
<1>1. UNCHANGED <<type, nlink, names, parent, lost>>
  BY DEF inodes
<1>2. /\ FilesShaped' /\ LocksExact' /\ RefsExact' /\ job'[p] = j
      /\ \A q \in Callers \ {p} : job'[q] = job[q] /\ cwd'[q] = cwd[q] /\ open'[q] = open[q]
  BY <1>1, FrameStep DEF FilesInvariant, FilesShaped, FilesTyped
<1>3. \A q \in Callers : Knows(q)'
  <2>1. ASSUME NEW q \in Callers \ {p} PROVE Knows(q)'
    <3>1. Knows(q)
      BY DEF FilesInvariant
    <3>2. job'[q] = job[q] /\ cwd'[q] = cwd[q] /\ open'[q] = open[q]
      BY <1>2
    <3>3. QED
      BY <1>1, <3>1, <3>2 DEF Knows, Informed
  <2>2. QED
    BY <2>1
<1>4. Tree' /\ Acyclic'
  BY <1>1 DEF FilesInvariant, Tree, Acyclic, Below
<1>5. LinksExact'
  <2>1. \A i \in Inums : Named(i)' = Named(i) /\ Subdirs(i)' = Subdirs(i)
    BY <1>1 DEF Named, Subdirs, Entries, Target
  <2>2. \A i \in Inums : Pending(i)' = Pending(i)
    BY <1>2 DEF Pending
  <2>3. QED
    BY <1>1, <2>1, <2>2 DEF FilesInvariant, LinksExact
<1>6. QED
  BY <1>2, <1>3, <1>4, <1>5 DEF FilesInvariant

\* What is known of the call a process is in.
LEMMA HereIs ==
  ASSUME FilesInvariant, NEW p \in Callers
  PROVE  /\ job[p] \in Jobs /\ Shape(job[p]) /\ Knows(p) /\ FilesShaped /\ LocksExact
         /\ job[p].left \in Nat /\ job[p].call \in CallRecords /\ job[p].todo \in Paths
         /\ job[p].puts \in Seq(Inums) /\ Len(job[p].puts) <= 2
         /\ cwd[p] \in Inums /\ open[p] \in Inums \cup {0}
         /\ {job[p].at, job[p].ip, job[p].src} \subseteq Inums \cup {0}
<1>1. job[p] \in Jobs /\ Shape(job[p]) /\ Knows(p) /\ FilesShaped /\ LocksExact
  BY DEF FilesInvariant, FilesShaped
<1>2. cwd[p] \in Inums /\ open[p] \in Inums \cup {0}
  BY <1>1 DEF FilesShaped, FilesTyped
<1>3. QED
  BY <1>1, <1>2 DEF Jobs, Shape

\* How the references of a call change, part by part.
Change(k, j, x) ==
  /\ Holds(j, x) - Holds(k, x) =
       (Is(j.at, x) - Is(k.at, x)) + (Is(j.ip, x) - Is(k.ip, x))
       + (Is(j.src, x) - Is(k.src, x)) + (Occurs(j.puts, x) - Occurs(k.puts, x))
  /\ Is(j.at, x) \in Nat /\ Is(k.at, x) \in Nat /\ Is(j.ip, x) \in Nat
  /\ Is(k.ip, x) \in Nat /\ Is(j.src, x) \in Nat /\ Is(k.src, x) \in Nat
  /\ Occurs(j.puts, x) \in Nat /\ Occurs(k.puts, x) \in Nat /\ Holds(j, x) \in Nat
  /\ Is(0, x) = 0

\* Every change is one of the parts.
LEMMA HoldsChange ==
  ASSUME NEW k \in Jobs, Shape(k), NEW j \in Jobs, Shape(j)
  PROVE  \A x \in Inums : Change(k, j, x)
<1> SUFFICES ASSUME NEW x \in Inums PROVE Change(k, j, x)
  OBVIOUS
<1>1. Is(0, x) = 0 /\ \A a : Is(a, x) \in Nat
  BY IsType DEF Is
<1>2. Occurs(j.puts, x) \in Nat /\ Occurs(k.puts, x) \in Nat
  BY HoldsType
<1>3. QED
  BY <1>1, <1>2 DEF Holds, Change

\* A count that goes up by one, and one that does not.
LEMMA OneMore ==
  ASSUME NEW f \in [Inums -> Nat]
  PROVE  /\ \A i \in Inums : [f EXCEPT ![i] = @ + 1] = [x \in Inums |-> f[x] + Is(i, x)]
         /\ f = [x \in Inums |-> f[x] + Is(0, x)]
<1>1. ASSUME NEW i \in Inums PROVE [f EXCEPT ![i] = @ + 1] = [x \in Inums |-> f[x] + Is(i, x)]
  <2> DEFINE g == [f EXCEPT ![i] = @ + 1]
             h == [x \in Inums |-> f[x] + Is(i, x)]
  <2>1. ASSUME NEW x \in Inums PROVE g[x] = h[x]
    <3>1. CASE x = i
      BY <3>1 DEF Is
    <3>2. CASE x # i
      BY <3>2 DEF Is
    <3>3. QED
      BY <3>1, <3>2
  <2>2. g = [x \in Inums |-> g[x]] /\ h = [x \in Inums |-> h[x]]
    OBVIOUS
  <2> HIDE DEF g, h
  <2>3. g = h
    BY <2>1, <2>2
  <2>4. QED
    BY <2>3 DEF g, h
<1>2. f = [x \in Inums |-> f[x] + Is(0, x)]
  <2>1. \A x \in Inums : f[x] + Is(0, x) = f[x]
    BY IsType
  <2>2. QED
    BY <2>1
<1>3. QED
  BY <1>1, <1>2

\* iget() and idup() in the inode cache.
LEMMA GetFits ==
  ASSUME FilesShaped, NEW i \in Inums, Get(i)
  PROVE  /\ ref' = [x \in Inums |-> ref[x] + Is(i, x)] /\ valid' \in [Inums -> BOOLEAN]
<1>1. ref \in [Inums -> Nat] /\ valid \in [Inums -> BOOLEAN]
  BY DEF FilesShaped, FilesTyped
<1>2. ref' = [ref EXCEPT ![i] = @ + 1]
  BY DEF Get
<1>3. valid' = [valid EXCEPT ![i] = @ /\ ref[i] > 0]
  BY DEF Get
<1>4. valid' \in [Inums -> BOOLEAN]
  BY <1>1, <1>3
<1>5. [ref EXCEPT ![i] = @ + 1] = [x \in Inums |-> ref[x] + Is(i, x)]
  BY <1>1, OneMore
<1>6. QED
  BY <1>2, <1>4, <1>5

\* A call that goes on, with a new reference to i, or none if i is 0.
Moves(p, j, i) ==
  /\ Goto(p, j) /\ LockMoves(p, j) /\ UNCHANGED <<inodes, lost, cwd, open>>
  /\ NoLinkPanic' /\ valid' \in [Inums -> BOOLEAN]
  /\ ref' = [x \in Inums |-> ref[x] + Is(i, x)]
Gains(p, j, i) == \A x \in Inums : Holds(j, x) - Holds(job[p], x) = Is(i, x)

\* Such a step has a frame.
LEMMA MoveFrame ==
  ASSUME FilesShaped, NEW p \in Callers, NEW j \in Jobs, Shape(j), NEW i, Gains(p, j, i),
         Goto(p, j), LockMoves(p, j), UNCHANGED <<cwd, open>>, valid' \in [Inums -> BOOLEAN],
         ref' = [x \in Inums |-> ref[x] + Is(i, x)]
  PROVE  Frame(p, j)
<1>1. /\ cwd' \in [Callers -> Inums] /\ open' \in [Callers -> Inums \cup {0}]
      /\ \A q \in Callers \ {p} : cwd'[q] = cwd[q] /\ open'[q] = open[q]
  BY DEF FilesShaped, FilesTyped
<1>2. ASSUME NEW x \in Inums
      PROVE  ref'[x] = ref[x] + (Holds(j, x) - Holds(job[p], x)) + (Is(cwd'[p], x) - Is(cwd[p], x))
                       + (Is(open'[p], x) - Is(open[p], x))
  <2>1. cwd'[p] = cwd[p] /\ open'[p] = open[p]
    OBVIOUS
  <2>2. \A a : Is(a, x) \in Nat
    BY DEF Is
  <2>3. /\ ref'[x] = ref[x] + Is(i, x) /\ ref[x] \in Nat
        /\ Holds(j, x) - Holds(job[p], x) = Is(i, x)
    BY DEF FilesShaped, FilesTyped, Gains
  <2>4. QED
    BY <2>1, <2>2, <2>3
<1>3. RefsMove(p, j)
  BY <1>2 DEF RefsMove
<1>4. QED
  BY <1>1, <1>3 DEF Frame

\* Such a step keeps the invariant.
LEMMA MoveStep ==
  ASSUME FilesInvariant, NEW p \in Callers, NEW j \in Jobs, Shape(j), NEW i, Gains(p, j, i),
         Moves(p, j, i), Pends(j) = Pends(job[p]), Informed(j)
  PROVE  FilesInvariant'
<1>1. /\ FilesShaped /\ Knows(p) /\ Goto(p, j) /\ LockMoves(p, j) /\ UNCHANGED <<inodes, lost, cwd, open>>
      /\ NoLinkPanic' /\ valid' \in [Inums -> BOOLEAN]
      /\ ref' = [x \in Inums |-> ref[x] + Is(i, x)]
  BY HereIs DEF Moves
<1>2. Frame(p, j)
  BY <1>1, MoveFrame
<1>3. Knows(p)'
  <2>1. job'[p] = j /\ UNCHANGED <<type, names, cwd, open>>
    BY <1>1, OneJob DEF inodes
  <2>2. QED
    BY <1>1, <2>1 DEF Knows, Informed
<1>4. QED
  BY <1>1, <1>2, <1>3, QuietStep

-----------------------------------------------------------------------------
(* The steps that leave the disk alone. *)

\* A call starts at the root or in the current directory.
LEMMA StartCallStep ==
  ASSUME FilesInvariant, NEW p \in Callers, NEW c \in Calls, Begin(p, c)
  PROVE  FilesInvariant'
<1> DEFINE i == IF c.abs THEN Root ELSE cwd[p]
           j == [job[p] EXCEPT !.pc = "walk", !.call = c, !.todo = c.path, !.at = i, !.left = @ - 1]
<1>1. /\ job[p].pc = "idle" /\ job[p].puts = <<>> /\ panic = "no" /\ job[p].left > 0
      /\ Get(i) /\ Goto(p, j) /\ UNCHANGED <<inodes, owner, cwd, open, lost, panic>>
  BY DEF Begin, At
<1>2. /\ job[p] \in Jobs /\ Shape(job[p]) /\ Knows(p) /\ FilesShaped /\ LocksExact
      /\ job[p].left - 1 \in Nat
  BY <1>1, HereIs
<1>3. c \in CallRecords /\ c.path \in Paths /\ i \in Inums /\ i # 0
  BY FilesBasics, HereIs DEF CallRecords
<1> HIDE DEF i
<1>4. j \in Jobs
  BY <1>2, <1>3 DEF Jobs
<1>5. /\ j.pc = "walk" /\ j.call = c /\ j.at = i /\ j.ip = job[p].ip /\ j.src = job[p].src
      /\ j.puts = job[p].puts /\ j.drop = job[p].drop
  BY <1>2 DEF Jobs
<1> HIDE DEF j
<1>6. job[p].at = 0 /\ j.ip = 0 /\ j.src = 0 /\ job[p].ip = 0
  BY <1>1, <1>2, <1>5 DEF Shape
<1>7. Shape(j)
  BY <1>1, <1>2, <1>3, <1>5, <1>6 DEF Shape
<1>8. Owns(j) = Owns(job[p]) /\ Pends(j) = Pends(job[p])
  BY <1>1, <1>5, <1>6 DEF Owns, Pends
<1>9. Gains(p, j, i)
  <2> SUFFICES ASSUME NEW x \in Inums PROVE Holds(j, x) - Holds(job[p], x) = Is(i, x)
    BY DEF Gains
  <2>1. Change(job[p], j, x)
    BY <1>2, <1>4, <1>7, HoldsChange
  <2>2. QED
    BY <1>5, <1>6, <2>1 DEF Change
<1>10. Moves(p, j, i)
  BY <1>1, <1>2, <1>3, <1>8, LockStays, GetFits DEF Moves, NoLinkPanic
<1>11. Informed(j)
  BY <1>5, <1>6 DEF Informed, Linking
<1>12. QED
  BY <1>4, <1>7, <1>8, <1>9, <1>10, <1>11, MoveStep

\* fileclose(): the reference goes from the descriptor to what is to be put.
LEMMA CloseStep ==
  ASSUME FilesInvariant, NEW p \in Callers, Close(p)
  PROVE  FilesInvariant'
<1> DEFINE j == [job[p] EXCEPT !.puts = <<open[p]>>]
<1>1. /\ job[p].pc = "idle" /\ job[p].puts = <<>> /\ panic = "no" /\ open[p] # 0
      /\ Goto(p, j) /\ open' = [open EXCEPT ![p] = 0]
      /\ UNCHANGED <<inodes, ref, valid, owner, cwd, lost, panic>>
  BY DEF Close, At
<1>2. job[p] \in Jobs /\ Shape(job[p]) /\ Knows(p) /\ FilesShaped /\ LocksExact /\ open[p] \in Inums
  BY <1>1, HereIs
<1>a. <<open[p]>> \in Seq(Inums) /\ Len(<<open[p]>>) = 1 /\ <<open[p]>> # <<>>
  BY <1>2, ShortPuts
<1>3. j \in Jobs
  BY <1>2, <1>a DEF Jobs
<1>4. /\ j.pc = "idle" /\ j.call = job[p].call /\ j.at = job[p].at /\ j.ip = job[p].ip
      /\ j.src = job[p].src /\ j.puts = <<open[p]>> /\ j.drop = job[p].drop
  BY <1>1, <1>2 DEF Jobs
<1> HIDE DEF j
<1>5. Shape(j)
  BY <1>1, <1>2, <1>4, <1>a DEF Shape
<1>6. Owns(j) = Owns(job[p]) /\ Pends(j) = Pends(job[p])
  BY <1>1, <1>4 DEF Owns, Pends
<1>7. /\ open' \in [Callers -> Inums \cup {0}] /\ open'[p] = 0 /\ cwd' = cwd
      /\ cwd \in [Callers -> Inums] /\ ref \in [Inums -> Nat] /\ valid \in [Inums -> BOOLEAN]
      /\ \A q \in Callers \ {p} : open'[q] = open[q]
  BY <1>1, <1>2 DEF FilesShaped, FilesTyped
<1>8. Frame(p, j)
  <2>1. LockMoves(p, j)
    BY <1>1, <1>2, <1>6, LockStays
  <2>2. ASSUME NEW x \in Inums
        PROVE  ref'[x] = ref[x] + (Holds(j, x) - Holds(job[p], x)) + (Is(cwd'[p], x) - Is(cwd[p], x))
                         + (Is(open'[p], x) - Is(open[p], x))
    <3>1. Change(job[p], j, x)
      BY <1>2, <1>3, <1>5, HoldsChange
    <3>2. /\ Occurs(j.puts, x) = Is(open[p], x) /\ Occurs(job[p].puts, x) = 0
          /\ Is(open'[p], x) = 0 /\ Is(cwd[p], x) \in Nat /\ Is(open[p], x) \in Nat
          /\ ref'[x] = ref[x] /\ ref[x] \in Nat /\ cwd'[p] = cwd[p]
      <4>1. Is(cwd[p], x) \in Nat /\ Is(open[p], x) \in Nat
        BY DEF Is
      <4>2. QED
        BY <1>1, <1>4, <1>7, <4>1, OccursOne, OccursNone, IsType
    <3>3. QED
      BY <1>4, <3>1, <3>2 DEF Change
  <2>3. RefsMove(p, j)
    BY <1>1, <1>7, <2>2 DEF RefsMove
  <2>4. QED
    BY <1>1, <1>7, <2>1, <2>3 DEF Frame
<1>9. Knows(p)'
  <2>1. job'[p] = j /\ UNCHANGED <<type, names, cwd>> /\ open'[p] = 0
    BY <1>1, <1>2, <1>3, <1>7, OneJob DEF inodes
  <2>2. job[p].ip = 0
    BY <1>1, <1>2 DEF Shape
  <2>3. QED
    BY <1>2, <1>4, <2>1, <2>2 DEF Knows, Informed, Linking
<1>10. QED
  BY <1>1, <1>3, <1>5, <1>6, <1>8, <1>9, QuietStep DEF NoLinkPanic

\* iput() drops the reference.
LEMMA PutDropStep ==
  ASSUME FilesInvariant, NEW p \in Callers, PutDrop(p)
  PROVE  FilesInvariant'
<1> DEFINE j == [job[p] EXCEPT !.puts = Tail(@), !.drop = FALSE]
           i == Head(job[p].puts)
<1>1. /\ job[p].drop /\ panic = "no" /\ ref' = [ref EXCEPT ![i] = @ - 1] /\ Goto(p, j)
      /\ UNCHANGED <<inodes, valid, owner, cwd, open, lost, panic>>
  BY DEF PutDrop
<1>2. /\ job[p] \in Jobs /\ Shape(job[p]) /\ Knows(p) /\ FilesShaped /\ LocksExact
      /\ job[p].puts \in Seq(Inums) /\ Len(job[p].puts) <= 2 /\ job[p].puts # <<>>
  BY <1>1, HereIs DEF Shape
<1>3. /\ i \in Inums /\ Tail(job[p].puts) \in Seq(Inums) /\ Len(Tail(job[p].puts)) <= 2
      /\ \A x \in Inums : Occurs(Tail(job[p].puts), x) = Occurs(job[p].puts, x) - Is(i, x)
  BY <1>2, PutsRest
<1> HIDE DEF i
<1>4. j \in Jobs
  BY <1>2, <1>3 DEF Jobs
<1>5. /\ j.pc = job[p].pc /\ j.call = job[p].call /\ j.at = job[p].at /\ j.ip = job[p].ip
      /\ j.src = job[p].src /\ j.puts = Tail(job[p].puts) /\ ~j.drop /\ j.todo = job[p].todo
  BY <1>2 DEF Jobs
<1> HIDE DEF j
<1>6. Shape(j)
  BY <1>2, <1>3, <1>5 DEF Shape
<1>7. Owns(j) = Owns(job[p]) /\ Pends(j) = Pends(job[p])
  BY <1>5 DEF Owns, Pends
<1>8. Frame(p, j)
  <2>1. LockMoves(p, j)
    BY <1>1, <1>2, <1>7, LockStays
  <2>2. valid' \in [Inums -> BOOLEAN] /\ ref \in [Inums -> Nat]
    BY <1>1, <1>2 DEF FilesShaped, FilesTyped
  <2>3. ASSUME NEW x \in Inums
        PROVE  ref'[x] = ref[x] + (Holds(j, x) - Holds(job[p], x)) + (Is(cwd'[p], x) - Is(cwd[p], x))
                         + (Is(open'[p], x) - Is(open[p], x))
    <3>1. Change(job[p], j, x)
      BY <1>2, <1>4, <1>6, HoldsChange
    <3>2. Is(i, x) = (IF x = i THEN 1 ELSE 0) /\ \A a : Is(a, x) \in Nat
      BY DEF Is
    <3>3. Holds(j, x) - Holds(job[p], x) = 0 - Is(i, x)
      <4>1. Occurs(j.puts, x) = Occurs(job[p].puts, x) - Is(i, x) /\ Is(i, x) \in Nat
        BY <1>3, <1>5, <3>2
      <4>2. QED
        BY <1>5, <3>1, <4>1 DEF Change
    <3>4. ref'[x] = ref[x] - Is(i, x) /\ ref[x] \in Nat
      BY <1>1, <2>2, <3>2
    <3>5. Is(cwd'[p], x) = Is(cwd[p], x) /\ Is(open'[p], x) = Is(open[p], x)
      BY <1>1
    <3>6. QED
      BY <3>2, <3>3, <3>4, <3>5
  <2>4. RefsMove(p, j)
    <3>1. ref' = [x \in Inums |-> ref'[x]]
      BY <1>1, <2>2
    <3>2. QED
      BY <2>3, <3>1 DEF RefsMove
  <2>5. /\ cwd' \in [Callers -> Inums] /\ open' \in [Callers -> Inums \cup {0}]
        /\ \A q \in Callers \ {p} : cwd'[q] = cwd[q] /\ open'[q] = open[q]
    BY <1>1, <1>2 DEF FilesShaped, FilesTyped
  <2>6. QED
    BY <1>1, <2>1, <2>2, <2>4, <2>5 DEF Frame
<1>9. Knows(p)'
  <2>1. job'[p] = j /\ UNCHANGED <<type, names, cwd, open>>
    BY <1>1, <1>2, <1>4, OneJob DEF inodes
  <2>2. QED
    BY <1>2, <1>5, <2>1 DEF Knows, Informed, Linking
<1>10. QED
  BY <1>1, <1>4, <1>6, <1>7, <1>8, <1>9, QuietStep DEF NoLinkPanic

\* What the call held is to be put, or is the process's.
HandsOn(p, s) ==
  \A x \in Inums : Occurs(s, x) + (Is(cwd'[p], x) - Is(cwd[p], x))
                   + (Is(open'[p], x) - Is(open[p], x)) = Holds(job[p], x)

\* The step by which a call ends: it gives its lock up.
Ends(p, s) ==
  /\ Goto(p, Ended(job[p].left, s)) /\ Pends(job[p]) = 0
  /\ UNCHANGED <<inodes, lost, ref>> /\ NoLinkPanic'
  /\ owner' = [i \in Inums |-> IF i = Owns(job[p]) THEN NoOne ELSE owner[i]]
  /\ valid' \in [Inums -> BOOLEAN]
  /\ cwd' \in [Callers -> Inums] /\ open' \in [Callers -> Inums \cup {0}]
  /\ \A q \in Callers \ {p} : cwd'[q] = cwd[q] /\ open'[q] = open[q]
  /\ type[cwd'[p]] = "dir" /\ (open'[p] # 0 => type[open'[p]] # "free")
  /\ HandsOn(p, s)

\* A call that ends, with what it held to put or in the process.
LEMMA EndStep ==
  ASSUME FilesInvariant, NEW p \in Callers, NEW s \in Seq(Inums), Len(s) <= 2, Ends(p, s)
  PROVE  FilesInvariant'
<1> DEFINE j == Ended(job[p].left, s)
<1>1. /\ job[p] \in Jobs /\ Shape(job[p]) /\ Knows(p) /\ FilesShaped /\ LocksExact
      /\ job[p].left \in Nat
  BY HereIs
<1>2. /\ j \in Jobs /\ Shape(j) /\ j.pc = "idle" /\ Owns(j) = 0 /\ Pends(j) = 0
      /\ ~Linking(j) /\ \A x \in Inums : Holds(j, x) = Occurs(s, x)
  BY <1>1, EndedFits
<1>3. Goto(p, j) /\ UNCHANGED <<inodes, lost, ref>> /\ NoLinkPanic'
  BY DEF Ends
<1>a. Pends(job[p]) = 0
  BY DEF Ends
<1> HIDE DEF j
<1>4. Frame(p, j)
  <2>1. LockMoves(p, j)
    <3>1. Owns(j) = 0 /\ \A i \in Inums : i # 0
      BY <1>2, FilesBasics
    <3>2. [i \in Inums |-> IF i = Owns(job[p]) THEN NoOne ELSE owner[i]] =
          [i \in Inums |-> IF i = Owns(j) THEN p
                           ELSE IF i = Owns(job[p]) THEN NoOne ELSE owner[i]]
      BY <3>1
    <3>3. QED
      BY <3>1, <3>2 DEF LockMoves, Ends
  <2>2. ref \in [Inums -> Nat]
    BY <1>1 DEF FilesShaped, FilesTyped
  <2>3. ASSUME NEW x \in Inums
        PROVE  ref'[x] = ref[x] + (Holds(j, x) - Holds(job[p], x)) + (Is(cwd'[p], x) - Is(cwd[p], x))
                         + (Is(open'[p], x) - Is(open[p], x))
    <3>1. /\ Occurs(s, x) \in Nat /\ Holds(job[p], x) \in Nat /\ ref[x] \in Nat /\ ref'[x] = ref[x]
      BY <1>1, <1>3, <2>2, HeldType, PutsRest
    <3>2. \A a : Is(a, x) \in Nat
      BY DEF Is
    <3>3. Occurs(s, x) + (Is(cwd'[p], x) - Is(cwd[p], x)) + (Is(open'[p], x) - Is(open[p], x))
            = Holds(job[p], x)
      BY DEF HandsOn, Ends
    <3>4. /\ Is(cwd'[p], x) \in Nat /\ Is(cwd[p], x) \in Nat
          /\ Is(open'[p], x) \in Nat /\ Is(open[p], x) \in Nat /\ Holds(j, x) = Occurs(s, x)
      BY <1>2, <3>2
    <3> DEFINE o == Occurs(s, x)
               h == Holds(job[p], x)
               a == Is(cwd'[p], x)
               b == Is(cwd[p], x)
               c == Is(open'[p], x)
               d == Is(open[p], x)
    <3>5. /\ o \in Nat /\ h \in Nat /\ a \in Nat /\ b \in Nat /\ c \in Nat /\ d \in Nat
          /\ ref[x] \in Nat /\ o + (a - b) + (c - d) = h
      BY <3>1, <3>3, <3>4
    <3>6. Holds(j, x) = o /\ ref'[x] = ref[x]
      BY <3>1, <3>4
    <3> HIDE DEF o, h, a, b, c, d
    <3>7. ref[x] = ref[x] + (o - h) + (a - b) + (c - d)
      BY <3>5
    <3>8. QED
      BY <3>6, <3>7 DEF h, a, b, c, d
  <2>4. RefsMove(p, j)
    BY <1>3, <2>2, <2>3 DEF RefsMove
  <2>5. QED
    BY <1>3, <2>1, <2>4 DEF Frame, Ends
<1>5. Knows(p)'
  <2>1. job'[p] = j /\ UNCHANGED <<type, names>>
    BY <1>1, <1>2, <1>3, OneJob DEF inodes
  <2>2. QED
    BY <1>2, <2>1 DEF Knows, Informed, Ends
<1>6. QED
  BY <1>2, <1>3, <1>4, <1>5, <1>a, QuietStep

\* The call's lock, if it has one, is given up.
Releases(p) == owner' = [i \in Inums |-> IF i = Owns(job[p]) THEN NoOne ELSE owner[i]]

\* Releasing the lock a call holds, or leaving the locks alone when it has none.
LEMMA GiveUp ==
  ASSUME FilesShaped, NEW p \in Callers,
         \/ Owns(job[p]) = 0 /\ UNCHANGED owner
         \/ Owns(job[p]) \in Inums /\ Unlock(Owns(job[p]))
  PROVE  Releases(p)
<1>1. owner = [i \in Inums |-> owner[i]]
  BY DEF FilesShaped, FilesTyped
<1>2. CASE Owns(job[p]) = 0 /\ UNCHANGED owner
  <2>1. \A i \in Inums : i # 0
    BY FilesBasics
  <2>2. QED
    BY <1>1, <1>2, <2>1 DEF Releases
<1>3. CASE Owns(job[p]) \in Inums /\ Unlock(Owns(job[p]))
  <2> DEFINE o == Owns(job[p])
  <2>1. owner' = [owner EXCEPT ![o] = NoOne]
    BY <1>3 DEF Unlock
  <2> HIDE DEF o
  <2>2. owner' = [i \in Inums |-> IF i = o THEN NoOne ELSE owner[i]]
    BY <1>1, <2>1
  <2>3. QED
    BY <2>2 DEF Releases, o
<1>4. QED
  BY <1>2, <1>3

\* A cache entry that is read, and one that stays.
LEMMA CachedFits ==
  ASSUME FilesShaped, NEW i, Cached(i) \/ UNCHANGED valid
  PROVE  valid' \in [Inums -> BOOLEAN]
  BY DEF FilesShaped, FilesTyped, Cached

\* What the end of a call leaves alone.
Calm == /\ UNCHANGED <<inodes, ref, cwd, open, lost>> /\ NoLinkPanic'
        /\ valid' \in [Inums -> BOOLEAN]
Puts(p, s) == \A x \in Inums : Occurs(s, x) = Holds(job[p], x)

\* A call that ends with all it holds in the list of what is to be put.
LEMMA QuietEnd ==
  ASSUME FilesInvariant, NEW p \in Callers, NEW s \in Seq(Inums), Len(s) <= 2,
         Goto(p, Ended(job[p].left, s)), Pends(job[p]) = 0, Calm, Releases(p), Puts(p, s)
  PROVE  FilesInvariant'
<1>1. /\ FilesShaped /\ Knows(p)
      /\ cwd \in [Callers -> Inums] /\ open \in [Callers -> Inums \cup {0}]
  BY HereIs DEF FilesShaped, FilesTyped
<1>2. HandsOn(p, s)
  <2> SUFFICES ASSUME NEW x \in Inums
               PROVE  Occurs(s, x) + (Is(cwd'[p], x) - Is(cwd[p], x))
                        + (Is(open'[p], x) - Is(open[p], x)) = Holds(job[p], x)
    BY DEF HandsOn
  <2>1. Is(cwd[p], x) \in Nat /\ Is(open[p], x) \in Nat /\ Occurs(s, x) \in Nat
    BY PutsRest DEF Is
  <2>2. cwd' = cwd /\ open' = open /\ Occurs(s, x) = Holds(job[p], x)
    BY DEF Calm, Puts
  <2>3. QED
    BY <2>1, <2>2
<1>3. Ends(p, s)
  <2>1. /\ Goto(p, Ended(job[p].left, s)) /\ Pends(job[p]) = 0
        /\ UNCHANGED <<inodes, lost, ref>> /\ NoLinkPanic'
        /\ valid' \in [Inums -> BOOLEAN] /\ UNCHANGED <<cwd, open>>
        /\ owner' = [i \in Inums |-> IF i = Owns(job[p]) THEN NoOne ELSE owner[i]]
    BY DEF Calm, Releases
  <2>2. type[cwd'[p]] = "dir" /\ (open'[p] # 0 => type[open'[p]] # "free")
    BY <1>1, <2>1 DEF Knows
  <2>3. QED
    BY <1>1, <1>2, <2>1, <2>2 DEF Ends
<1>4. QED
  BY <1>3, EndStep

\* A list with all the inodes that a call held, which were one or two.
PutsOnly(j, a) ==
  /\ j.puts = <<>> /\ a \in Inums
  /\ \/ j.at = a /\ j.ip = 0 /\ j.src = 0
     \/ j.at = 0 /\ j.ip = a /\ j.src = 0
PutsBoth(j, a, b) ==
  /\ j.puts = <<>> /\ a \in Inums /\ b \in Inums
  /\ \/ j.at = a /\ j.ip = 0 /\ j.src = b
     \/ j.at = 0 /\ j.ip = a /\ j.src = b
     \/ j.at = 0 /\ j.ip = b /\ j.src = a
     \/ j.at = a /\ j.ip = b /\ j.src = 0

\* A call that ends and hands the one inode it holds to iput().
LEMMA PutOne ==
  ASSUME FilesInvariant, NEW p \in Callers, NEW a, PutsOnly(job[p], a),
         Goto(p, Ended(job[p].left, <<a>>)), Pends(job[p]) = 0, Calm, Releases(p)
  PROVE  FilesInvariant'
<1>1. a \in Inums /\ job[p].puts = <<>>
  BY DEF PutsOnly
<1>2. <<a>> \in Seq(Inums) /\ Len(<<a>>) <= 2
  BY <1>1, ShortPuts
<1>3. ASSUME NEW x \in Inums PROVE Occurs(<<a>>, x) = Holds(job[p], x)
  <2>1. Is(0, x) = 0 /\ Is(a, x) \in Nat
    BY IsType DEF Is
  <2>2. Occurs(<<a>>, x) = Is(a, x) /\ Occurs(job[p].puts, x) = 0
    BY <1>1, OccursOne, OccursNone
  <2>3. QED
    BY <2>1, <2>2 DEF PutsOnly, Holds
<1>4. Puts(p, <<a>>)
  BY <1>3 DEF Puts
<1>5. QED
  BY <1>2, <1>4, QuietEnd

\* A call that ends and hands the two inodes it holds to iput().
LEMMA PutBoth ==
  ASSUME FilesInvariant, NEW p \in Callers, NEW a, NEW b, PutsBoth(job[p], a, b),
         Goto(p, Ended(job[p].left, <<a, b>>)), Pends(job[p]) = 0, Calm, Releases(p)
  PROVE  FilesInvariant'
<1>1. a \in Inums /\ b \in Inums /\ job[p].puts = <<>>
  BY DEF PutsBoth
<1>2. <<a, b>> \in Seq(Inums) /\ Len(<<a, b>>) <= 2
  BY <1>1, ShortPuts
<1>3. ASSUME NEW x \in Inums PROVE Occurs(<<a, b>>, x) = Holds(job[p], x)
  <2>1. Is(0, x) = 0 /\ Is(a, x) \in Nat /\ Is(b, x) \in Nat
    BY IsType DEF Is
  <2>2. Occurs(<<a, b>>, x) = Is(a, x) + Is(b, x) /\ Occurs(job[p].puts, x) = 0
    BY <1>1, OccursTwo, OccursNone
  <2>3. QED
    BY <2>1, <2>2 DEF PutsBoth, Holds
<1>4. Puts(p, <<a, b>>)
  BY <1>3 DEF Puts
<1>5. QED
  BY <1>2, <1>4, QuietEnd

\* A list of one put before a list of one.
LEMMA TwoInARow ==
  ASSUME NEW S, NEW a \in S, NEW b \in S
  PROVE  <<a>> \o <<b>> = <<a, b>> /\ <<a>> \o <<>> = <<a>>
<1> DEFINE s == <<a>>
           t == <<b>>
           u == <<a, b>>
<1>1. /\ s \in Seq(S) /\ Len(s) = 1 /\ s[1] = a /\ t \in Seq(S) /\ Len(t) = 1 /\ t[1] = b
      /\ u \in Seq(S) /\ Len(u) = 2 /\ u[1] = a /\ u[2] = b
  OBVIOUS
<1> HIDE DEF s, t, u
<1>2. s \o <<>> = s
  BY <1>1, ConcatEmptySeq
<1>3. s \o t \in Seq(S) /\ Len(s \o t) = 2 /\ (s \o t)[1] = a /\ (s \o t)[2] = b
  <2>1. /\ s \o t \in Seq(S) /\ Len(s \o t) = Len(s) + Len(t)
        /\ \A i \in 1..Len(s) + Len(t) : (s \o t)[i] = IF i <= Len(s) THEN s[i] ELSE t[i - Len(s)]
    BY <1>1, ConcatProperties, Zenon
  <2>2. Len(s \o t) = 2
    BY <1>1, <2>1
  <2>3. (s \o t)[1] = a
    BY <1>1, <2>1
  <2>4. (s \o t)[2] = b
    BY <1>1, <2>1
  <2>5. QED
    BY <2>1, <2>2, <2>3, <2>4
<1>4. s \o t = u
  BY <1>1, <1>3, SeqEqual
<1>5. QED
  BY <1>2, <1>4 DEF s, t, u

\* A call that ends with an inode, and the source of a copy if it has one.
LEMMA PutSource ==
  ASSUME FilesInvariant, NEW p \in Callers, NEW a,
         a \in Inums, job[p].puts = <<>>,
         \/ job[p].at = a /\ job[p].ip = 0
         \/ job[p].at = 0 /\ job[p].ip = a,
         Goto(p, Ended(job[p].left, <<a>> \o Source(job[p]))), Pends(job[p]) = 0, Calm, Releases(p)
  PROVE  FilesInvariant'
<1>1. job[p].src \in Inums \cup {0}
  BY HereIs
<1>2. CASE job[p].src = 0
  <2>1. Source(job[p]) = <<>>
    BY <1>2 DEF Source
  <2>2. <<a>> \o Source(job[p]) = <<a>>
    BY <2>1, TwoInARow
  <2>3. PutsOnly(job[p], a) /\ Goto(p, Ended(job[p].left, <<a>>))
    BY <1>2, <2>2 DEF PutsOnly
  <2>4. QED
    BY <2>3, PutOne
<1>3. CASE job[p].src \in Inums
  <2> DEFINE b == job[p].src
  <2>1. Source(job[p]) = <<b>>
    BY <1>3, FilesBasics DEF Source
  <2>2. <<a>> \o Source(job[p]) = <<a, b>>
    BY <1>3, <2>1, TwoInARow
  <2>3. PutsBoth(job[p], a, b) /\ Goto(p, Ended(job[p].left, <<a, b>>))
    BY <1>3, <2>2 DEF PutsBoth
  <2> HIDE DEF b
  <2>4. QED
    BY <2>3, PutBoth
<1>4. QED
  BY <1>1, <1>2, <1>3

\* A path that fails: link() goes on to take its count back, the other calls end.
LEMMA FailStep ==
  ASSUME FilesInvariant, NEW p \in Callers, job[p].pc \in {"walk", "clash"}, job[p].puts = <<>>,
         Goto(p, Failed(job[p])), Calm, Releases(p)
  PROVE  FilesInvariant'
<1> DEFINE k == job[p]
<1>1. /\ k \in Jobs /\ Shape(k) /\ Knows(p) /\ FilesShaped /\ LocksExact
      /\ k.at \in Inums \cup {0} /\ k.ip \in Inums \cup {0} /\ k.src \in Inums \cup {0}
  BY HereIs
<1>2. /\ k.at # 0 /\ k.at \in Inums /\ (k.ip # 0 => k.call.op = "link")
      /\ (k.src # 0 => k.call.op = "copy")
      /\ k.drop = FALSE
  <2>1. k.pc \in {"walk", "clash"} /\ k.puts = <<>>
    OBVIOUS
  <2> HIDE DEF k
  <2>2. QED
    BY <1>1, <2>1 DEF Shape, Jobs
<1>3. CASE k.ip # 0
  <2> DEFINE j == [k EXCEPT !.pc = "bad", !.at = 0, !.puts = <<k.at>>]
  <2>1. Goto(p, j)
    BY <1>3 DEF Failed
  <2>2. k.pc \in {"walk", "clash"} /\ k.puts = <<>>
    OBVIOUS
  <2>a. <<k.at>> \in Seq(Inums) /\ Len(<<k.at>>) = 1 /\ <<k.at>> # <<>>
    BY <1>2, ShortPuts
  <2>3. j \in Jobs
    BY <1>1, <2>a DEF Jobs
  <2>4. /\ j.pc = "bad" /\ j.call = k.call /\ j.at = 0 /\ j.ip = k.ip /\ j.src = k.src
        /\ j.puts = <<k.at>> /\ j.drop = FALSE /\ j.todo = k.todo
    BY <1>1, <1>2 DEF Jobs
  <2> HIDE DEF j
  <2>5. Shape(j)
    BY <1>2, <1>3, <2>4, <2>a DEF Shape
  <2>6. Pends(j) = Pends(job[p]) /\ Informed(j) /\ Owns(j) = 0
    BY <1>1, <1>2, <1>3, <2>4 DEF Pends, Informed, Owns, Knows, Linking
  <2>7. Gains(p, j, 0)
    <3> SUFFICES ASSUME NEW x \in Inums PROVE Holds(j, x) - Holds(job[p], x) = Is(0, x)
      BY DEF Gains
    <3>1. Change(job[p], j, x)
      BY <1>1, <2>3, <2>5, HoldsChange
    <3>2. Occurs(j.puts, x) = Is(k.at, x) /\ Occurs(k.puts, x) = 0
      BY <2>2, <2>4, OccursOne, OccursNone
    <3>3. QED
      BY <2>4, <3>1, <3>2 DEF Change
  <2>8. LockMoves(p, j)
    <3>1. \A i \in Inums : i # 0
      BY FilesBasics
    <3>2. QED
      BY <2>6, <3>1 DEF Releases, LockMoves
  <2>9. ref' = [x \in Inums |-> ref[x] + Is(0, x)]
    <3>1. ref \in [Inums -> Nat] /\ ref' = ref
      BY <1>1 DEF FilesShaped, FilesTyped, Calm
    <3>2. QED
      BY <3>1, OneMore
  <2>10. Moves(p, j, 0)
    BY <2>1, <2>8, <2>9 DEF Moves, Calm
  <2>11. QED
    BY <2>3, <2>5, <2>6, <2>7, <2>10, MoveStep
<1>4. CASE k.ip = 0
  <2>1. Goto(p, Ended(k.left, <<k.at>> \o Source(k)))
    BY <1>4, EndedIs DEF Failed
  <2>2. Pends(k) = 0
    BY <1>4 DEF Pends
  <2>3. QED
    BY <1>2, <1>4, <2>1, <2>2, PutSource
<1>5. QED
  BY <1>3, <1>4

\* Reference counts that stay.
LEMMA SameRefs ==
  ASSUME FilesShaped, UNCHANGED ref
  PROVE  ref' = [x \in Inums |-> ref[x] + Is(0, x)]
<1>1. ref \in [Inums -> Nat]
  BY DEF FilesShaped, FilesTyped
<1>2. ref = [x \in Inums |-> ref[x] + Is(0, x)]
  BY <1>1, OneMore
<1>3. QED
  BY <1>2

\* What dirlookup() finds.
LEMMA LookupFits ==
  ASSUME FilesShaped, NEW d \in Inums, NEW s \in Paths, s # <<>>
  PROVE  /\ Lookup(d, Head(s)) \in Inums \cup {0} /\ Tail(s) \in Paths
         /\ Head(s) \notin {".", ".."} => Head(s) \in Names /\ Lookup(d, Head(s)) = names[d][Head(s)]
<1>1. Head(s) \in Names \cup {".", ".."} /\ Tail(s) \in Paths
  BY DEF Paths
<1>2. parent[d] \in Inums \cup {0} /\ \A n \in Names : names[d][n] \in Inums \cup {0}
  BY DEF FilesShaped, FilesTyped
<1>3. QED
  BY <1>1, <1>2 DEF Lookup

\* A count does not differ from itself.
LEMMA NoDifference ==
  ASSUME NEW n \in Nat
  PROVE  n - n = 0
  OBVIOUS

\* A step that only tells why the kernel stopped.
LEMMA StopStep ==
  ASSUME FilesInvariant, NEW p \in Callers,
         UNCHANGED <<inodes, ref, valid, owner, cwd, open, job, lost>>, NoLinkPanic'
  PROVE  FilesInvariant'
<1> DEFINE j == job[p]
<1>1. j \in Jobs /\ Shape(j) /\ Knows(p) /\ FilesShaped /\ LocksExact
  BY HereIs
<1>2. Goto(p, j)
  BY <1>1 DEF Goto, FilesShaped
<1>3. LockMoves(p, j)
  BY <1>1, LockStays
<1>4. ref' = [x \in Inums |-> ref[x] + Is(0, x)] /\ valid' \in [Inums -> BOOLEAN]
  BY <1>1, SameRefs DEF FilesShaped, FilesTyped
<1>5. Gains(p, j, 0)
  <2> SUFFICES ASSUME NEW x \in Inums PROVE Holds(j, x) - Holds(job[p], x) = Is(0, x)
    BY DEF Gains
  <2>1. Holds(job[p], x) \in Nat /\ Is(0, x) = 0
    BY <1>1, HeldType, IsType
  <2>2. Holds(job[p], x) - Holds(job[p], x) = 0
    BY <2>1, NoDifference, Zenon
  <2>3. QED
    BY <2>1, <2>2, Zenon
<1>6. Moves(p, j, 0) /\ Informed(j)
  BY <1>1, <1>2, <1>3, <1>4 DEF Moves, Knows
<1>7. QED
  BY <1>1, <1>5, <1>6, MoveStep

\* A path that has no element.
LEMMA NoElementStep ==
  ASSUME FilesInvariant, NEW p \in Callers, NoElement(p)
  PROVE  FilesInvariant'
<1>1. /\ job[p].pc = "walk" /\ job[p].puts = <<>> /\ panic = "no"
      /\ UNCHANGED <<inodes, ref, valid, owner, cwd, open, lost, panic>>
  BY DEF NoElement, At
<1>2. job[p] \in Jobs /\ Shape(job[p]) /\ Knows(p) /\ FilesShaped /\ LocksExact
  BY HereIs
<1>3. CASE StopsEarly(job[p])
  <2>1. Goto(p, Failed(job[p]))
    BY <1>3 DEF NoElement
  <2>2. Calm
    BY <1>1, <1>2, CachedFits DEF Calm, NoLinkPanic
  <2>3. Owns(job[p]) = 0
    BY <1>1 DEF Owns
  <2>4. Releases(p)
    BY <1>1, <1>2, <2>3, GiveUp
  <2>5. QED
    BY <1>1, <2>1, <2>2, <2>4, FailStep
<1>4. CASE ~StopsEarly(job[p])
  <2> DEFINE j == [job[p] EXCEPT !.pc = "found"]
  <2>1. Goto(p, j)
    BY <1>4 DEF NoElement
  <2>2. j \in Jobs
    BY <1>2 DEF Jobs
  <2>3. /\ j.pc = "found" /\ j.call = job[p].call /\ j.at = job[p].at /\ j.ip = job[p].ip
        /\ j.src = job[p].src /\ j.puts = job[p].puts /\ j.drop = job[p].drop
    BY <1>2 DEF Jobs
  <2> HIDE DEF j
  <2>4. job[p].ip = 0 /\ job[p].src = 0
    BY <1>4 DEF StopsEarly
  <2>5. Shape(j)
    BY <1>1, <1>2, <2>3, <2>4 DEF Shape
  <2>6. Owns(j) = Owns(job[p]) /\ Pends(j) = Pends(job[p]) /\ Informed(j)
    BY <1>1, <2>3, <2>4 DEF Owns, Pends, Informed, Linking
  <2>7. Gains(p, j, 0)
    <3> SUFFICES ASSUME NEW x \in Inums PROVE Holds(j, x) - Holds(job[p], x) = Is(0, x)
      BY DEF Gains
    <3>1. Change(job[p], j, x)
      BY <1>2, <2>2, <2>5, HoldsChange
    <3>2. QED
      BY <2>3, <3>1 DEF Change
  <2>8. Moves(p, j, 0)
    BY <1>1, <1>2, <2>1, <2>6, LockStays, SameRefs, CachedFits DEF Moves, NoLinkPanic
  <2>9. QED
    BY <2>2, <2>5, <2>6, <2>7, <2>8, MoveStep
<1>5. QED
  BY <1>3, <1>4

\* namex() takes one element of the path.
LEMMA WalkStep ==
  ASSUME FilesInvariant, NEW p \in Callers, Walk(p)
  PROVE  FilesInvariant'
<1> DEFINE k == job[p]
           next == Lookup(k.at, Head(k.todo))
           last == Len(k.todo) = 1
<1>1. /\ k.pc = "walk" /\ k.puts = <<>> /\ panic = "no" /\ k.todo # <<>> /\ Sees(k.at)
      /\ UNCHANGED <<inodes, owner, cwd, open, lost, panic>>
  BY DEF Walk, At
<1>2. /\ k \in Jobs /\ Shape(k) /\ Knows(p) /\ FilesShaped /\ LocksExact
      /\ k.at \in Inums \cup {0} /\ k.todo \in Paths
  BY HereIs
<1>3. k.at \in Inums /\ k.drop = FALSE /\ Owns(k) = 0
  <2> HIDE DEF k
  <2>1. QED
    BY <1>1, <1>2 DEF Shape, Jobs, Owns
<1>4. next \in Inums \cup {0} /\ Tail(k.todo) \in Paths
  <2> HIDE DEF k
  <2>1. QED
    BY <1>1, <1>2, <1>3, LookupFits
<1>5. CASE type[k.at] = "dir" /\ StopsEarly(k) /\ last
  <2> DEFINE j == [k EXCEPT !.pc = "parent"]
  <2>1. Goto(p, j) /\ Cached(k.at) /\ UNCHANGED ref
    BY <1>5 DEF Walk
  <2>2. j \in Jobs
    BY <1>2 DEF Jobs
  <2>3. /\ j.pc = "parent" /\ j.call = k.call /\ j.at = k.at /\ j.ip = k.ip
        /\ j.src = k.src /\ j.puts = k.puts /\ j.drop = k.drop /\ j.todo = k.todo
    BY <1>2 DEF Jobs
  <2> HIDE DEF j, k
  <2>4. Shape(j)
    BY <1>1, <1>2, <1>5, <2>3 DEF Shape, StopsEarly, Parental
  <2>5. Owns(j) = Owns(k) /\ Pends(j) = Pends(k) /\ Informed(j)
    BY <1>1, <1>2, <1>5, <2>3 DEF Owns, Pends, Informed, Knows, Linking, k
  <2>6. Gains(p, j, 0)
    <3> SUFFICES ASSUME NEW x \in Inums PROVE Holds(j, x) - Holds(k, x) = Is(0, x)
      BY DEF Gains, k
    <3>1. Change(k, j, x)
      BY <1>2, <2>2, <2>4, HoldsChange
    <3>2. QED
      BY <2>3, <3>1 DEF Change
  <2>7. LockMoves(p, j) /\ ref' = [x \in Inums |-> ref[x] + Is(0, x)] /\ valid' \in [Inums -> BOOLEAN]
    BY <1>1, <1>2, <2>1, <2>5, LockStays, SameRefs, CachedFits DEF k
  <2>8. Moves(p, j, 0)
    BY <1>1, <2>1, <2>7 DEF Moves, NoLinkPanic
  <2>9. QED
    BY <2>2, <2>4, <2>5, <2>6, <2>8, MoveStep DEF k
<1>6. CASE ~(type[k.at] = "dir" /\ StopsEarly(k) /\ last) /\ (type[k.at] # "dir" \/ next = 0)
  <2>1. Goto(p, Failed(k)) /\ Cached(k.at) /\ UNCHANGED ref
    BY <1>6 DEF Walk
  <2> HIDE DEF k, next, last
  <2>2. Calm
    BY <1>1, <1>2, <2>1, CachedFits DEF Calm, NoLinkPanic
  <2>3. Releases(p)
    BY <1>1, <1>2, <1>3, GiveUp DEF k
  <2>4. QED
    BY <1>1, <2>1, <2>2, <2>3, FailStep DEF k
<1>7. CASE type[k.at] = "dir" /\ ~(StopsEarly(k) /\ last) /\ next # 0
  <2> DEFINE pc == IF last THEN "found" ELSE "walk"
             j == [k EXCEPT !.pc = pc, !.at = next, !.todo = Tail(@), !.puts = <<k.at>>]
  <2>1. /\ Goto(p, j) /\ ref' = [ref EXCEPT ![next] = @ + 1]
        /\ valid' = [valid EXCEPT ![next] = @ /\ ref[next] > 0, ![k.at] = TRUE]
    BY <1>7 DEF Walk
  <2>2. <<k.at>> \in Seq(Inums) /\ Len(<<k.at>>) = 1 /\ <<k.at>> # <<>>
    BY <1>3, ShortPuts
  <2>3. pc \in {"found", "walk"} /\ (pc = "found" => last)
    OBVIOUS
  <2> HIDE DEF next, last, pc
  <2>4. j \in Jobs
    BY <1>2, <1>4, <2>2, <2>3 DEF Jobs
  <2>5. /\ j.pc = pc /\ j.call = k.call /\ j.at = next /\ j.ip = k.ip
        /\ j.src = k.src /\ j.puts = <<k.at>> /\ j.drop = FALSE
    BY <1>2, <1>3 DEF Jobs
  <2> HIDE DEF j, k
  <2>6. Shape(j)
    BY <1>1, <1>2, <1>7, <2>2, <2>3, <2>5 DEF Shape, StopsEarly, Parental
  <2>7. Owns(j) = Owns(k) /\ Pends(j) = Pends(k) /\ Informed(j)
    BY <1>1, <1>2, <1>7, <2>3, <2>5 DEF Owns, Pends, Informed, Knows, Linking, k
  <2>8. Gains(p, j, next)
    <3> SUFFICES ASSUME NEW x \in Inums PROVE Holds(j, x) - Holds(k, x) = Is(next, x)
      BY DEF Gains, k
    <3>1. Change(k, j, x)
      BY <1>2, <2>4, <2>6, HoldsChange
    <3>2. Occurs(j.puts, x) = Is(k.at, x) /\ Occurs(k.puts, x) = 0
      BY <1>1, <2>5, OccursOne, OccursNone
    <3>3. QED
      BY <2>5, <3>1, <3>2 DEF Change
  <2>9. LockMoves(p, j)
    BY <1>1, <1>2, <2>7, LockStays DEF k
  <2>10. ref' = [x \in Inums |-> ref[x] + Is(next, x)] /\ valid' \in [Inums -> BOOLEAN]
    <3>1. ref \in [Inums -> Nat] /\ valid \in [Inums -> BOOLEAN] /\ next \in Inums
      BY <1>2, <1>4, <1>7 DEF FilesShaped, FilesTyped
    <3>2. [ref EXCEPT ![next] = @ + 1] = [x \in Inums |-> ref[x] + Is(next, x)]
      BY <3>1, OneMore
    <3>3. QED
      BY <2>1, <3>1, <3>2
  <2>11. Moves(p, j, next)
    BY <1>1, <2>1, <2>9, <2>10 DEF Moves, NoLinkPanic
  <2>12. QED
    BY <2>4, <2>6, <2>7, <2>8, <2>11, MoveStep DEF k
<1>8. QED
  BY <1>5, <1>6, <1>7

\* open() keeps the inode for the descriptor, or hands it to iput().
LEMMA OpenStep ==
  ASSUME FilesInvariant, NEW p \in Callers, Open(p)
  PROVE  FilesInvariant'
<1> DEFINE i == job[p].at
<1>1. /\ job[p].pc = "found" /\ job[p].puts = <<>> /\ panic = "no" /\ Sees(i) /\ Cached(i)
      /\ job[p].call.op \in {"open", "openw"}
      /\ UNCHANGED <<inodes, ref, owner, cwd, lost, panic>>
  BY DEF Open, At
<1>2. /\ job[p] \in Jobs /\ Shape(job[p]) /\ Knows(p) /\ FilesShaped /\ LocksExact
      /\ i \in Inums \cup {0}
  BY HereIs
<1>3. i \in Inums /\ i # 0 /\ job[p].ip = 0 /\ job[p].src = 0 /\ Owns(job[p]) = 0 /\ Pends(job[p]) = 0
  BY <1>1, <1>2 DEF Shape, Owns, Pends
<1>4. Releases(p) /\ valid' \in [Inums -> BOOLEAN]
  BY <1>1, <1>2, <1>3, GiveUp, CachedFits
<1>5. CASE open[p] # 0 \/ (type[i] = "dir" /\ job[p].call.op = "openw")
  <2>1. Goto(p, Ended(job[p].left, <<i>>)) /\ UNCHANGED open
    BY <1>5, EndedIs DEF Open, Done
  <2>2. PutsOnly(job[p], i)
    BY <1>1, <1>3 DEF PutsOnly
  <2>3. Calm
    BY <1>1, <1>4, <2>1 DEF Calm, NoLinkPanic
  <2> HIDE DEF i
  <2>4. QED
    BY <1>3, <1>4, <2>1, <2>2, <2>3, PutOne
<1>6. CASE ~(open[p] # 0 \/ (type[i] = "dir" /\ job[p].call.op = "openw"))
  <2>1. Goto(p, Ended(job[p].left, <<>>)) /\ open' = [open EXCEPT ![p] = i]
    BY <1>6, EndedIs DEF Open
  <2>2. open[p] = 0 /\ type[i] # "free"
    BY <1>1, <1>6 DEF Sees
  <2>3. /\ open' \in [Callers -> Inums \cup {0}] /\ open'[p] = i /\ cwd' = cwd
        /\ cwd \in [Callers -> Inums] /\ \A q \in Callers \ {p} : open'[q] = open[q]
    BY <1>1, <1>2, <1>3, <2>1 DEF FilesShaped, FilesTyped
  <2>4. HandsOn(p, <<>>)
    <3> SUFFICES ASSUME NEW x \in Inums
                 PROVE  Occurs(<<>>, x) + (Is(cwd'[p], x) - Is(cwd[p], x))
                          + (Is(open'[p], x) - Is(open[p], x)) = Holds(job[p], x)
      BY DEF HandsOn
    <3>1. /\ Occurs(<<>>, x) = 0 /\ Is(0, x) = 0 /\ Is(i, x) \in Nat /\ Is(cwd[p], x) \in Nat
      BY OccursNone, IsType DEF Is
    <3>2. Holds(job[p], x) = Is(i, x) + Is(0, x) + Is(0, x) + Occurs(<<>>, x)
      BY <1>1, <1>3 DEF Holds
    <3>3. Is(cwd'[p], x) = Is(cwd[p], x) /\ Is(open'[p], x) = Is(i, x) /\ Is(open[p], x) = Is(0, x)
      BY <2>2, <2>3
    <3> HIDE DEF i
    <3>4. QED
      BY <3>1, <3>2, <3>3
  <2> DEFINE s == <<>>
  <2>5. Ends(p, s)
    <3>1. /\ type[cwd'[p]] = "dir" /\ (open'[p] # 0 => type[open'[p]] # "free")
      BY <1>2, <2>2, <2>3 DEF Knows
    <3>2. owner' = [x \in Inums |-> IF x = Owns(job[p]) THEN NoOne ELSE owner[x]]
      BY <1>4 DEF Releases
    <3> HIDE DEF i
    <3>3. QED
      BY <1>1, <1>3, <1>4, <2>1, <2>3, <2>4, <3>1, <3>2 DEF Ends, NoLinkPanic
  <2>6. s \in Seq(Inums) /\ Len(s) <= 2
    BY EmptySeq
  <2> HIDE DEF s
  <2>7. QED
    BY <2>5, <2>6, EndStep
<1>7. QED
  BY <1>5, <1>6

\* chdir() takes the directory for the one the process was in.
LEMMA ChdirStep ==
  ASSUME FilesInvariant, NEW p \in Callers, chdir(p)
  PROVE  FilesInvariant'
<1> DEFINE i == job[p].at
<1>1. /\ job[p].pc = "found" /\ job[p].puts = <<>> /\ panic = "no" /\ Sees(i) /\ Cached(i)
      /\ job[p].call.op = "chdir"
      /\ UNCHANGED <<inodes, ref, owner, open, lost, panic>>
  BY DEF chdir, At
<1>2. /\ job[p] \in Jobs /\ Shape(job[p]) /\ Knows(p) /\ FilesShaped /\ LocksExact
      /\ i \in Inums \cup {0} /\ cwd[p] \in Inums
  BY HereIs
<1>3. i \in Inums /\ i # 0 /\ job[p].ip = 0 /\ job[p].src = 0 /\ Owns(job[p]) = 0 /\ Pends(job[p]) = 0
  BY <1>1, <1>2 DEF Shape, Owns, Pends
<1>4. Releases(p) /\ valid' \in [Inums -> BOOLEAN]
  BY <1>1, <1>2, <1>3, GiveUp, CachedFits
<1>5. CASE type[i] # "dir"
  <2>1. Goto(p, Ended(job[p].left, <<i>>)) /\ UNCHANGED cwd
    BY <1>5, EndedIs DEF chdir, Done
  <2>2. PutsOnly(job[p], i)
    BY <1>1, <1>3 DEF PutsOnly
  <2>3. Calm
    BY <1>1, <1>4, <2>1 DEF Calm, NoLinkPanic
  <2> HIDE DEF i
  <2>4. QED
    BY <1>3, <1>4, <2>1, <2>2, <2>3, PutOne
<1>6. CASE type[i] = "dir"
  <2> DEFINE s == <<cwd[p]>>
  <2>1. Goto(p, Ended(job[p].left, s)) /\ cwd' = [cwd EXCEPT ![p] = i]
    BY <1>6, EndedIs DEF chdir, Done
  <2>2. s \in Seq(Inums) /\ Len(s) <= 2 /\ \A x : Occurs(s, x) = Is(cwd[p], x)
    BY <1>2, ShortPuts, OccursOne
  <2> HIDE DEF s
  <2>3. /\ cwd' \in [Callers -> Inums] /\ cwd'[p] = i /\ open' = open
        /\ open \in [Callers -> Inums \cup {0}] /\ \A q \in Callers \ {p} : cwd'[q] = cwd[q]
    BY <1>1, <1>2, <1>3, <2>1 DEF FilesShaped, FilesTyped
  <2>4. HandsOn(p, s)
    <3> SUFFICES ASSUME NEW x \in Inums
                 PROVE  Occurs(s, x) + (Is(cwd'[p], x) - Is(cwd[p], x))
                          + (Is(open'[p], x) - Is(open[p], x)) = Holds(job[p], x)
      BY DEF HandsOn
    <3>1. /\ Occurs(<<>>, x) = 0 /\ Is(0, x) = 0 /\ Is(i, x) \in Nat /\ Is(cwd[p], x) \in Nat
          /\ Is(open[p], x) \in Nat
      BY OccursNone, IsType DEF Is
    <3>2. Holds(job[p], x) = Is(i, x) + Is(0, x) + Is(0, x) + Occurs(<<>>, x)
      BY <1>1, <1>3 DEF Holds
    <3>3. /\ Is(cwd'[p], x) = Is(i, x) /\ Is(open'[p], x) = Is(open[p], x)
          /\ Occurs(s, x) = Is(cwd[p], x)
      BY <2>2, <2>3
    <3> HIDE DEF i
    <3>4. QED
      BY <3>1, <3>2, <3>3
  <2>5. Ends(p, s)
    <3>1. /\ type[cwd'[p]] = "dir" /\ (open'[p] # 0 => type[open'[p]] # "free")
      BY <1>2, <1>6, <2>3 DEF Knows
    <3>2. owner' = [x \in Inums |-> IF x = Owns(job[p]) THEN NoOne ELSE owner[x]]
      BY <1>4 DEF Releases
    <3> HIDE DEF i
    <3>3. QED
      BY <1>1, <1>3, <1>4, <2>1, <2>3, <2>4, <3>1, <3>2 DEF Ends, NoLinkPanic
  <2>6. QED
    BY <2>2, <2>5, EndStep
<1>7. QED
  BY <1>5, <1>6

\* create() finds the name and goes for the inode it names.
LEMMA CreateOldStep ==
  ASSUME FilesInvariant, NEW p \in Callers, CreateOld(p)
  PROVE  FilesInvariant'
<1> DEFINE k == job[p]
           i == Lookup(k.at, Head(k.todo))
           j == [k EXCEPT !.pc = "old", !.at = 0, !.ip = i, !.puts = <<k.at>>]
<1>1. /\ k.pc = "parent" /\ k.puts = <<>> /\ panic = "no" /\ k.call.op \in {"creat", "mkdir", "copy"}
      /\ i # 0 /\ Get(i) /\ Goto(p, j) /\ UNCHANGED <<inodes, owner, cwd, open, lost, panic>>
  BY DEF CreateOld, At
<1>2. /\ k \in Jobs /\ Shape(k) /\ Knows(p) /\ FilesShaped /\ LocksExact
      /\ k.at \in Inums \cup {0} /\ k.todo \in Paths
  BY HereIs
<1>3. k.at \in Inums /\ k.drop = FALSE /\ k.ip = 0 /\ k.todo # <<>>
  <2> HIDE DEF k, i, j
  <2>1. QED
    BY <1>1, <1>2 DEF Shape, Jobs
<1>4. i \in Inums
  <2> HIDE DEF k, j
  <2>1. i \in Inums \cup {0}
    BY <1>2, <1>3, LookupFits
  <2>2. QED
    BY <1>1, <2>1
<1>5. <<k.at>> \in Seq(Inums) /\ Len(<<k.at>>) = 1 /\ <<k.at>> # <<>>
  BY <1>3, ShortPuts
<1> HIDE DEF i
<1>6. j \in Jobs
  BY <1>2, <1>4, <1>5 DEF Jobs
<1>7. /\ j.pc = "old" /\ j.call = k.call /\ j.at = 0 /\ j.ip = i
      /\ j.src = k.src /\ j.puts = <<k.at>> /\ j.drop = FALSE
  BY <1>2, <1>3 DEF Jobs
<1> HIDE DEF j, k
<1>8. Shape(j)
  BY <1>1, <1>2, <1>5, <1>7 DEF Shape
<1>9. Owns(j) = Owns(k) /\ Pends(j) = Pends(k) /\ Informed(j)
  BY <1>1, <1>7 DEF Owns, Pends, Informed, Linking
<1>10. Gains(p, j, i)
  <2> SUFFICES ASSUME NEW x \in Inums PROVE Holds(j, x) - Holds(k, x) = Is(i, x)
    BY DEF Gains, k
  <2>1. Change(k, j, x)
    BY <1>2, <1>6, <1>8, HoldsChange
  <2>2. Occurs(j.puts, x) = Is(k.at, x) /\ Occurs(k.puts, x) = 0
    BY <1>1, <1>7, OccursOne, OccursNone
  <2>3. QED
    BY <1>3, <1>7, <2>1, <2>2 DEF Change
<1>11. LockMoves(p, j) /\ ref' = [x \in Inums |-> ref[x] + Is(i, x)] /\ valid' \in [Inums -> BOOLEAN]
  BY <1>1, <1>2, <1>4, <1>9, LockStays, GetFits DEF k
<1>12. Moves(p, j, i)
  BY <1>1, <1>11 DEF Moves, NoLinkPanic
<1>13. QED
  BY <1>6, <1>8, <1>9, <1>10, <1>12, MoveStep DEF k

\* A call that takes a lock which is free, and had none.
LEMMA TakeLock ==
  ASSUME FilesShaped, NEW p \in Callers, NEW j, Owns(job[p]) = 0,
         Owns(j) \in Inums, Free(Owns(j)), Lock(Owns(j), p)
  PROVE  LockMoves(p, j)
<1> DEFINE o == Owns(j)
<1>1. owner = [i \in Inums |-> owner[i]] /\ owner' = [owner EXCEPT ![o] = p] /\ o \in Inums
  BY DEF FilesShaped, FilesTyped, Lock
<1>2. \A i \in Inums : i # 0
  BY FilesBasics
<1>3. owner[o] = NoOne
  BY DEF Free
<1> HIDE DEF o
<1>4. owner' = [i \in Inums |-> IF i = o THEN p ELSE IF i = 0 THEN NoOne ELSE owner[i]]
  BY <1>1, <1>2
<1>5. QED
  BY <1>3, <1>4 DEF LockMoves, o

\* create() has the lock of what it found, and takes it if it is a file.
LEMMA CreateTakesOldStep ==
  ASSUME FilesInvariant, NEW p \in Callers, CreateTakesOld(p)
  PROVE  FilesInvariant'
<1> DEFINE k == job[p]
<1>1. /\ k.pc = "old" /\ k.puts = <<>> /\ panic = "no" /\ Sees(k.ip) /\ Cached(k.ip)
      /\ UNCHANGED <<inodes, ref, cwd, open, lost, panic>>
  BY DEF CreateTakesOld, At
<1>2. /\ k \in Jobs /\ Shape(k) /\ Knows(p) /\ FilesShaped /\ LocksExact
      /\ k.ip \in Inums \cup {0} /\ valid' \in [Inums -> BOOLEAN]
  BY <1>1, HereIs, CachedFits
<1>3. /\ k.at = 0 /\ k.ip \in Inums /\ k.ip # 0 /\ k.drop = FALSE
      /\ k.call.op \in {"creat", "mkdir", "copy"}
  <2> HIDE DEF k
  <2>1. QED
    BY <1>1, <1>2 DEF Shape, Jobs
<1>4. Owns(k) = 0 /\ Pends(k) = 0
  BY <1>1, <1>3 DEF Owns, Pends
<1>5. CASE k.call.op # "mkdir" /\ type[k.ip] = "file"
  <2> DEFINE j == [k EXCEPT !.pc = "created"]
  <2>1. Goto(p, j) /\ Lock(k.ip, p)
    BY <1>5 DEF CreateTakesOld
  <2>2. j \in Jobs
    BY <1>2 DEF Jobs
  <2>3. /\ j.pc = "created" /\ j.call = k.call /\ j.at = k.at /\ j.ip = k.ip
        /\ j.src = k.src /\ j.puts = k.puts /\ j.drop = k.drop
    BY <1>2 DEF Jobs
  <2> HIDE DEF j, k
  <2>4. Shape(j)
    BY <1>1, <1>2, <1>3, <2>3 DEF Shape
  <2>5. Owns(j) = k.ip /\ Pends(j) = Pends(k) /\ Informed(j)
    BY <1>3, <1>4, <1>5, <2>3 DEF Owns, Pends, Informed, Linking
  <2>6. Gains(p, j, 0)
    <3> SUFFICES ASSUME NEW x \in Inums PROVE Holds(j, x) - Holds(k, x) = Is(0, x)
      BY DEF Gains, k
    <3>1. Change(k, j, x)
      BY <1>2, <2>2, <2>4, HoldsChange
    <3>2. QED
      BY <2>3, <3>1 DEF Change
  <2>7. LockMoves(p, j)
    BY <1>1, <1>2, <1>3, <1>4, <2>1, <2>5, TakeLock DEF Sees, k
  <2>8. Moves(p, j, 0)
    BY <1>1, <1>2, <2>1, <2>7, SameRefs DEF Moves, NoLinkPanic
  <2>9. QED
    BY <2>2, <2>4, <2>5, <2>6, <2>8, MoveStep DEF k
<1>6. CASE ~(k.call.op # "mkdir" /\ type[k.ip] = "file")
  <2>1. Goto(p, Ended(k.left, <<k.ip>> \o Source(k))) /\ UNCHANGED owner
    BY <1>6, EndedIs DEF CreateTakesOld
  <2> HIDE DEF k
  <2>2. Calm
    BY <1>1, <1>2 DEF Calm, NoLinkPanic
  <2>3. Releases(p)
    BY <1>2, <1>4, <2>1, GiveUp DEF k
  <2>4. QED
    BY <1>1, <1>3, <1>4, <2>1, <2>2, <2>3, PutSource DEF k
<1>7. QED
  BY <1>5, <1>6

\* The end of open(O_CREATE) and of mkdir().
LEMMA CreatedStep ==
  ASSUME FilesInvariant, NEW p \in Callers, Created(p)
  PROVE  FilesInvariant'
<1> DEFINE i == job[p].ip
           opens == job[p].call.op = "creat" /\ open[p] = 0
<1>1. /\ job[p].pc = "created" /\ job[p].puts = <<>> /\ panic = "no" /\ Unlock(i)
      /\ job[p].call.op # "copy"
      /\ open' = [open EXCEPT ![p] = IF opens THEN i ELSE @]
      /\ UNCHANGED <<inodes, ref, valid, cwd, lost, panic>>
  BY DEF Created, At
<1>2. /\ job[p] \in Jobs /\ Shape(job[p]) /\ Knows(p) /\ FilesShaped /\ LocksExact
      /\ i \in Inums \cup {0} /\ open[p] \in Inums \cup {0}
  BY HereIs
<1>3. /\ i \in Inums /\ i # 0 /\ job[p].at = 0 /\ job[p].src = 0
      /\ Owns(job[p]) = i /\ Pends(job[p]) = 0 /\ type[i] # "free"
  BY <1>1, <1>2 DEF Shape, Owns, Pends, Knows, Informed
<1>4. Releases(p) /\ valid' \in [Inums -> BOOLEAN]
  BY <1>1, <1>2, <1>3, GiveUp, CachedFits
<1>5. CASE ~opens
  <2>1. Goto(p, Ended(job[p].left, <<i>>)) /\ UNCHANGED open
    <3>1. Goto(p, Ended(job[p].left, <<i>>))
      BY <1>5, EndedIs DEF Created, Done
    <3>2. open' = [open EXCEPT ![p] = @] /\ open \in [Callers -> Inums \cup {0}]
      BY <1>1, <1>2, <1>5 DEF FilesShaped, FilesTyped
    <3>3. QED
      BY <3>1, <3>2
  <2>2. PutsOnly(job[p], i)
    BY <1>1, <1>3 DEF PutsOnly
  <2>3. Calm
    BY <1>1, <1>4, <2>1 DEF Calm, NoLinkPanic
  <2> HIDE DEF i
  <2>4. QED
    BY <1>3, <1>4, <2>1, <2>2, <2>3, PutOne
<1>6. CASE opens
  <2>1. Goto(p, Ended(job[p].left, <<>>)) /\ open' = [open EXCEPT ![p] = i]
    BY <1>1, <1>6, EndedIs DEF Created
  <2>2. open[p] = 0
    BY <1>6
  <2>3. /\ open' \in [Callers -> Inums \cup {0}] /\ open'[p] = i /\ cwd' = cwd
        /\ cwd \in [Callers -> Inums] /\ \A q \in Callers \ {p} : open'[q] = open[q]
    BY <1>1, <1>2, <1>3, <2>1 DEF FilesShaped, FilesTyped
  <2>4. HandsOn(p, <<>>)
    <3> SUFFICES ASSUME NEW x \in Inums
                 PROVE  Occurs(<<>>, x) + (Is(cwd'[p], x) - Is(cwd[p], x))
                          + (Is(open'[p], x) - Is(open[p], x)) = Holds(job[p], x)
      BY DEF HandsOn
    <3>1. /\ Occurs(<<>>, x) = 0 /\ Is(0, x) = 0 /\ Is(i, x) \in Nat /\ Is(cwd[p], x) \in Nat
      BY OccursNone, IsType DEF Is
    <3>2. Holds(job[p], x) = Is(0, x) + Is(i, x) + Is(0, x) + Occurs(<<>>, x)
      BY <1>1, <1>3 DEF Holds
    <3>3. Is(cwd'[p], x) = Is(cwd[p], x) /\ Is(open'[p], x) = Is(i, x) /\ Is(open[p], x) = Is(0, x)
      BY <2>2, <2>3
    <3> HIDE DEF i
    <3>4. QED
      BY <3>1, <3>2, <3>3
  <2> DEFINE s == <<>>
  <2>5. Ends(p, s)
    <3>1. /\ type[cwd'[p]] = "dir" /\ (open'[p] # 0 => type[open'[p]] # "free")
      BY <1>2, <1>3, <2>3 DEF Knows
    <3>2. owner' = [x \in Inums |-> IF x = Owns(job[p]) THEN NoOne ELSE owner[x]]
      BY <1>4 DEF Releases
    <3> HIDE DEF i
    <3>3. QED
      BY <1>1, <1>3, <1>4, <2>1, <2>3, <2>4, <3>1, <3>2 DEF Ends, NoLinkPanic
  <2>6. s \in Seq(Inums) /\ Len(s) <= 2
    BY EmptySeq
  <2> HIDE DEF s
  <2>7. QED
    BY <2>5, <2>6, EndStep
<1>7. QED
  BY <1>5, <1>6

\* make_duplicate() keeps the source and looks for the copy.
LEMMA CopySourceStep ==
  ASSUME FilesInvariant, NEW p \in Callers, CopySource(p)
  PROVE  FilesInvariant'
<1> DEFINE k == job[p]
           i == IF k.call.toabs THEN Root ELSE cwd[p]
           j == [k EXCEPT !.pc = "walk", !.at = i, !.src = k.at, !.todo = k.call.to]
<1>1. /\ k.pc = "found" /\ k.puts = <<>> /\ panic = "no" /\ k.call.op = "copy"
      /\ Get(i) /\ Goto(p, j) /\ UNCHANGED <<inodes, owner, cwd, open, lost, panic>>
  BY DEF CopySource, At
<1>2. /\ k \in Jobs /\ Shape(k) /\ Knows(p) /\ FilesShaped /\ LocksExact
      /\ k.at \in Inums \cup {0} /\ k.call \in CallRecords /\ cwd[p] \in Inums
  BY HereIs
<1>3. k.at \in Inums /\ k.at # 0 /\ k.ip = 0 /\ k.src = 0 /\ k.call.to \in Paths
  <2> HIDE DEF k, i, j
  <2>1. QED
    BY <1>1, <1>2 DEF Shape, CallRecords
<1>4. i \in Inums /\ i # 0
  BY <1>2, FilesBasics
<1> HIDE DEF i
<1>5. j \in Jobs
  BY <1>2, <1>3, <1>4 DEF Jobs
<1>6. /\ j.pc = "walk" /\ j.call = k.call /\ j.at = i /\ j.ip = k.ip
      /\ j.src = k.at /\ j.puts = k.puts /\ j.drop = k.drop
  BY <1>2 DEF Jobs
<1> HIDE DEF j, k
<1>7. Shape(j)
  BY <1>1, <1>2, <1>3, <1>4, <1>6 DEF Shape
<1>8. Owns(j) = Owns(k) /\ Pends(j) = Pends(k) /\ Informed(j)
  BY <1>1, <1>3, <1>6 DEF Owns, Pends, Informed, Linking
<1>9. Gains(p, j, i)
  <2> SUFFICES ASSUME NEW x \in Inums PROVE Holds(j, x) - Holds(k, x) = Is(i, x)
    BY DEF Gains, k
  <2>1. Change(k, j, x)
    BY <1>2, <1>5, <1>7, HoldsChange
  <2>2. QED
    BY <1>3, <1>6, <2>1 DEF Change
<1>10. LockMoves(p, j) /\ ref' = [x \in Inums |-> ref[x] + Is(i, x)] /\ valid' \in [Inums -> BOOLEAN]
  BY <1>1, <1>2, <1>4, <1>8, LockStays, GetFits DEF k
<1>11. Moves(p, j, i)
  BY <1>1, <1>10 DEF Moves, NoLinkPanic
<1>12. QED
  BY <1>5, <1>7, <1>8, <1>9, <1>11, MoveStep DEF k

\* make_duplicate() is done with both inodes.
LEMMA CopyDataStep ==
  ASSUME FilesInvariant, NEW p \in Callers, CopyData(p)
  PROVE  FilesInvariant'
<1> DEFINE k == job[p]
<1>1. /\ k.pc = "created" /\ k.puts = <<>> /\ panic = "no" /\ k.call.op = "copy"
      /\ Unlock(k.ip) /\ Cached(k.src) /\ Goto(p, Ended(k.left, <<k.src, k.ip>>))
      /\ UNCHANGED <<inodes, ref, cwd, open, lost, panic>>
  BY EndedIs DEF CopyData, At
<1>2. /\ k \in Jobs /\ Shape(k) /\ Knows(p) /\ FilesShaped /\ LocksExact
      /\ k.ip \in Inums \cup {0} /\ k.src \in Inums \cup {0} /\ valid' \in [Inums -> BOOLEAN]
  BY <1>1, HereIs, CachedFits
<1> HIDE DEF k
<1>3. k.at = 0 /\ k.ip \in Inums /\ k.src \in Inums /\ Owns(k) = k.ip /\ Pends(k) = 0
  BY <1>1, <1>2 DEF Shape, Owns, Pends
<1>4. Calm
  BY <1>1, <1>2 DEF Calm, NoLinkPanic
<1>5. Releases(p)
  BY <1>1, <1>2, <1>3, GiveUp DEF k
<1>6. PutsBoth(k, k.src, k.ip)
  BY <1>1, <1>3 DEF PutsBoth
<1>7. QED
  BY <1>1, <1>3, <1>4, <1>5, <1>6, PutBoth DEF k

\* link() and unlink() give the directory up.
LEMMA ClashStep ==
  ASSUME FilesInvariant, NEW p \in Callers, Clash(p)
  PROVE  FilesInvariant'
<1> DEFINE k == job[p]
<1>1. /\ k.pc = "clash" /\ k.puts = <<>> /\ panic = "no" /\ Unlock(k.at) /\ Goto(p, Failed(k))
      /\ UNCHANGED <<inodes, ref, valid, cwd, open, lost, panic>>
  BY DEF Clash, At
<1>2. /\ k \in Jobs /\ Shape(k) /\ FilesShaped /\ k.at \in Inums \cup {0}
      /\ valid' \in [Inums -> BOOLEAN]
  BY <1>1, HereIs, CachedFits
<1> HIDE DEF k
<1>3. k.at \in Inums /\ Owns(k) = k.at
  BY <1>1, <1>2 DEF Shape, Owns
<1>4. Calm
  BY <1>1, <1>2 DEF Calm, NoLinkPanic
<1>5. Releases(p)
  BY <1>1, <1>2, <1>3, GiveUp DEF k
<1>6. QED
  BY <1>1, <1>4, <1>5, FailStep DEF k

\* unlink() finds nothing it may remove, or keeps the directory's lock and goes
\* for the victim.
LEMMA UnlinkStep ==
  ASSUME FilesInvariant, NEW p \in Callers, Unlink(p)
  PROVE  FilesInvariant'
<1> DEFINE k == job[p]
           n == Head(k.todo)
           i == Lookup(k.at, n)
<1>1. /\ k.pc = "parent" /\ k.puts = <<>> /\ panic = "no" /\ k.call.op = "unlink" /\ Sees(k.at)
      /\ UNCHANGED <<inodes, cwd, open, lost, panic>>
  BY DEF Unlink, At
<1>2. /\ k \in Jobs /\ Shape(k) /\ Knows(p) /\ FilesShaped /\ LocksExact
      /\ k.at \in Inums \cup {0} /\ k.todo \in Paths
  BY HereIs
<1>3. /\ k.at \in Inums /\ k.drop = FALSE /\ k.ip = 0 /\ k.src = 0 /\ k.todo # <<>>
      /\ Owns(k) = 0 /\ Pends(k) = 0 /\ type[k.at] = "dir"
  <2>1. type[k.at] = "dir"
    BY <1>1, <1>2 DEF Knows, Informed
  <2> HIDE DEF k, n, i
  <2>2. QED
    BY <1>1, <1>2, <2>1 DEF Shape, Jobs, Owns, Pends
<1>4. CASE n \in Undeletable \/ i = 0
  <2>1. Goto(p, Ended(k.left, <<k.at>>)) /\ UNCHANGED <<ref, valid, owner>>
    BY <1>4, EndedIs DEF Unlink, Done
  <2> HIDE DEF k, n, i
  <2>2. PutsOnly(k, k.at)
    BY <1>1, <1>3 DEF PutsOnly
  <2>3. Calm
    BY <1>1, <1>2, <2>1, CachedFits DEF Calm, NoLinkPanic
  <2>4. Releases(p)
    BY <1>2, <1>3, <2>1, GiveUp DEF k
  <2>5. QED
    BY <1>3, <2>1, <2>2, <2>3, <2>4, PutOne DEF k
<1>5. CASE ~(n \in Undeletable \/ i = 0)
  <2> DEFINE j == [k EXCEPT !.pc = "victim", !.ip = i]
  <2>1. Goto(p, j) /\ Get(i) /\ Lock(k.at, p)
    BY <1>5 DEF Unlink
  <2>2. n \in Names /\ i \in Inums /\ i = names[k.at][n]
    <3>1. i \in Inums \cup {0} /\ (n \notin {".", ".."} => n \in Names /\ i = names[k.at][n])
      BY <1>2, <1>3, LookupFits
    <3>2. QED
      BY <1>5, <3>1 DEF Undeletable
  <2> HIDE DEF n, i
  <2>3. j \in Jobs
    BY <1>2, <2>2 DEF Jobs
  <2>4. /\ j.pc = "victim" /\ j.call = k.call /\ j.at = k.at /\ j.ip = i /\ j.todo = k.todo
        /\ j.src = k.src /\ j.puts = k.puts /\ j.drop = k.drop
    BY <1>2 DEF Jobs
  <2> HIDE DEF j
  <2>5. i # 0 /\ k.at # 0 /\ k.at \in Inums /\ Head(k.todo) = n
    BY <1>3, <2>2, FilesBasics DEF n
  <2> HIDE DEF k
  <2>6. Shape(j)
    BY <1>1, <1>2, <1>3, <2>2, <2>4, <2>5 DEF Shape
  <2>7. Owns(j) = k.at /\ Pends(j) = Pends(k) /\ Informed(j)
    BY <1>1, <1>3, <2>2, <2>4, <2>5 DEF Owns, Pends, Informed, Linking
  <2>8. Gains(p, j, i)
    <3> SUFFICES ASSUME NEW x \in Inums PROVE Holds(j, x) - Holds(k, x) = Is(i, x)
      BY DEF Gains, k
    <3>1. Change(k, j, x)
      BY <1>2, <2>3, <2>6, HoldsChange
    <3>2. QED
      BY <1>3, <2>4, <3>1 DEF Change
  <2>9. LockMoves(p, j)
    BY <1>1, <1>2, <1>3, <2>1, <2>7, TakeLock DEF Sees, k
  <2>10. ref' = [x \in Inums |-> ref[x] + Is(i, x)] /\ valid' \in [Inums -> BOOLEAN]
    BY <1>2, <2>1, <2>2, GetFits
  <2>11. Moves(p, j, i)
    BY <1>1, <2>1, <2>9, <2>10 DEF Moves, NoLinkPanic
  <2>12. QED
    BY <2>3, <2>6, <2>7, <2>8, <2>11, MoveStep DEF k
<1>6. QED
  BY <1>4, <1>5

\* link() of a directory fails.
LEMMA LinkDirectoryStep ==
  ASSUME FilesInvariant, NEW p \in Callers, LinkOld(p), type[job[p].at] = "dir"
  PROVE  FilesInvariant'
<1> DEFINE k == job[p]
<1>1. /\ k.pc = "found" /\ k.puts = <<>> /\ panic = "no" /\ k.call.op = "link" /\ Sees(k.at)
      /\ Cached(k.at) /\ Goto(p, Ended(k.left, <<k.at>>))
      /\ UNCHANGED <<inodes, ref, owner, cwd, open, lost, panic>>
  BY EndedIs DEF LinkOld, At, Done, inodes
<1>2. /\ k \in Jobs /\ Shape(k) /\ Knows(p) /\ FilesShaped /\ LocksExact
      /\ k.at \in Inums \cup {0} /\ valid' \in [Inums -> BOOLEAN]
  BY <1>1, HereIs, CachedFits
<1> HIDE DEF k
<1>3. k.at \in Inums /\ k.ip = 0 /\ k.src = 0 /\ Owns(k) = 0 /\ Pends(k) = 0
  BY <1>1, <1>2 DEF Shape, Owns, Pends
<1>4. Calm
  BY <1>1, <1>2 DEF Calm, NoLinkPanic
<1>5. Releases(p)
  BY <1>1, <1>2, <1>3, GiveUp DEF k
<1>6. PutsOnly(k, k.at)
  BY <1>1, <1>3 DEF PutsOnly
<1>7. QED
  BY <1>1, <1>3, <1>4, <1>5, <1>6, PutOne DEF k

\* link() finds the new name taken: it holds the directory while it puts what
\* the name refers to.
LEMMA LinkClashStep ==
  ASSUME FilesInvariant, NEW p \in Callers, LinkNew(p), Lookup(job[p].at, Head(job[p].todo)) # 0
  PROVE  FilesInvariant'
<1> DEFINE k == job[p]
           i == Lookup(k.at, Head(k.todo))
           j == [k EXCEPT !.pc = "clash", !.puts = <<i>>]
<1>1. /\ k.pc = "parent" /\ k.puts = <<>> /\ panic = "no" /\ k.call.op = "link" /\ Sees(k.at)
      /\ i # 0 /\ Get(i) /\ Lock(k.at, p) /\ Goto(p, j)
      /\ UNCHANGED <<inodes, cwd, open, lost, panic>>
  BY DEF LinkNew, At, inodes
<1>2. /\ k \in Jobs /\ Shape(k) /\ Knows(p) /\ FilesShaped /\ LocksExact
      /\ k.at \in Inums \cup {0} /\ k.todo \in Paths
  BY HereIs
<1>3. /\ k.at \in Inums /\ k.drop = FALSE /\ k.ip # 0 /\ k.src = 0 /\ k.todo # <<>>
      /\ Owns(k) = 0
  <2> HIDE DEF k, i, j
  <2>1. QED
    BY <1>1, <1>2 DEF Shape, Jobs, Owns
<1>4. i \in Inums
  <2> HIDE DEF k, j
  <2>1. i \in Inums \cup {0}
    BY <1>2, <1>3, LookupFits
  <2>2. QED
    BY <1>1, <2>1
<1>5. <<i>> \in Seq(Inums) /\ Len(<<i>>) = 1 /\ <<i>> # <<>>
  BY <1>4, ShortPuts
<1> HIDE DEF i
<1>6. j \in Jobs
  BY <1>2, <1>5 DEF Jobs
<1>7. /\ j.pc = "clash" /\ j.call = k.call /\ j.at = k.at /\ j.ip = k.ip /\ j.todo = k.todo
      /\ j.src = k.src /\ j.puts = <<i>> /\ j.drop = FALSE
  BY <1>2, <1>3 DEF Jobs
<1>8. type[k.at] = "dir" /\ (Linking(k) => type[k.ip] = "file")
  BY <1>1, <1>2 DEF Knows, Informed
<1> HIDE DEF j, k
<1>9. Shape(j)
  BY <1>1, <1>2, <1>3, <1>5, <1>7 DEF Shape
<1>10. Owns(j) = k.at /\ Pends(j) = Pends(k) /\ Informed(j)
  BY <1>1, <1>3, <1>7, <1>8 DEF Owns, Pends, Informed, Linking
<1>11. Gains(p, j, i)
  <2> SUFFICES ASSUME NEW x \in Inums PROVE Holds(j, x) - Holds(k, x) = Is(i, x)
    BY DEF Gains, k
  <2>1. Change(k, j, x)
    BY <1>2, <1>6, <1>9, HoldsChange
  <2>2. Occurs(j.puts, x) = Is(i, x) /\ Occurs(k.puts, x) = 0
    BY <1>1, <1>7, OccursOne, OccursNone
  <2>3. QED
    BY <1>7, <2>1, <2>2 DEF Change
<1>12. LockMoves(p, j)
  BY <1>1, <1>2, <1>3, <1>10, TakeLock DEF Sees, k
<1>13. ref' = [x \in Inums |-> ref[x] + Is(i, x)] /\ valid' \in [Inums -> BOOLEAN]
  BY <1>1, <1>2, <1>4, GetFits
<1>14. Moves(p, j, i)
  BY <1>1, <1>12, <1>13 DEF Moves, NoLinkPanic
<1>15. QED
  BY <1>6, <1>9, <1>10, <1>11, <1>14, MoveStep DEF k

\* iput() of an inode that stays.
LEMMA PutKeepStep ==
  ASSUME FilesInvariant, NEW p \in Callers, PutLock(p), ~Unused(Head(job[p].puts))
  PROVE  FilesInvariant'
<1> DEFINE k == job[p]
           j == [k EXCEPT !.drop = TRUE]
<1>1. /\ k.puts # <<>> /\ panic = "no" /\ Goto(p, j)
      /\ UNCHANGED <<inodes, ref, valid, owner, cwd, open, lost, panic>>
  BY DEF PutLock, inodes
<1>2. k \in Jobs /\ Shape(k) /\ Knows(p) /\ FilesShaped /\ LocksExact
  BY HereIs
<1>3. j \in Jobs
  BY <1>2 DEF Jobs
<1>4. /\ j.pc = k.pc /\ j.call = k.call /\ j.at = k.at /\ j.ip = k.ip /\ j.todo = k.todo
      /\ j.src = k.src /\ j.puts = k.puts
  BY <1>2 DEF Jobs
<1> HIDE DEF j, k
<1>5. Shape(j)
  BY <1>1, <1>2, <1>4 DEF Shape
<1>6. Owns(j) = Owns(k) /\ Pends(j) = Pends(k) /\ Informed(j)
  BY <1>2, <1>4 DEF Owns, Pends, Informed, Knows, Linking, k
<1>7. Gains(p, j, 0)
  <2> SUFFICES ASSUME NEW x \in Inums PROVE Holds(j, x) - Holds(k, x) = Is(0, x)
    BY DEF Gains, k
  <2>1. Change(k, j, x)
    BY <1>2, <1>3, <1>5, HoldsChange
  <2>2. QED
    BY <1>4, <2>1 DEF Change
<1>8. LockMoves(p, j) /\ ref' = [x \in Inums |-> ref[x] + Is(0, x)] /\ valid' \in [Inums -> BOOLEAN]
  BY <1>1, <1>2, <1>6, LockStays, SameRefs, CachedFits DEF k
<1>9. Moves(p, j, 0)
  BY <1>1, <1>8 DEF Moves, NoLinkPanic
<1>10. QED
  BY <1>3, <1>5, <1>6, <1>7, <1>9, MoveStep DEF k

-----------------------------------------------------------------------------
(* How the counts that make up nlink change. *)

\* A finite set that gains or loses at most the element e.
LEMMA Toggle ==
  ASSUME NEW S, IsFiniteSet(S), NEW T, NEW e, \A y : y # e => (y \in S <=> y \in T)
  PROVE  /\ IsFiniteSet(T) /\ Count(S) \in Nat /\ Count(T) \in Nat
         /\ Count(T) = Count(S) + (IF e \in T THEN 1 ELSE 0) - (IF e \in S THEN 1 ELSE 0)
<1>1. Cardinality(S) \in Nat
  BY FS_CardinalityType
<1>2. CASE e \in S <=> e \in T
  <2>1. S = T
    BY <1>2
  <2>2. QED
    BY <1>1, <1>2, <2>1 DEF Count
<1>3. CASE e \in T /\ e \notin S
  <2>1. T = S \cup {e}
    BY <1>3
  <2>2. IsFiniteSet(T) /\ Cardinality(T) = Cardinality(S) + 1
    BY <1>3, <2>1, FS_AddElement
  <2>3. QED
    BY <1>1, <1>3, <2>2 DEF Count
<1>4. CASE e \notin T /\ e \in S
  <2>1. T = S \ {e}
    BY <1>4
  <2>2. IsFiniteSet(T) /\ Cardinality(T) = Cardinality(S) - 1 /\ Cardinality(T) \in Nat
    BY <1>4, <2>1, FS_RemoveElement, FS_CardinalityType
  <2>3. QED
    BY <1>1, <1>4, <2>2 DEF Count
<1>5. QED
  BY <1>2, <1>3, <1>4

\* The entries are finitely many, and so are the processes.
LEMMA FewEntries ==
  /\ \A S \in SUBSET (Inums \X Names) : IsFiniteSet(S) /\ Count(S) \in Nat
  /\ \A S \in SUBSET Callers : IsFiniteSet(S) /\ Count(S) \in Nat
<1>1. ASSUME NEW S \in SUBSET (Inums \X Names) PROVE IsFiniteSet(S) /\ Count(S) \in Nat
  BY FilesBasics, FS_Subset, FS_CardinalityType DEF Count
<1>2. ASSUME NEW S \in SUBSET Callers PROVE IsFiniteSet(S) /\ Count(S) \in Nat
  BY FilesBasics, FS_Subset, FS_CardinalityType DEF Count
<1>3. QED
  BY <1>1, <1>2

\* A set without elements counts as nothing, and only such a set does.
LEMMA CountsNothing ==
  ASSUME NEW S, IsFiniteSet(S)
  PROVE  Count(S) \in Nat /\ (Count(S) = 0 <=> S = {})
  BY FS_EmptySet, FS_CardinalityType DEF Count

\* How the link counts that are under way change when p's call becomes j.
PendingMoves(p, j) ==
  \A x \in Inums :
    /\ Count(Pending(x)) \in Nat /\ Count(Pending(x))' \in Nat
    /\ Count(Pending(x))' = Count(Pending(x)) + Is(Pends(j), x) - Is(Pends(job[p]), x)

\* The link counts that are under way change with the call that moves.
LEMMA PendingFits ==
  ASSUME FilesShaped, NEW p \in Callers, NEW j \in Jobs, Goto(p, j)
  PROVE  PendingMoves(p, j)
<1>1. job'[p] = j /\ \A q \in Callers \ {p} : job'[q] = job[q]
  BY OneJob
<1>2. ASSUME NEW x \in Inums
      PROVE  /\ Count(Pending(x)) \in Nat /\ Count(Pending(x))' \in Nat
             /\ Count(Pending(x))' = Count(Pending(x)) + Is(Pends(j), x) - Is(Pends(job[p]), x)
  <2> DEFINE S == Pending(x)
             T == Pending(x)'
  <2>1. IsFiniteSet(S)
    BY FewEntries DEF Pending
  <2>2. \A q : q # p => (q \in S <=> q \in T)
    BY <1>1 DEF Pending
  <2>3. (p \in T <=> Pends(j) = x) /\ (p \in S <=> Pends(job[p]) = x)
    BY <1>1 DEF Pending
  <2> HIDE DEF S, T
  <2>4. /\ Count(S) \in Nat /\ Count(T) \in Nat
        /\ Count(T) = Count(S) + (IF p \in T THEN 1 ELSE 0) - (IF p \in S THEN 1 ELSE 0)
    BY <2>1, <2>2, Toggle
  <2>5. Count(T) = Count(S) + Is(Pends(j), x) - Is(Pends(job[p]), x)
    BY <2>3, <2>4 DEF Is
  <2>6. Count(Pending(x))' = Count(T) /\ Count(Pending(x)) = Count(S)
    BY DEF S, T, Count
  <2>7. QED
    BY <2>4, <2>5, <2>6
<1>3. QED
  BY <1>2 DEF PendingMoves

\* Entry n of directory d names v from now on.
Renames(d, n, v) == names' = [names EXCEPT ![d][n] = v]
\* What was a directory, and is named, stays one, and nothing else becomes one.
SameDirs == \A e \in Entries : type'[Target(e)] = "dir" <=> type[Target(e)] = "dir"
If(b) == IF b THEN 1 ELSE 0
EntryMoves(d, n, v) ==
  \A x \in Inums :
    /\ Count(Named(x)) \in Nat /\ Count(Named(x))' \in Nat
    /\ Count(Subdirs(x)) \in Nat /\ Count(Subdirs(x))' \in Nat
    /\ Count(Named(x))' = Count(Named(x)) + Is(v, x) - Is(names[d][n], x)
    /\ Count(Subdirs(x))' = Count(Subdirs(x)) + If(x = d /\ v # 0 /\ type'[v] = "dir")
                            - If(x = d /\ names[d][n] # 0 /\ type[names[d][n]] = "dir")

\* The entries, their targets and the subdirectories change with that entry.
LEMMA EntryFits ==
  ASSUME FilesShaped, NEW d \in Inums, NEW n \in Names, NEW v \in Inums \cup {0},
         Renames(d, n, v), SameDirs
  PROVE  EntryMoves(d, n, v)
<1> DEFINE e == <<d, n>>
<1>1. names \in [Inums -> [Names -> Inums \cup {0}]]
  BY DEF FilesShaped, FilesTyped
<1>2. /\ names'[d][n] = v
      /\ \A x \in Inums, m \in Names : x # d \/ m # n => names'[x][m] = names[x][m]
  BY <1>1 DEF Renames
<1>3. ASSUME NEW x \in Inums
      PROVE  /\ Count(Named(x)) \in Nat /\ Count(Named(x))' \in Nat
             /\ Count(Named(x))' = Count(Named(x)) + Is(v, x) - Is(names[d][n], x)
  <2> DEFINE S == Named(x)
             T == Named(x)'
  <2>1. IsFiniteSet(S)
    BY FewEntries DEF Named, Entries
  <2>2. x # 0
    BY FilesBasics
  <2>3. \A y : y # e => (y \in S <=> y \in T)
    <3>1. ASSUME NEW y, y # e PROVE y \in S <=> y \in T
      <4>1. CASE y \notin Inums \X Names
        BY <4>1 DEF Named, Entries
      <4>2. CASE y \in Inums \X Names
        <5>1. PICK a \in Inums, m \in Names : y = <<a, m>>
          BY <4>2
        <5>2. names'[a][m] = names[a][m]
          BY <1>2, <3>1, <5>1
        <5>3. QED
          BY <5>1, <5>2 DEF Named, Entries, Target
      <4>3. QED
        BY <4>1, <4>2
    <3>2. QED
      BY <3>1
  <2>4. (e \in T <=> v = x) /\ (e \in S <=> names[d][n] = x)
    BY <1>2, <2>2 DEF Named, Entries, Target
  <2> HIDE DEF S, T, e
  <2>5. /\ Count(S) \in Nat /\ Count(T) \in Nat
        /\ Count(T) = Count(S) + (IF e \in T THEN 1 ELSE 0) - (IF e \in S THEN 1 ELSE 0)
    BY <2>1, <2>3, Toggle
  <2>6. Count(T) = Count(S) + Is(v, x) - Is(names[d][n], x)
    BY <2>4, <2>5 DEF Is
  <2>7. Count(Named(x))' = Count(T) /\ Count(Named(x)) = Count(S)
    BY DEF S, T, Count
  <2>8. QED
    BY <2>5, <2>6, <2>7
<1>4. ASSUME NEW x \in Inums
      PROVE  /\ Count(Subdirs(x)) \in Nat /\ Count(Subdirs(x))' \in Nat
             /\ Count(Subdirs(x))' = Count(Subdirs(x)) + If(x = d /\ v # 0 /\ type'[v] = "dir")
                  - If(x = d /\ names[d][n] # 0 /\ type[names[d][n]] = "dir")
  <2> DEFINE S == Subdirs(x)
             T == Subdirs(x)'
  <2>1. IsFiniteSet(S)
    BY FewEntries DEF Subdirs, Entries
  <2>2. \A y : y # e => (y \in S <=> y \in T)
    <3>1. ASSUME NEW y, y # e PROVE y \in S <=> y \in T
      <4>1. CASE y \notin Inums \X Names
        BY <4>1 DEF Subdirs, Entries
      <4>2. CASE y \in Inums \X Names
        <5>1. PICK a \in Inums, m \in Names : y = <<a, m>>
          BY <4>2
        <5>2. names'[a][m] = names[a][m]
          BY <1>2, <3>1, <5>1
        <5>3. names[a][m] # 0 => (type'[names[a][m]] = "dir" <=> type[names[a][m]] = "dir")
          <6>1. names[a][m] # 0 => <<a, m>> \in Entries
            BY DEF Entries
          <6>2. Target(<<a, m>>) = names[a][m]
            BY DEF Target
          <6>3. QED
            BY <6>1, <6>2 DEF SameDirs
        <5>4. QED
          BY <5>1, <5>2, <5>3 DEF Subdirs, Entries, Target
      <4>3. QED
        BY <4>1, <4>2
    <3>2. QED
      BY <3>1
  <2>3. /\ e \in T <=> x = d /\ v # 0 /\ type'[v] = "dir"
        /\ e \in S <=> x = d /\ names[d][n] # 0 /\ type[names[d][n]] = "dir"
    BY <1>2 DEF Subdirs, Entries, Target
  <2> HIDE DEF S, T, e
  <2>4. /\ Count(S) \in Nat /\ Count(T) \in Nat
        /\ Count(T) = Count(S) + (IF e \in T THEN 1 ELSE 0) - (IF e \in S THEN 1 ELSE 0)
    BY <2>1, <2>2, Toggle
  <2>5. Count(T) = Count(S) + If(x = d /\ v # 0 /\ type'[v] = "dir")
                   - If(x = d /\ names[d][n] # 0 /\ type[names[d][n]] = "dir")
    BY <2>3, <2>4 DEF If
  <2>6. Count(Subdirs(x))' = Count(T) /\ Count(Subdirs(x)) = Count(S)
    BY DEF S, T, Count
  <2>7. QED
    BY <2>4, <2>5, <2>6
<1>5. QED
  BY <1>3, <1>4 DEF EntryMoves

\* What nlink is to be.
Tally(x) ==
  Count(Named(x)) + Count(Subdirs(x)) + Count(Pending(x)) + lost[x] + (IF x = Root THEN 1 ELSE 0)

\* The tally is a sum of natural numbers, in both states.
LEMMA TallyType ==
  ASSUME FilesShaped, NEW x \in Inums
  PROVE  /\ Count(Named(x)) \in Nat /\ Count(Subdirs(x)) \in Nat /\ Count(Pending(x)) \in Nat
         /\ lost[x] \in Nat /\ Tally(x) \in Nat
         /\ Tally(x) = 0 => /\ Named(x) = {} /\ Subdirs(x) = {} /\ Pending(x) = {}
                            /\ lost[x] = 0 /\ x # Root
<1>1. IsFiniteSet(Named(x)) /\ IsFiniteSet(Subdirs(x)) /\ IsFiniteSet(Pending(x))
  BY FewEntries DEF Named, Subdirs, Pending, Entries
<1>2. /\ Count(Named(x)) \in Nat /\ (Count(Named(x)) = 0 => Named(x) = {})
      /\ Count(Subdirs(x)) \in Nat /\ (Count(Subdirs(x)) = 0 => Subdirs(x) = {})
      /\ Count(Pending(x)) \in Nat /\ (Count(Pending(x)) = 0 => Pending(x) = {})
  BY <1>1, CountsNothing
<1>3. lost[x] \in Nat
  BY DEF FilesShaped, FilesTyped
<1> DEFINE a == Count(Named(x))
           b == Count(Subdirs(x))
           c == Count(Pending(x))
           l == lost[x]
           r == IF x = Root THEN 1 ELSE 0
<1>4. a \in Nat /\ b \in Nat /\ c \in Nat /\ l \in Nat /\ r \in Nat /\ (r = 0 => x # Root)
  BY <1>2, <1>3
<1>5. Tally(x) = a + b + c + l + r
  BY DEF Tally
<1> HIDE DEF a, b, c, l, r
<1>6. Tally(x) \in Nat /\ (Tally(x) = 0 => a = 0 /\ b = 0 /\ c = 0 /\ l = 0 /\ r = 0)
  BY <1>4, <1>5
<1>7. QED
  BY <1>2, <1>3, <1>4, <1>6 DEF a, b, c, l

\* How the tallies change with entry n of directory d and the call of p.
TallyMoves(p, j, d, n, v) ==
  \A x \in Inums :
    /\ Tally(x) \in Nat /\ Tally(x)' \in Nat
    /\ Tally(x)' = Tally(x) + Is(v, x) - Is(names[d][n], x)
                   + If(x = d /\ v # 0 /\ type'[v] = "dir")
                   - If(x = d /\ names[d][n] # 0 /\ type[names[d][n]] = "dir")
                   + Is(Pends(j), x) - Is(Pends(job[p]), x)

\* An entry moves, and so may a call.
LEMMA TallyFits ==
  ASSUME FilesShaped, NEW p \in Callers, NEW j \in Jobs, Goto(p, j),
         NEW d \in Inums, NEW n \in Names, NEW v \in Inums \cup {0},
         Renames(d, n, v), SameDirs, UNCHANGED lost
  PROVE  TallyMoves(p, j, d, n, v)
<1>1. EntryMoves(d, n, v) /\ PendingMoves(p, j)
  BY EntryFits, PendingFits
<1>2. ASSUME NEW x \in Inums
      PROVE  /\ Tally(x) \in Nat /\ Tally(x)' \in Nat
             /\ Tally(x)' = Tally(x) + Is(v, x) - Is(names[d][n], x)
                            + If(x = d /\ v # 0 /\ type'[v] = "dir")
                            - If(x = d /\ names[d][n] # 0 /\ type[names[d][n]] = "dir")
                            + Is(Pends(j), x) - Is(Pends(job[p]), x)
  <2> DEFINE a == Is(v, x)
             b == Is(names[d][n], x)
             c == If(x = d /\ v # 0 /\ type'[v] = "dir")
             e == If(x = d /\ names[d][n] # 0 /\ type[names[d][n]] = "dir")
             f == Is(Pends(j), x)
             g == Is(Pends(job[p]), x)
             r == IF x = Root THEN 1 ELSE 0
  <2>1. a \in Nat /\ b \in Nat /\ c \in Nat /\ e \in Nat /\ f \in Nat /\ g \in Nat /\ r \in Nat
    BY DEF Is, If
  <2>2. lost[x] \in Nat /\ lost'[x] = lost[x]
    BY TallyType
  <2>3. Tally(x) = Count(Named(x)) + Count(Subdirs(x)) + Count(Pending(x)) + lost[x] + r
    BY DEF Tally
  <2>4. Tally(x)' = Count(Named(x))' + Count(Subdirs(x))' + Count(Pending(x))' + lost'[x] + r
    BY DEF Tally
  <2>5. /\ Count(Named(x)) \in Nat /\ Count(Named(x))' \in Nat
        /\ Count(Subdirs(x)) \in Nat /\ Count(Subdirs(x))' \in Nat
        /\ Count(Named(x))' = Count(Named(x)) + a - b
        /\ Count(Subdirs(x))' = Count(Subdirs(x)) + c - e
        /\ Count(Pending(x)) \in Nat /\ Count(Pending(x))' \in Nat
        /\ Count(Pending(x))' = Count(Pending(x)) + f - g
    BY <1>1, Zenon DEF EntryMoves, PendingMoves
  <2> HIDE DEF a, b, c, e, f, g, r
  <2>6. /\ Tally(x) \in Nat /\ Tally(x)' \in Nat
        /\ Tally(x)' = Tally(x) + a - b + c - e + f - g
    BY <2>1, <2>2, <2>3, <2>4, <2>5
  <2>7. QED
    BY <2>6 DEF a, b, c, e, f, g
<1>3. QED
  BY <1>2 DEF TallyMoves

\* How the tallies change with the call of p alone.
TallyStays(p, j) ==
  \A x \in Inums :
    /\ Tally(x) \in Nat /\ Tally(x)' \in Nat
    /\ Tally(x)' = Tally(x) + Is(Pends(j), x) - Is(Pends(job[p]), x)

\* Only a call moves.
LEMMA TallyKept ==
  ASSUME FilesShaped, NEW p \in Callers, NEW j \in Jobs, Goto(p, j), UNCHANGED <<names, type, lost>>
  PROVE  TallyStays(p, j)
<1>1. PendingMoves(p, j)
  BY PendingFits
<1>2. ASSUME NEW x \in Inums
      PROVE  /\ Tally(x) \in Nat /\ Tally(x)' \in Nat
             /\ Tally(x)' = Tally(x) + Is(Pends(j), x) - Is(Pends(job[p]), x)
  <2> DEFINE f == Is(Pends(j), x)
             g == Is(Pends(job[p]), x)
             r == IF x = Root THEN 1 ELSE 0
  <2>1. f \in Nat /\ g \in Nat /\ r \in Nat
    BY DEF Is
  <2>2. /\ lost[x] \in Nat /\ lost'[x] = lost[x]
        /\ Count(Named(x)) \in Nat /\ Count(Subdirs(x)) \in Nat
    BY TallyType
  <2>3. Tally(x) = Count(Named(x)) + Count(Subdirs(x)) + Count(Pending(x)) + lost[x] + r
    BY DEF Tally
  <2>4. Tally(x)' = Count(Named(x))' + Count(Subdirs(x))' + Count(Pending(x))' + lost'[x] + r
    BY DEF Tally
  <2>5. /\ Count(Pending(x)) \in Nat /\ Count(Pending(x))' \in Nat
        /\ Count(Pending(x))' = Count(Pending(x)) + f - g
    BY <1>1, Zenon DEF PendingMoves
  <2>6. Count(Named(x))' = Count(Named(x)) /\ Count(Subdirs(x))' = Count(Subdirs(x))
    BY DEF Named, Subdirs, Entries, Target, Count
  <2> HIDE DEF f, g, r
  <2>7. /\ Tally(x) \in Nat /\ Tally(x)' \in Nat
        /\ Tally(x)' = Tally(x) + f - g
    BY <2>1, <2>2, <2>3, <2>4, <2>5, <2>6
  <2>8. QED
    BY <2>7 DEF f, g
<1>3. QED
  BY <1>2 DEF TallyStays

\* What has a name has a link.
LEMMA NamedLinked ==
  ASSUME FilesInvariant, NEW d \in Inums, NEW n \in Names, names[d][n] # 0
  PROVE  nlink[names[d][n]] >= 1 /\ names[d][n] \in Inums /\ type[names[d][n]] # "free"
<1> DEFINE i == names[d][n]
<1>1. i \in Inums /\ type[i] # "free" /\ FilesShaped
  <2>1. Tree /\ FilesShaped /\ names \in [Inums -> [Names -> Inums \cup {0}]]
    BY DEF FilesInvariant, FilesShaped, FilesTyped
  <2>2. QED
    BY <2>1 DEF Tree
<1>2. nlink[i] = Tally(i)
  BY <1>1 DEF FilesInvariant, LinksExact, Tally
<1>3. <<d, n>> \in Named(i)
  BY DEF Named, Entries, Target
<1> HIDE DEF i
<1>4. Tally(i) \in Nat /\ Tally(i) # 0
  BY <1>1, <1>3, TallyType
<1>5. QED
  BY <1>1, <1>2, <1>4 DEF i

\* An inode that is free, or that has no link, is one that nothing names.
LEMMA Gone ==
  ASSUME FilesInvariant, NEW i \in Inums, type[i] = "free" \/ nlink[i] = 0
  PROVE  /\ i # Root /\ lost[i] = 0 /\ Tally(i) = 0
         /\ \A d \in Inums, n \in Names : names[d][n] # i
         /\ \A n \in Names : names[i][n] # 0 => type[names[i][n]] # "dir"
         /\ \A p \in Callers : Pends(job[p]) # i
<1>1. FilesShaped /\ i # 0
  BY FilesBasics DEF FilesInvariant
<1>2. CASE type[i] = "free"
  <2>1. i # Root /\ lost[i] = 0
    BY <1>2 DEF FilesInvariant, Tree
  <2>2. \A d \in Inums, n \in Names : names[d][n] # i
    <3>1. \A d \in Inums, n \in Names : names[d][n] # 0 => type[names[d][n]] # "free"
      BY DEF FilesInvariant, Tree
    <3>2. QED
      BY <1>1, <1>2, <3>1
  <2>3. \A n \in Names : names[i][n] = 0
    BY <1>2 DEF FilesInvariant, Tree
  <2>4. \A p \in Callers : Pends(job[p]) # i
    <3>1. ASSUME NEW p \in Callers PROVE Pends(job[p]) # i
      <4>1. Informed(job[p])
        BY DEF FilesInvariant, Knows
      <4>2. QED
        BY <1>1, <1>2, <4>1 DEF Informed, Linking, Pends
    <3>2. QED
      BY <3>1
  <2>5. Named(i) = {} /\ Subdirs(i) = {} /\ Pending(i) = {}
    BY <2>2, <2>3, <2>4 DEF Named, Subdirs, Pending, Entries, Target
  <2>6. Count({}) = 0
    BY FS_EmptySet DEF Count
  <2>7. Tally(i) = 0
    BY <2>1, <2>5, <2>6 DEF Tally
  <2>8. QED
    BY <2>1, <2>2, <2>3, <2>4, <2>7
<1>3. CASE type[i] # "free" /\ nlink[i] = 0
  <2>1. Tally(i) = 0
    BY <1>3 DEF FilesInvariant, LinksExact, Tally
  <2>2. Named(i) = {} /\ Subdirs(i) = {} /\ Pending(i) = {} /\ lost[i] = 0 /\ i # Root
    BY <1>1, <2>1, TallyType
  <2>3. \A d \in Inums, n \in Names : names[d][n] # i
    <3>1. ASSUME NEW d \in Inums, NEW n \in Names, names[d][n] = i PROVE FALSE
      <4>1. <<d, n>> \in Named(i)
        BY <1>1, <3>1 DEF Named, Entries, Target
      <4>2. QED
        BY <2>2, <4>1
    <3>2. QED
      BY <3>1
  <2>4. \A n \in Names : names[i][n] # 0 => type[names[i][n]] # "dir"
    <3>1. ASSUME NEW n \in Names, names[i][n] # 0, type[names[i][n]] = "dir" PROVE FALSE
      <4>1. <<i, n>> \in Subdirs(i)
        BY <3>1 DEF Subdirs, Entries, Target
      <4>2. QED
        BY <2>2, <4>1
    <3>2. QED
      BY <3>1
  <2>5. \A p \in Callers : Pends(job[p]) # i
    BY <2>2 DEF Pending
  <2>6. QED
    BY <2>1, <2>2, <2>3, <2>4, <2>5
<1>4. QED
  BY <1>2, <1>3

\* What another process knows of the inodes it holds stays true when these keep
\* their types, and the name it is about to remove stays.
LEMMA KnowsStays ==
  ASSUME FilesInvariant, NEW q \in Callers,
         job'[q] = job[q], cwd'[q] = cwd[q], open'[q] = open[q],
         \A x \in Inums : Held(q, x) > 0 => type'[x] = type[x],
         job[q].pc = "victim" => names'[job[q].at][Head(job[q].todo)] = names[job[q].at][Head(job[q].todo)]
  PROVE  Knows(q)'
<1>1. /\ Shape(job[q]) /\ Knows(q) /\ FilesShaped /\ cwd[q] \in Inums /\ open[q] \in Inums \cup {0}
      /\ job[q].at \in Inums \cup {0} /\ job[q].ip \in Inums \cup {0}
      /\ job[q].puts \in Seq(Inums) /\ Len(job[q].puts) <= 2
  BY HereIs
<1>2. ASSUME NEW x \in Inums, x \in {job[q].at, job[q].ip, cwd[q], open[q]}
      PROVE  type'[x] = type[x]
  <2>1. Held(q, x) > Occurs(job[q].puts, x) /\ Held(q, x) \in Nat /\ Occurs(job[q].puts, x) \in Nat
    BY <1>1, <1>2, HeldType, PutsRest
  <2>2. Held(q, x) > 0
    BY <2>1
  <2>3. QED
    BY <2>2
<1>3. /\ job[q].at # 0 => type'[job[q].at] = type[job[q].at]
      /\ job[q].ip # 0 => type'[job[q].ip] = type[job[q].ip]
      /\ type'[cwd[q]] = type[cwd[q]] /\ (open[q] # 0 => type'[open[q]] = type[open[q]])
  BY <1>1, <1>2
<1>4. QED
  BY <1>1, <1>3 DEF Knows, Informed, Linking, Shape

\* What has to be shown of a step that writes inodes or directories.
LEMMA InodeStep ==
  ASSUME FilesInvariant, NEW p \in Callers, NEW j \in Jobs, Shape(j), Frame(p, j),
         type' \in [Inums -> {"free", "dir", "file"}],
         nlink' \in [Inums -> Nat], lost' \in [Inums -> Nat],
         names' \in [Inums -> [Names -> Inums \cup {0}]],
         parent' \in [Inums -> Inums \cup {0}],
         \A q \in Callers : Knows(q)', Tree', Acyclic',
         \A x \in Inums : type'[x] # "free" => nlink'[x] = Tally(x)',
         NoLinkPanic'
  PROVE  FilesInvariant'
<1>1. FilesShaped' /\ LocksExact' /\ RefsExact'
  BY FrameStep
<1>2. LinksExact'
  BY DEF LinksExact, Tally
<1>3. QED
  BY <1>1, <1>2 DEF FilesInvariant

-----------------------------------------------------------------------------
(* The steps that write inodes and directories. *)

\* The end of a call that hands what it holds to iput().
LEMMA EndGains ==
  ASSUME FilesInvariant, NEW p \in Callers
  PROVE  /\ \A a : PutsOnly(job[p], a) => Gains(p, Ended(job[p].left, <<a>>), 0)
         /\ \A a, b : PutsBoth(job[p], a, b) => Gains(p, Ended(job[p].left, <<a, b>>), 0)
<1>1. job[p].left \in Nat
  BY HereIs
<1>2. ASSUME NEW a, PutsOnly(job[p], a), NEW x \in Inums
      PROVE  Holds(Ended(job[p].left, <<a>>), x) - Holds(job[p], x) = Is(0, x)
  <2>1. a \in Inums /\ <<a>> \in Seq(Inums) /\ Len(<<a>>) <= 2
    BY <1>2, ShortPuts DEF PutsOnly
  <2>2. Holds(Ended(job[p].left, <<a>>), x) = Occurs(<<a>>, x)
    BY <1>1, <2>1, EndedFits
  <2>3. Occurs(<<a>>, x) = Is(a, x) /\ Occurs(job[p].puts, x) = 0
    BY <1>2, OccursOne, OccursNone DEF PutsOnly
  <2>4. Is(0, x) = 0 /\ Is(a, x) \in Nat
    BY IsType DEF Is
  <2>5. Holds(job[p], x) = Is(a, x)
    BY <1>2, <2>3, <2>4 DEF PutsOnly, Holds
  <2>6. Is(a, x) - Is(a, x) = 0
    BY <2>4, NoDifference
  <2>7. QED
    BY <2>2, <2>3, <2>4, <2>5, <2>6, Zenon
<1>3. ASSUME NEW a, NEW b, PutsBoth(job[p], a, b), NEW x \in Inums
      PROVE  Holds(Ended(job[p].left, <<a, b>>), x) - Holds(job[p], x) = Is(0, x)
  <2>1. a \in Inums /\ b \in Inums /\ <<a, b>> \in Seq(Inums) /\ Len(<<a, b>>) <= 2
    BY <1>3, ShortPuts DEF PutsBoth
  <2>2. Holds(Ended(job[p].left, <<a, b>>), x) = Occurs(<<a, b>>, x)
    BY <1>1, <2>1, EndedFits
  <2>3. Occurs(<<a, b>>, x) = Is(a, x) + Is(b, x) /\ Occurs(job[p].puts, x) = 0
    BY <1>3, OccursTwo, OccursNone DEF PutsBoth
  <2>4. Is(0, x) = 0 /\ Is(a, x) \in Nat /\ Is(b, x) \in Nat
    BY IsType DEF Is
  <2>5. Holds(job[p], x) = Is(a, x) + Is(b, x) /\ Is(a, x) + Is(b, x) \in Nat
    BY <1>3, <2>3, <2>4 DEF PutsBoth, Holds
  <2>6. (Is(a, x) + Is(b, x)) - (Is(a, x) + Is(b, x)) = 0
    BY <2>5, NoDifference
  <2>7. QED
    BY <2>2, <2>3, <2>4, <2>5, <2>6, Zenon
<1>4. QED
  BY <1>2, <1>3 DEF Gains

\* The end of a call in which it gives its lock up.
LEMMA EndFrame ==
  ASSUME FilesInvariant, NEW p \in Callers, NEW s \in Seq(Inums), Len(s) <= 2,
         Gains(p, Ended(job[p].left, s), 0), Goto(p, Ended(job[p].left, s)),
         Releases(p), UNCHANGED <<ref, cwd, open>>, valid' \in [Inums -> BOOLEAN]
  PROVE  Frame(p, Ended(job[p].left, s))
<1> DEFINE j == Ended(job[p].left, s)
<1>1. FilesShaped /\ job[p].left \in Nat
  BY HereIs
<1>2. j \in Jobs /\ Shape(j) /\ Owns(j) = 0
  BY <1>1, EndedFits
<1> HIDE DEF j
<1>3. LockMoves(p, j)
  <2>1. \A i \in Inums : i # 0
    BY FilesBasics
  <2>2. QED
    BY <1>2, <2>1 DEF Releases, LockMoves
<1>4. ref' = [x \in Inums |-> ref[x] + Is(0, x)]
  BY <1>1, SameRefs
<1>5. Goto(p, j) /\ Gains(p, j, 0)
  BY DEF j
<1>6. QED
  BY <1>1, <1>2, <1>3, <1>4, <1>5, MoveFrame DEF j

\* The link counts follow what is under way.
Recount(p, j) ==
  nlink' = [x \in Inums |-> nlink[x] + Is(Pends(j), x) - Is(Pends(job[p]), x)]

\* A step that only counts.
LEMMA CountStep ==
  ASSUME FilesInvariant, NEW p \in Callers, NEW j \in Jobs, Shape(j), Frame(p, j),
         UNCHANGED <<type, names, parent, lost, cwd, open>>, Recount(p, j), Informed(j),
         NoLinkPanic'
  PROVE  FilesInvariant'
<1>1. /\ FilesShaped /\ Knows(p) /\ Goto(p, j) /\ Tree
      /\ LinksExact /\ Acyclic /\ nlink \in [Inums -> Nat]
  BY DEF FilesInvariant, Frame, FilesShaped, FilesTyped
<1>2. TallyStays(p, j)
  BY <1>1, TallyKept
<1>3. ASSUME NEW x \in Inums PROVE nlink'[x] \in Nat /\ (type'[x] # "free" => nlink'[x] = Tally(x)')
  <2> DEFINE f == Is(Pends(j), x)
             g == Is(Pends(job[p]), x)
  <2>1. nlink[x] \in Nat /\ f \in Nat /\ g \in Nat
    BY <1>1 DEF Is
  <2>2. nlink'[x] = nlink[x] + f - g
    BY DEF Recount
  <2>3. Tally(x) \in Nat /\ Tally(x)' \in Nat /\ Tally(x)' = Tally(x) + f - g
    BY <1>2 DEF TallyStays
  <2>4. type[x] # "free" => nlink[x] = Tally(x)
    BY <1>1 DEF LinksExact, Tally
  <2>5. type[x] = "free" => g = 0
    <3>1. type[x] = "free" => Pends(job[p]) # x
      BY Gone
    <3>2. QED
      BY <3>1 DEF Is
  <2>6. type'[x] = type[x]
    OBVIOUS
  <2> HIDE DEF f, g
  <2>7. CASE type[x] = "free"
    <3>1. nlink'[x] = nlink[x] + f
      BY <2>1, <2>2, <2>5, <2>7
    <3>2. nlink'[x] \in Nat
      BY <2>1, <3>1
    <3>3. QED
      BY <2>6, <2>7, <3>2
  <2>8. CASE type[x] # "free"
    <3>1. nlink'[x] = Tally(x)'
      BY <2>1, <2>2, <2>3, <2>4, <2>8
    <3>2. QED
      BY <2>3, <3>1
  <2>9. QED
    BY <2>7, <2>8
<1>4. nlink' \in [Inums -> Nat]
  BY <1>3 DEF Recount
<1>5. \A q \in Callers : Knows(q)'
  <2>1. Knows(p)'
    <3>1. job'[p] = j
      BY <1>1, OneJob
    <3>2. QED
      BY <1>1, <3>1 DEF Knows, Informed
  <2>2. ASSUME NEW q \in Callers \ {p} PROVE Knows(q)'
    <3>1. job'[q] = job[q] /\ Knows(q)
      BY <1>1, OneJob DEF FilesInvariant
    <3>2. QED
      BY <3>1 DEF Knows, Informed
  <2>3. QED
    BY <2>1, <2>2
<1>6. Tree' /\ Acyclic'
  BY <1>1 DEF Tree, Acyclic, Below
<1>7. /\ type' \in [Inums -> {"free", "dir", "file"}] /\ lost' \in [Inums -> Nat]
      /\ names' \in [Inums -> [Names -> Inums \cup {0}]] /\ parent' \in [Inums -> Inums \cup {0}]
  BY <1>1 DEF FilesShaped, FilesTyped
<1>8. QED
  BY <1>3, <1>4, <1>5, <1>6, <1>7, InodeStep

\* link() counts the new name before it has written it.
LEMMA LinkFileStep ==
  ASSUME FilesInvariant, NEW p \in Callers, LinkOld(p), type[job[p].at] # "dir"
  PROVE  FilesInvariant'
<1> DEFINE k == job[p]
           i == IF k.call.toabs THEN Root ELSE cwd[p]
           j == [k EXCEPT !.pc = "walk", !.ip = k.at, !.at = i, !.todo = k.call.to]
<1>1. /\ k.pc = "found" /\ k.puts = <<>> /\ panic = "no" /\ k.call.op = "link" /\ Sees(k.at)
      /\ nlink' = [nlink EXCEPT ![k.at] = @ + 1] /\ ref' = [ref EXCEPT ![i] = @ + 1]
      /\ valid' = [valid EXCEPT ![i] = @ /\ ref[i] > 0, ![k.at] = TRUE] /\ Goto(p, j)
      /\ UNCHANGED <<type, names, parent, owner, cwd, open, lost, panic>>
  BY DEF LinkOld, At
<1>2. /\ k \in Jobs /\ Shape(k) /\ Knows(p) /\ FilesShaped /\ LocksExact
      /\ k.at \in Inums \cup {0} /\ k.call \in CallRecords /\ cwd[p] \in Inums
  BY HereIs
<1>3. k.at \in Inums /\ k.at # 0 /\ k.ip = 0 /\ k.src = 0 /\ k.call.to \in Paths
  <2> HIDE DEF k, i, j
  <2>1. QED
    BY <1>1, <1>2 DEF Shape, CallRecords
<1>4. type[k.at] = "file"
  BY <1>1, <1>2, <1>3 DEF Sees, FilesShaped, FilesTyped
<1>5. i \in Inums /\ i # 0
  BY <1>2, FilesBasics
<1> HIDE DEF i
<1>6. j \in Jobs
  BY <1>2, <1>3, <1>5 DEF Jobs
<1>7. /\ j.pc = "walk" /\ j.call = k.call /\ j.at = i /\ j.ip = k.at
      /\ j.src = k.src /\ j.puts = k.puts /\ j.drop = k.drop
  BY <1>2 DEF Jobs
<1> HIDE DEF j, k
<1>8. Shape(j)
  BY <1>1, <1>2, <1>3, <1>5, <1>7 DEF Shape
<1>9. /\ Owns(j) = Owns(k) /\ Pends(j) = k.at /\ Pends(k) = 0 /\ Informed(j)
  BY <1>1, <1>3, <1>4, <1>7 DEF Owns, Pends, Informed, Linking
<1>10. Gains(p, j, i)
  <2> SUFFICES ASSUME NEW x \in Inums PROVE Holds(j, x) - Holds(k, x) = Is(i, x)
    BY DEF Gains, k
  <2>1. Change(k, j, x)
    BY <1>2, <1>6, <1>8, HoldsChange
  <2>2. QED
    BY <1>3, <1>7, <2>1 DEF Change
<1>11. /\ ref \in [Inums -> Nat] /\ valid \in [Inums -> BOOLEAN] /\ nlink \in [Inums -> Nat]
  BY <1>2 DEF FilesShaped, FilesTyped
<1>12. Frame(p, j)
  <2>1. LockMoves(p, j)
    BY <1>1, <1>2, <1>9, LockStays DEF k
  <2>2. [ref EXCEPT ![i] = @ + 1] = [x \in Inums |-> ref[x] + Is(i, x)]
    <3>1. ref \in [Inums -> Nat]
      BY <1>11
    <3>2. \A y \in Inums : [ref EXCEPT ![y] = @ + 1] = [x \in Inums |-> ref[x] + Is(y, x)]
      BY <3>1, OneMore
    <3>3. QED
      BY <1>5, <3>2
  <2>3. ref' = [x \in Inums |-> ref[x] + Is(i, x)]
    BY <1>1, <2>2
  <2>4. valid' \in [Inums -> BOOLEAN] /\ UNCHANGED <<cwd, open>>
    BY <1>1, <1>11
  <2>5. QED
    BY <1>1, <1>2, <1>6, <1>8, <1>10, <2>1, <2>3, <2>4, MoveFrame
<1>13. Recount(p, j)
  <2>1. [nlink EXCEPT ![k.at] = @ + 1] = [x \in Inums |-> nlink[x] + Is(k.at, x)]
    BY <1>3, <1>11, OneMore
  <2>2. ASSUME NEW x \in Inums PROVE nlink[x] + Is(k.at, x) = nlink[x] + Is(k.at, x) - Is(0, x)
    <3>1. Is(0, x) = 0 /\ Is(k.at, x) \in Nat /\ nlink[x] \in Nat
      BY <1>11, IsType DEF Is
    <3>2. QED
      BY <3>1
  <2>3. nlink' = [x \in Inums |-> nlink[x] + Is(k.at, x) - Is(0, x)]
    BY <1>1, <2>1, <2>2
  <2>4. QED
    BY <1>9, <2>3 DEF Recount, k
<1>14. QED
  BY <1>1, <1>6, <1>8, <1>9, <1>12, <1>13, CountStep DEF NoLinkPanic

\* A call that takes a link away from the inode it was counted for, and ends.
LEMMA CountDown ==
  ASSUME FilesInvariant, NEW p \in Callers, NEW a \in Inums, PutsOnly(job[p], a),
         Pends(job[p]) = a, nlink' = [nlink EXCEPT ![a] = @ - 1],
         Goto(p, Ended(job[p].left, <<a>>)), Releases(p), valid' \in [Inums -> BOOLEAN],
         UNCHANGED <<type, names, parent, ref, cwd, open, lost, panic>>, panic = "no"
  PROVE  FilesInvariant'
<1> DEFINE s == <<a>>
           j == Ended(job[p].left, s)
<1>1. FilesShaped /\ job[p].left \in Nat /\ s \in Seq(Inums) /\ Len(s) <= 2
  BY HereIs, ShortPuts
<1>2. Gains(p, Ended(job[p].left, s), 0)
  BY EndGains
<1>a. Goto(p, Ended(job[p].left, s))
  OBVIOUS
<1> HIDE DEF s
<1>3. j \in Jobs /\ Shape(j) /\ j.pc = "idle" /\ Pends(j) = 0 /\ ~Linking(j)
  BY <1>1, EndedFits
<1>4. Frame(p, j)
  BY <1>1, <1>2, <1>a, EndFrame
<1>5. Recount(p, j)
  <2>1. nlink \in [Inums -> Nat]
    BY <1>1 DEF FilesShaped, FilesTyped
  <2>2. ASSUME NEW x \in Inums
        PROVE  nlink'[x] = nlink[x] + Is(0, x) - Is(a, x)
    <3>1. Is(0, x) = 0 /\ Is(a, x) = (IF x = a THEN 1 ELSE 0) /\ nlink[x] \in Nat
      BY <2>1, IsType DEF Is
    <3>2. nlink'[x] = IF x = a THEN nlink[x] - 1 ELSE nlink[x]
      BY <2>1
    <3>3. QED
      BY <3>1, <3>2
  <2>3. nlink' = [x \in Inums |-> nlink'[x]]
    BY <2>1
  <2>4. nlink' = [x \in Inums |-> nlink[x] + Is(0, x) - Is(a, x)]
    BY <2>2, <2>3
  <2>5. QED
    BY <1>3, <2>4 DEF Recount
<1>6. Informed(j)
  BY <1>3 DEF Informed
<1> HIDE DEF j
<1>7. QED
  BY <1>3, <1>4, <1>5, <1>6, CountStep DEF NoLinkPanic

\* link() takes its count back.
LEMMA LinkBadStep ==
  ASSUME FilesInvariant, NEW p \in Callers, LinkBad(p)
  PROVE  FilesInvariant'
<1> DEFINE k == job[p]
<1>1. /\ k.pc = "bad" /\ k.puts = <<>> /\ panic = "no" /\ Cached(k.ip)
      /\ nlink' = [nlink EXCEPT ![k.ip] = @ - 1] /\ Goto(p, Ended(k.left, <<k.ip>>))
      /\ UNCHANGED <<type, names, parent, ref, owner, cwd, open, lost, panic>>
  BY EndedIs DEF LinkBad, At, Done, TakeBack
<1>2. /\ k \in Jobs /\ Shape(k) /\ FilesShaped /\ k.ip \in Inums \cup {0}
      /\ valid' \in [Inums -> BOOLEAN]
  BY <1>1, HereIs, CachedFits
<1> HIDE DEF k
<1>3. k.at = 0 /\ k.ip \in Inums /\ k.src = 0 /\ Owns(k) = 0 /\ Pends(k) = k.ip
  BY <1>1, <1>2 DEF Shape, Owns, Pends
<1>4. Releases(p)
  BY <1>1, <1>2, <1>3, GiveUp DEF k
<1>5. PutsOnly(k, k.ip)
  BY <1>1, <1>3 DEF PutsOnly
<1>6. QED
  BY <1>1, <1>2, <1>3, <1>4, <1>5, CountDown DEF k

\* unlink() takes the link of the entry away.
LEMMA UnnamedStep ==
  ASSUME FilesInvariant, NEW p \in Callers, Unnamed(p)
  PROVE  FilesInvariant'
<1> DEFINE k == job[p]
<1>1. /\ k.pc = "unnamed" /\ k.puts = <<>> /\ panic = "no" /\ Unlock(k.ip)
      /\ nlink' = [nlink EXCEPT ![k.ip] = @ - 1] /\ Goto(p, Ended(k.left, <<k.ip>>))
      /\ UNCHANGED <<type, names, parent, ref, valid, cwd, open, lost, panic>>
  BY EndedIs DEF Unnamed, At, Done
<1>2. /\ k \in Jobs /\ Shape(k) /\ FilesShaped /\ k.ip \in Inums \cup {0}
      /\ valid' \in [Inums -> BOOLEAN]
  BY <1>1, HereIs, CachedFits
<1> HIDE DEF k
<1>3. k.at = 0 /\ k.ip \in Inums /\ k.src = 0 /\ Owns(k) = k.ip /\ Pends(k) = k.ip
  BY <1>1, <1>2 DEF Shape, Owns, Pends
<1>4. Releases(p)
  BY <1>1, <1>2, <1>3, GiveUp DEF k
<1>5. PutsOnly(k, k.ip)
  BY <1>1, <1>3 DEF PutsOnly
<1>6. QED
  BY <1>1, <1>2, <1>3, <1>4, <1>5, CountDown DEF k

\* A name that a directory does not have is not "." or "..".
LEMMA NewName ==
  ASSUME FilesInvariant, NEW d \in Inums, type[d] = "dir", NEW s \in Paths, s # <<>>,
         Lookup(d, Head(s)) = 0
  PROVE  Head(s) \in Names /\ names[d][Head(s)] = 0
<1>1. parent[d] # 0 /\ d # 0
  BY FilesBasics DEF FilesInvariant, Tree
<1>2. Head(s) \notin {".", ".."}
  BY <1>1 DEF Lookup
<1>3. Head(s) \in Names /\ Lookup(d, Head(s)) = names[d][Head(s)]
  BY <1>2, LookupFits DEF FilesInvariant
<1>4. QED
  BY <1>3

\* The list of what is left to put is the last thing a call writes.
LEMMA EndedPuts ==
  ASSUME NEW n, NEW s, NEW t
  PROVE  [Ended(n, s) EXCEPT !.puts = t] = Ended(n, t)
<1> DEFINE c == CHOOSE c \in Calls : TRUE
           k == [pc |-> "idle", call |-> c, todo |-> <<>>, at |-> 0, ip |-> 0,
                 src |-> 0, puts |-> s, drop |-> FALSE, left |-> n]
           j == [k EXCEPT !.puts = t]
<1>1. Ended(n, s) = k
  BY Zenon DEF Ended
<1> HIDE DEF c
<1>2. j = [pc |-> "idle", call |-> c, todo |-> <<>>, at |-> 0, ip |-> 0,
           src |-> 0, puts |-> t, drop |-> FALSE, left |-> n]
  <2>1. j = [k EXCEPT !.puts = t]
    OBVIOUS
  <2> HIDE DEF j
  <2>2. QED
    BY <2>1
<1> HIDE DEF j, k
<1>3. j = Ended(n, t)
  BY <1>2, Zenon DEF Ended, c
<1>4. QED
  BY <1>1, <1>3 DEF j

\* link() writes the new name: what it counted is there now.
LEMMA LinkNameStep ==
  ASSUME FilesInvariant, NEW p \in Callers, LinkNew(p), Lookup(job[p].at, Head(job[p].todo)) = 0
  PROVE  FilesInvariant'
<1> DEFINE k == job[p]
           d == k.at
           i == k.ip
           n == Head(k.todo)
           s == <<d, i>>
           j == Ended(k.left, s)
<1>1. /\ k.pc = "parent" /\ k.puts = <<>> /\ panic = "no" /\ k.call.op = "link" /\ Sees(d)
      /\ names' = [names EXCEPT ![d][n] = i]
      /\ UNCHANGED <<type, nlink, parent, ref, valid, owner, cwd, open, lost, panic>>
  BY DEF LinkNew, At
<1>2. Goto(p, [Done(k, d) EXCEPT !.puts = <<d, i>>])
  BY DEF LinkNew
<1>3. Goto(p, j)
  <2>1. [Done(k, d) EXCEPT !.puts = <<d, i>>] = [Ended(k.left, <<d>>) EXCEPT !.puts = <<d, i>>]
    BY EndedIs DEF Done
  <2>2. [Ended(k.left, <<d>>) EXCEPT !.puts = <<d, i>>] = Ended(k.left, <<d, i>>)
    BY EndedPuts
  <2>3. QED
    BY <1>2, <2>1, <2>2
<1>4. /\ k \in Jobs /\ Shape(k) /\ Knows(p) /\ FilesShaped /\ LocksExact
      /\ d \in Inums \cup {0} /\ i \in Inums \cup {0} /\ k.todo \in Paths /\ k.left \in Nat
  BY HereIs
<1>5. /\ d \in Inums /\ i \in Inums /\ i # 0 /\ k.src = 0 /\ k.todo # <<>> /\ Owns(k) = 0 /\ Pends(k) = i
  BY <1>1, <1>4 DEF Shape, Owns, Pends
<1>6. type[d] = "dir" /\ type[i] = "file"
  BY <1>1, <1>4, <1>5 DEF Knows, Informed, Linking
<1>7. n \in Names /\ names[d][n] = 0
  BY <1>4, <1>5, <1>6, NewName
<1>8. s \in Seq(Inums) /\ Len(s) <= 2 /\ PutsBoth(k, d, i)
  BY <1>1, <1>5, ShortPuts DEF PutsBoth
<1>9. Gains(p, j, 0)
  BY <1>8, EndGains
<1>10. Releases(p) /\ valid' \in [Inums -> BOOLEAN]
  BY <1>1, <1>4, <1>5, GiveUp, CachedFits
<1> HIDE DEF n, i, d, s
<1>11. Frame(p, j) /\ j \in Jobs /\ Shape(j) /\ Pends(j) = 0 /\ ~Linking(j) /\ j.pc = "idle"
  <2>1. j \in Jobs /\ Shape(j) /\ Pends(j) = 0 /\ ~Linking(j) /\ j.pc = "idle"
    BY <1>4, <1>8, EndedFits
  <2>2. Frame(p, j)
    BY <1>1, <1>3, <1>8, <1>9, <1>10, EndFrame
  <2>3. QED
    BY <2>1, <2>2
<1> HIDE DEF j, k
<1>12. /\ names \in [Inums -> [Names -> Inums \cup {0}]] /\ nlink \in [Inums -> Nat]
       /\ type \in [Inums -> {"free", "dir", "file"}] /\ lost \in [Inums -> Nat]
       /\ parent \in [Inums -> Inums \cup {0}]
  BY <1>4 DEF FilesShaped, FilesTyped
<1>13. /\ names' \in [Inums -> [Names -> Inums \cup {0}]] /\ names'[d][n] = i
       /\ \A x \in Inums, m \in Names : x # d \/ m # n => names'[x][m] = names[x][m]
  BY <1>1, <1>5, <1>7, <1>12
<1>14. \A q \in Callers : Knows(q)'
  <2>1. Knows(p)'
    <3>1. job'[p] = j
      BY <1>3, <1>4, <1>11, OneJob
    <3>2. QED
      BY <1>1, <1>4, <1>11, <3>1 DEF Knows, Informed, Linking
  <2>2. ASSUME NEW q \in Callers \ {p} PROVE Knows(q)'
    <3>1. job'[q] = job[q] /\ cwd'[q] = cwd[q] /\ open'[q] = open[q]
      BY <1>1, <1>3, <1>4, <1>11, OneJob
    <3>2. \A x \in Inums : Held(q, x) > 0 => type'[x] = type[x]
      BY <1>1
    <3>3. ASSUME job[q].pc = "victim"
          PROVE  names'[job[q].at][Head(job[q].todo)] = names[job[q].at][Head(job[q].todo)]
      <4>1. /\ Shape(job[q]) /\ Knows(q) /\ job[q].at \in Inums \cup {0}
            /\ job[q].ip \in Inums \cup {0}
        BY HereIs
      <4>2. job[q].at \in Inums /\ Head(job[q].todo) \in Names
            /\ names[job[q].at][Head(job[q].todo)] # 0
        BY <3>3, <4>1 DEF Shape, Knows, Informed
      <4>3. QED
        BY <1>7, <1>13, <4>2
    <3>4. QED
      BY <3>1, <3>2, <3>3, KnowsStays
  <2>3. QED
    BY <2>1, <2>2
<1>15. Tree'
  <2>1. Tree
    BY DEF FilesInvariant
  <2>2. ASSUME NEW x \in Inums, NEW m \in Names, names'[x][m] # 0
        PROVE  /\ type[x] = "dir" /\ type[names'[x][m]] # "free"
               /\ type[names'[x][m]] = "dir" => parent[names'[x][m]] = x
    <3>1. CASE x = d /\ m = n
      BY <1>6, <1>13, <3>1
    <3>2. CASE x # d \/ m # n
      BY <1>13, <2>1, <2>2, <3>2 DEF Tree
    <3>3. QED
      BY <3>1, <3>2
  <2>3. QED
    BY <1>1, <2>1, <2>2 DEF Tree
<1>16. Acyclic'
  <2>1. PICK depth \in [Inums -> Nat] : Below(depth)
    BY DEF FilesInvariant, Acyclic
  <2>2. ASSUME NEW x \in Inums, NEW m \in Names, names'[x][m] # 0, type[names'[x][m]] = "dir"
        PROVE  depth[x] < depth[names'[x][m]]
    <3>1. x # d \/ m # n
      BY <1>6, <1>13, <2>2
    <3>2. QED
      BY <1>13, <2>1, <2>2, <3>1 DEF Below
  <2>3. Below(depth)'
    BY <1>1, <2>2 DEF Below
  <2>4. QED
    BY <2>3 DEF Acyclic
<1>17. \A x \in Inums : type'[x] # "free" => nlink'[x] = Tally(x)'
  <2>1. Renames(d, n, i) /\ SameDirs /\ UNCHANGED lost
    BY <1>1 DEF Renames, SameDirs
  <2>2. TallyMoves(p, j, d, n, i)
    BY <1>3, <1>4, <1>5, <1>7, <1>11, <2>1, TallyFits
  <2>3. ASSUME NEW x \in Inums, type'[x] # "free" PROVE nlink'[x] = Tally(x)'
    <3>1. /\ Tally(x) \in Nat /\ Tally(x)' \in Nat
          /\ Tally(x)' = Tally(x) + Is(i, x) - Is(names[d][n], x)
                         + If(x = d /\ i # 0 /\ type'[i] = "dir")
                         - If(x = d /\ names[d][n] # 0 /\ type[names[d][n]] = "dir")
                         + Is(Pends(j), x) - Is(Pends(job[p]), x)
      BY <2>2 DEF TallyMoves
    <3>2. /\ Is(names[d][n], x) = 0 /\ Is(Pends(j), x) = 0 /\ Pends(job[p]) = i
          /\ Is(i, x) \in Nat
      BY <1>5, <1>7, <1>11, IsType DEF Is, k
    <3>3. /\ If(x = d /\ i # 0 /\ type'[i] = "dir") = 0
          /\ If(x = d /\ names[d][n] # 0 /\ type[names[d][n]] = "dir") = 0
      BY <1>1, <1>6, <1>7 DEF If
    <3>4. Tally(x)' = Tally(x)
      BY <3>1, <3>2, <3>3
    <3>5. nlink[x] = Tally(x)
      BY <1>1, <2>3 DEF FilesInvariant, LinksExact, Tally
    <3>6. QED
      BY <1>1, <3>4, <3>5
  <2>4. QED
    BY <2>3
<1>18. NoLinkPanic'
  BY <1>1 DEF NoLinkPanic
<1>19. /\ nlink' \in [Inums -> Nat] /\ type' \in [Inums -> {"free", "dir", "file"}]
       /\ lost' \in [Inums -> Nat] /\ parent' \in [Inums -> Inums \cup {0}]
  BY <1>1, <1>12
<1>20. QED
  BY <1>11, <1>13, <1>14, <1>15, <1>16, <1>17, <1>18, <1>19, InodeStep

\* unlink() has the victim, a directory that is not empty: the call fails.
LEMMA VictimStaysStep ==
  ASSUME FilesInvariant, NEW p \in Callers, Victim(p),
         type[job[p].ip] = "dir", ~isdirempty(job[p].ip)
  PROVE  FilesInvariant'
<1> DEFINE k == job[p]
           i == k.ip
           j == [k EXCEPT !.pc = "clash", !.ip = 0, !.puts = <<i>>]
<1>1. /\ k.pc = "victim" /\ k.puts = <<>> /\ panic = "no" /\ Goto(p, j) /\ Cached(i)
      /\ panic' = (IF nlink[i] < 1 THEN "unlink: nlink < 1" ELSE "no")
      /\ UNCHANGED <<type, names, nlink, owner, parent, ref, cwd, open, lost>>
  BY DEF Victim, At
<1>2. /\ k \in Jobs /\ Shape(k) /\ Knows(p) /\ FilesShaped /\ LocksExact
      /\ k.at \in Inums \cup {0} /\ i \in Inums \cup {0} /\ valid' \in [Inums -> BOOLEAN]
  BY <1>1, HereIs, CachedFits
<1>3. /\ k.at \in Inums /\ k.at # 0 /\ i \in Inums /\ i # 0 /\ k.drop = FALSE /\ k.src = 0
      /\ k.call.op = "unlink" /\ k.todo # <<>> /\ Head(k.todo) \in Names
  <2> HIDE DEF j, k, i
  <2>1. i = k.ip
    BY DEF i
  <2>2. QED
    BY <1>1, <1>2, <2>1 DEF Shape, Jobs
<1>4. type[k.at] = "dir" /\ names[k.at][Head(k.todo)] = i
  BY <1>1, <1>2 DEF Knows, Informed
<1>5. panic' = "no"
  <2>1. nlink[i] >= 1 /\ nlink[i] \in Nat
    BY <1>2, <1>3, <1>4, NamedLinked DEF FilesShaped, FilesTyped
  <2> HIDE DEF i, j, k
  <2>2. ~(nlink[i] < 1)
    BY <2>1
  <2>3. QED
    BY <1>1, <2>2, Zenon
<1>6. <<i>> \in Seq(Inums) /\ Len(<<i>>) = 1 /\ <<i>> # <<>>
  BY <1>3, ShortPuts
<1>7. j \in Jobs
  BY <1>2, <1>6 DEF Jobs
<1>8. /\ j.pc = "clash" /\ j.call = k.call /\ j.at = k.at /\ j.ip = 0 /\ j.todo = k.todo
      /\ j.src = k.src /\ j.puts = <<i>> /\ j.drop = FALSE
  BY <1>2, <1>3 DEF Jobs
<1>9. i = k.ip
  OBVIOUS
<1> HIDE DEF j, k, i
<1>10. Shape(j)
  BY <1>3, <1>6, <1>8 DEF Shape
<1>11. Owns(j) = Owns(k) /\ Pends(j) = Pends(k) /\ Informed(j)
  BY <1>1, <1>3, <1>4, <1>8 DEF Owns, Pends, Informed, Linking
<1>12. Gains(p, j, 0)
  <2> SUFFICES ASSUME NEW x \in Inums PROVE Holds(j, x) - Holds(k, x) = Is(0, x)
    BY DEF Gains, k
  <2>1. Change(k, j, x)
    BY <1>2, <1>7, <1>10, HoldsChange
  <2>2. Occurs(j.puts, x) = Is(k.ip, x) /\ Occurs(k.puts, x) = 0
    BY <1>1, <1>8, <1>9, OccursOne, OccursNone
  <2>3. QED
    BY <1>8, <2>1, <2>2 DEF Change
<1>13. LockMoves(p, j) /\ ref' = [x \in Inums |-> ref[x] + Is(0, x)]
  BY <1>1, <1>2, <1>11, LockStays, SameRefs DEF k
<1>14. Moves(p, j, 0)
  BY <1>1, <1>2, <1>5, <1>13 DEF Moves, inodes, NoLinkPanic
<1>15. QED
  BY <1>7, <1>10, <1>11, <1>12, <1>14, MoveStep DEF k

\* unlink() takes the entry away, and gives the directory up for the victim.
LEMMA VictimGoesStep ==
  ASSUME FilesInvariant, NEW p \in Callers, Victim(p),
         ~(type[job[p].ip] = "dir" /\ ~isdirempty(job[p].ip))
  PROVE  FilesInvariant'
<1> DEFINE k == job[p]
           i == k.ip
           d == k.at
           n == Head(k.todo)
           dir == type[i] = "dir"
           j == [k EXCEPT !.pc = "unnamed", !.at = 0, !.puts = <<d>>]
<1>1. /\ k.pc = "victim" /\ k.puts = <<>> /\ panic = "no" /\ Goto(p, j) /\ Cached(i) /\ Sees(i)
      /\ panic' = (IF nlink[i] < 1 THEN "unlink: nlink < 1" ELSE "no")
      /\ names' = [names EXCEPT ![d][n] = 0]
      /\ nlink' = [nlink EXCEPT ![d] = IF dir THEN @ - 1 ELSE @]
      /\ owner' = [owner EXCEPT ![d] = NoOne, ![i] = p]
      /\ UNCHANGED <<type, parent, ref, cwd, open, lost>>
  BY DEF Victim, At
<1>2. /\ k \in Jobs /\ Shape(k) /\ Knows(p) /\ FilesShaped /\ LocksExact
      /\ d \in Inums \cup {0} /\ i \in Inums \cup {0} /\ valid' \in [Inums -> BOOLEAN]
  BY <1>1, HereIs, CachedFits
<1>3. i = k.ip /\ d = k.at /\ n = Head(k.todo)
  OBVIOUS
<1>4. type[d] = "dir" /\ names[d][n] = i
  BY <1>1, <1>2 DEF Knows, Informed
<1>5. /\ d \in Inums /\ d # 0 /\ i \in Inums /\ i # 0 /\ k.drop = FALSE /\ k.src = 0
      /\ k.call.op = "unlink" /\ k.todo # <<>> /\ n \in Names /\ Owns(k) = d /\ Pends(k) = 0
  <2> HIDE DEF j, k, i, d, n, dir
  <2>1. QED
    BY <1>1, <1>2, <1>3 DEF Shape, Jobs, Owns, Pends
<1>6. NoLinkPanic'
  <2>1. nlink[i] >= 1 /\ nlink[i] \in Nat
    BY <1>2, <1>4, <1>5, NamedLinked DEF FilesShaped, FilesTyped
  <2> HIDE DEF i, j, k, d, n, dir
  <2>2. ~(nlink[i] < 1)
    BY <2>1
  <2>3. QED
    BY <1>1, <2>2, Zenon DEF NoLinkPanic
<1>7. <<d>> \in Seq(Inums) /\ Len(<<d>>) = 1 /\ <<d>> # <<>>
  BY <1>5, ShortPuts
<1>8. j \in Jobs
  BY <1>2, <1>7 DEF Jobs
<1>9. /\ j.pc = "unnamed" /\ j.call = k.call /\ j.at = 0 /\ j.ip = k.ip /\ j.todo = k.todo
      /\ j.src = k.src /\ j.puts = <<d>> /\ j.drop = FALSE
  BY <1>2, <1>5 DEF Jobs
<1>10. type[i] # "free" /\ owner[i] = NoOne
  BY <1>1 DEF Sees, Free
<1> HIDE DEF j, k, i, d, n
<1>11. Shape(j)
  BY <1>3, <1>5, <1>7, <1>9 DEF Shape
<1>12. Owns(j) = i /\ Pends(j) = i /\ Informed(j)
  BY <1>3, <1>5, <1>9, <1>10 DEF Owns, Pends, Informed, Linking
<1>13. Gains(p, j, 0)
  <2> SUFFICES ASSUME NEW x \in Inums PROVE Holds(j, x) - Holds(k, x) = Is(0, x)
    BY DEF Gains, k
  <2>1. Change(k, j, x)
    BY <1>2, <1>8, <1>11, HoldsChange
  <2>2. Occurs(j.puts, x) = Is(k.at, x) /\ Occurs(k.puts, x) = 0
    BY <1>1, <1>3, <1>9, OccursOne, OccursNone
  <2>3. QED
    BY <1>9, <2>1, <2>2 DEF Change
<1>14. Frame(p, j)
  <2>1. owner \in [Inums -> Callers \cup {NoOne}]
    BY <1>2 DEF FilesShaped, FilesTyped
  <2>2. owner' = [x \in Inums |-> IF x = i THEN p ELSE IF x = d THEN NoOne ELSE owner[x]]
    BY <1>1, <1>5, <2>1
  <2>3. LockMoves(p, j)
    BY <1>5, <1>10, <1>12, <2>2 DEF LockMoves, k
  <2>4. ref' = [x \in Inums |-> ref[x] + Is(0, x)]
    BY <1>1, <1>2, SameRefs
  <2>5. QED
    BY <1>1, <1>2, <1>8, <1>11, <1>13, <2>3, <2>4, MoveFrame
<1>15. /\ names \in [Inums -> [Names -> Inums \cup {0}]] /\ nlink \in [Inums -> Nat]
       /\ type \in [Inums -> {"free", "dir", "file"}] /\ lost \in [Inums -> Nat]
       /\ parent \in [Inums -> Inums \cup {0}]
  BY <1>2 DEF FilesShaped, FilesTyped
<1>16. /\ names' \in [Inums -> [Names -> Inums \cup {0}]] /\ names'[d][n] = 0
       /\ \A x \in Inums, m \in Names : x # d \/ m # n => names'[x][m] = names[x][m]
  BY <1>1, <1>5, <1>15
<1>17. \A q \in Callers : Knows(q)'
  <2>1. Knows(p)'
    <3>1. job'[p] = j
      BY <1>1, <1>2, <1>8, OneJob
    <3>2. /\ type[cwd[p]] = "dir" /\ (open[p] # 0 => type[open[p]] # "free")
      BY <1>2 DEF Knows
    <3>3. QED
      BY <1>1, <1>3, <1>5, <1>9, <1>10, <3>1, <3>2 DEF Knows, Informed, Linking
  <2>2. ASSUME NEW q \in Callers \ {p} PROVE Knows(q)'
    <3>1. job'[q] = job[q] /\ cwd'[q] = cwd[q] /\ open'[q] = open[q]
      BY <1>1, <1>2, <1>8, OneJob
    <3>2. \A x \in Inums : Held(q, x) > 0 => type'[x] = type[x]
      BY <1>1
    <3>3. ASSUME job[q].pc = "victim"
          PROVE  names'[job[q].at][Head(job[q].todo)] = names[job[q].at][Head(job[q].todo)]
      <4>1. Shape(job[q]) /\ job[q].at \in Inums \cup {0}
        BY HereIs
      <4>2. job[q].at \in Inums /\ Head(job[q].todo) \in Names /\ Owns(job[q]) = job[q].at
        BY <3>3, <4>1 DEF Shape, Owns
      <4>3. job[q].at # d
        <5>1. owner[job[q].at] = q /\ owner[d] = p
          BY <1>2, <1>5, <4>2 DEF LocksExact, k
        <5>2. QED
          BY <5>1
      <4>4. QED
        BY <1>16, <4>2, <4>3
    <3>4. QED
      BY <3>1, <3>2, <3>3, KnowsStays
  <2>3. QED
    BY <2>1, <2>2
<1>18. Tree'
  <2>1. Tree
    BY DEF FilesInvariant
  <2>2. ASSUME NEW x \in Inums, NEW m \in Names, names'[x][m] # 0
        PROVE  /\ type[x] = "dir" /\ type[names'[x][m]] # "free"
               /\ type[names'[x][m]] = "dir" => parent[names'[x][m]] = x
    <3>1. names'[x][m] = names[x][m]
      BY <1>16, <2>2
    <3>2. QED
      BY <2>1, <2>2, <3>1 DEF Tree
  <2>3. UNCHANGED <<type, parent, lost>>
    BY <1>1
  <2>4. QED
    BY <2>1, <2>2, <2>3 DEF Tree
<1>19. Acyclic'
  <2>1. PICK depth \in [Inums -> Nat] : Below(depth)
    BY DEF FilesInvariant, Acyclic
  <2>2. ASSUME NEW x \in Inums, NEW m \in Names, names'[x][m] # 0, type[names'[x][m]] = "dir"
        PROVE  depth[x] < depth[names'[x][m]]
    <3>1. names'[x][m] = names[x][m]
      BY <1>16, <2>2
    <3>2. QED
      BY <2>1, <2>2, <3>1 DEF Below
  <2>3. Below(depth)'
    BY <1>1, <2>2 DEF Below
  <2>4. QED
    BY <2>3 DEF Acyclic
<1>20. \A x \in Inums : Tally(x)' \in Nat /\ (type'[x] # "free" => nlink'[x] = Tally(x)')
  <2>1. Renames(d, n, 0) /\ SameDirs /\ UNCHANGED lost
    BY <1>1 DEF Renames, SameDirs
  <2>2. TallyMoves(p, j, d, n, 0)
    BY <1>1, <1>2, <1>5, <1>8, <2>1, TallyFits
  <2>3. ASSUME NEW x \in Inums
        PROVE  Tally(x)' \in Nat /\ (type'[x] # "free" => nlink'[x] = Tally(x)')
    <3>1. /\ Tally(x) \in Nat /\ Tally(x)' \in Nat
          /\ Tally(x)' = Tally(x) + Is(0, x) - Is(names[d][n], x)
                         + If(x = d /\ 0 # 0 /\ type'[0] = "dir")
                         - If(x = d /\ names[d][n] # 0 /\ type[names[d][n]] = "dir")
                         + Is(Pends(j), x) - Is(Pends(job[p]), x)
      BY <2>2 DEF TallyMoves
    <3>2. /\ Is(0, x) = 0 /\ Is(Pends(j), x) = Is(i, x) /\ Is(Pends(job[p]), x) = 0
          /\ Is(names[d][n], x) = Is(i, x) /\ Is(i, x) \in Nat
      BY <1>4, <1>5, <1>12, IsType DEF Is, k
    <3>3. If(x = d /\ 0 # 0 /\ type'[0] = "dir") = 0
      BY DEF If
    <3>4. If(x = d /\ names[d][n] # 0 /\ type[names[d][n]] = "dir") = If(x = d /\ dir)
      BY <1>4, <1>5
    <3>5. Tally(x)' = Tally(x) - If(x = d /\ dir) /\ If(x = d /\ dir) \in Nat
      <4>1. If(x = d /\ dir) \in Nat
        BY DEF If
      <4> HIDE DEF dir
      <4>2. QED
        BY <3>1, <3>2, <3>3, <3>4, <4>1
    <3>6. type[x] # "free" => nlink[x] = Tally(x)
      BY DEF FilesInvariant, LinksExact, Tally
    <3>7. nlink'[x] = nlink[x] - If(x = d /\ dir)
      <4>1. nlink' = [nlink EXCEPT ![d] = IF dir THEN @ - 1 ELSE @]
        BY <1>1
      <4> HIDE DEF dir
      <4>2. nlink'[x] = IF x = d /\ dir THEN nlink[x] - 1 ELSE nlink[x]
        BY <1>15, <4>1
      <4>3. nlink[x] \in Nat
        BY <1>15
      <4>4. QED
        BY <4>2, <4>3 DEF If
    <3>8. type'[x] = type[x]
      BY <1>1
    <3> HIDE DEF dir
    <3>9. QED
      BY <3>1, <3>5, <3>6, <3>7, <3>8
  <2>4. QED
    BY <2>3
<1>21. /\ nlink' \in [Inums -> Nat] /\ type' \in [Inums -> {"free", "dir", "file"}]
       /\ lost' \in [Inums -> Nat] /\ parent' \in [Inums -> Inums \cup {0}]
  <2>1. nlink' = [nlink EXCEPT ![d] = nlink'[d]] /\ nlink'[d] \in Nat
    <3>1. nlink'[d] \in Nat
      <4>1. type'[d] # "free"
        BY <1>1, <1>4
      <4>2. \A x \in Inums : type'[x] # "free" => nlink'[x] \in Nat
        BY <1>20
      <4>3. QED
        BY <1>5, <4>1, <4>2
    <3>2. nlink' = [nlink EXCEPT ![d] = nlink'[d]]
      BY <1>1, <1>5, <1>15
    <3>3. QED
      BY <3>1, <3>2
  <2>2. nlink' \in [Inums -> Nat]
    BY <1>5, <1>15, <2>1
  <2>3. QED
    BY <1>1, <1>15, <2>2
<1>22. QED
  BY <1>6, <1>8, <1>11, <1>14, <1>16, <1>17, <1>18, <1>19, <1>20, <1>21, InodeStep

\* create() makes a new inode and names it.
LEMMA CreateNewStep ==
  ASSUME FilesInvariant, NEW p \in Callers, CreateNew(p)
  PROVE  FilesInvariant'
<1> DEFINE k == job[p]
           d == k.at
           n == Head(k.todo)
           dir == k.call.op = "mkdir"
<1>1. PICK i \in Inums :
        /\ FirstFree(i) /\ Free(i)
        /\ type' = [type EXCEPT ![i] = IF dir THEN "dir" ELSE "file"]
        /\ nlink' = [nlink EXCEPT ![i] = 1, ![d] = IF dir THEN @ + 1 ELSE @]
        /\ names' = [names EXCEPT ![d][n] = i]
        /\ parent' = [parent EXCEPT ![i] = IF dir THEN d ELSE 0]
        /\ ref' = [ref EXCEPT ![i] = @ + 1]
        /\ valid' = [valid EXCEPT ![i] = TRUE]
        /\ Lock(i, p)
        /\ Goto(p, [k EXCEPT !.pc = "created", !.at = 0, !.ip = i, !.puts = <<d>>])
  BY DEF CreateNew
<1> DEFINE j == [k EXCEPT !.pc = "created", !.at = 0, !.ip = i, !.puts = <<d>>]
<1>2. /\ k.pc = "parent" /\ k.puts = <<>> /\ panic = "no" /\ k.call.op \in {"creat", "mkdir", "copy"}
      /\ Sees(d) /\ Lookup(d, n) = 0 /\ UNCHANGED <<cwd, open, lost, panic>> /\ Goto(p, j)
  BY <1>1 DEF CreateNew, At
<1>3. /\ k \in Jobs /\ Shape(k) /\ Knows(p) /\ FilesShaped /\ LocksExact
      /\ d \in Inums \cup {0} /\ k.todo \in Paths
  BY HereIs
<1>4. d = k.at /\ n = Head(k.todo) /\ (dir <=> k.call.op = "mkdir") /\ i # 0
  BY FilesBasics
<1>5. type[d] = "dir" /\ type[i] = "free" /\ owner[i] = NoOne
  BY <1>1, <1>2, <1>3 DEF Knows, Informed, FirstFree, Free
<1>6. /\ d \in Inums /\ d # 0 /\ k.drop = FALSE /\ k.ip = 0 /\ k.todo # <<>>
      /\ Owns(k) = 0 /\ Pends(k) = 0 /\ d # i
  <2>1. d # i
    BY <1>5
  <2> HIDE DEF j, k, d, n, dir
  <2>2. QED
    BY <1>2, <1>3, <1>4, <2>1 DEF Shape, Jobs, Owns, Pends
<1>7. n \in Names /\ names[d][n] = 0
  BY <1>2, <1>3, <1>5, <1>6, NewName
<1>8. <<d>> \in Seq(Inums) /\ Len(<<d>>) = 1 /\ <<d>> # <<>>
  BY <1>6, ShortPuts
<1>9. j \in Jobs
  BY <1>3, <1>8 DEF Jobs
<1>10. /\ j.pc = "created" /\ j.call = k.call /\ j.at = 0 /\ j.ip = i
       /\ j.src = k.src /\ j.puts = <<d>> /\ j.drop = FALSE
  BY <1>3, <1>6 DEF Jobs
<1> HIDE DEF j, k, d, n, dir
<1>11. Shape(j)
  BY <1>2, <1>3, <1>4, <1>8, <1>10 DEF Shape
<1>12. Owns(j) = i /\ Pends(j) = 0 /\ ~Linking(j)
  BY <1>2, <1>10 DEF Owns, Pends, Linking
<1>13. Gains(p, j, i)
  <2> SUFFICES ASSUME NEW x \in Inums PROVE Holds(j, x) - Holds(k, x) = Is(i, x)
    BY DEF Gains, k
  <2>1. Change(k, j, x)
    BY <1>3, <1>9, <1>11, HoldsChange
  <2>2. Occurs(j.puts, x) = Is(k.at, x) /\ Occurs(k.puts, x) = 0
    BY <1>2, <1>4, <1>10, OccursOne, OccursNone
  <2>3. QED
    BY <1>6, <1>10, <2>1, <2>2 DEF Change
<1>14. /\ names \in [Inums -> [Names -> Inums \cup {0}]] /\ nlink \in [Inums -> Nat]
       /\ type \in [Inums -> {"free", "dir", "file"}] /\ lost \in [Inums -> Nat]
       /\ parent \in [Inums -> Inums \cup {0}]
       /\ ref \in [Inums -> Nat] /\ valid \in [Inums -> BOOLEAN]
  BY <1>3 DEF FilesShaped, FilesTyped
<1>15. Frame(p, j)
  <2>1. LockMoves(p, j)
    BY <1>1, <1>3, <1>6, <1>12, TakeLock DEF k
  <2>2. ref' = [x \in Inums |-> ref[x] + Is(i, x)]
    <3>1. ref \in [Inums -> Nat]
      BY <1>14
    <3>2. \A y \in Inums : [ref EXCEPT ![y] = @ + 1] = [x \in Inums |-> ref[x] + Is(y, x)]
      BY <3>1, OneMore
    <3>3. QED
      BY <1>1, <3>2
  <2>3. valid' \in [Inums -> BOOLEAN]
    BY <1>1, <1>14
  <2>4. QED
    BY <1>2, <1>3, <1>9, <1>11, <1>13, <2>1, <2>2, <2>3, MoveFrame
<1>16. /\ names' \in [Inums -> [Names -> Inums \cup {0}]] /\ names'[d][n] = i
       /\ \A x \in Inums, m \in Names : x # d \/ m # n => names'[x][m] = names[x][m]
  BY <1>1, <1>6, <1>7, <1>14
<1>17. /\ type' \in [Inums -> {"free", "dir", "file"}]
       /\ type'[i] = (IF dir THEN "dir" ELSE "file")
       /\ \A x \in Inums : x # i => type'[x] = type[x]
  BY <1>1, <1>14
<1>18. /\ parent' \in [Inums -> Inums \cup {0}] /\ (dir => parent'[i] = d)
       /\ \A x \in Inums : x # i => parent'[x] = parent[x]
  BY <1>1, <1>6, <1>14
<1>19. nlink' \in [Inums -> Nat]
       /\ \A x \in Inums : nlink'[x] = IF x = i THEN 1 ELSE IF x = d /\ dir THEN nlink[x] + 1 ELSE nlink[x]
  <2>1. nlink' = [nlink EXCEPT ![i] = 1, ![d] = IF dir THEN @ + 1 ELSE @]
    BY <1>1
  <2>2. nlink \in [Inums -> Nat] /\ i \in Inums /\ d \in Inums /\ d # i
    BY <1>6, <1>14
  <2> HIDE DEF j, k, d, n, dir
  <2>3. QED
    BY <2>1, <2>2
<1>20. /\ i # Root /\ lost[i] = 0 /\ Tally(i) = 0
       /\ \A x \in Inums, m \in Names : names[x][m] # i
       /\ \A q \in Callers : Pends(job[q]) # i
       /\ \A m \in Names : names[i][m] = 0
  <2>1. \A m \in Names : names[i][m] = 0
    BY <1>5 DEF FilesInvariant, Tree
  <2>2. QED
    BY <1>5, <2>1, Gone
<1>21. \A q \in Callers : Knows(q)'
  <2>1. Knows(p)'
    <3>1. job'[p] = j
      BY <1>2, <1>3, <1>9, OneJob
    <3>2. cwd[p] \in Inums /\ open[p] \in Inums \cup {0}
      BY HereIs
    <3>3. /\ type'[cwd[p]] = "dir" /\ (open[p] # 0 => type'[open[p]] # "free")
      BY <1>3, <1>5, <1>17, <3>2 DEF Knows
    <3>4. type'[j.ip] # "free"
      BY <1>10, <1>17
    <3>5. cwd' = cwd /\ open' = open
      BY <1>2
    <3>6. QED
      BY <1>10, <1>12, <3>1, <3>3, <3>4, <3>5 DEF Knows, Informed
  <2>2. ASSUME NEW q \in Callers \ {p} PROVE Knows(q)'
    <3>1. /\ job'[q] = job[q] /\ cwd'[q] = cwd[q] /\ open'[q] = open[q]
          /\ Shape(job[q]) /\ Knows(q) /\ job[q].at \in Inums \cup {0} /\ job[q].ip \in Inums \cup {0}
          /\ cwd[q] \in Inums /\ open[q] \in Inums \cup {0}
      BY <1>2, <1>3, <1>9, OneJob, HereIs
    <3>2. ASSUME job[q].pc = "victim"
          PROVE  names'[job[q].at][Head(job[q].todo)] = names[job[q].at][Head(job[q].todo)]
      <4>1. job[q].at \in Inums /\ Head(job[q].todo) \in Names
            /\ names[job[q].at][Head(job[q].todo)] # 0
        BY <3>1, <3>2 DEF Shape, Knows, Informed
      <4>2. QED
        BY <1>7, <1>16, <4>1
    <3>3. /\ job[q].pc \in {"parent", "clash", "victim"} => type'[job[q].at] = "dir"
          /\ Linking(job[q]) => type'[job[q].ip] = "file"
          /\ job[q].pc \in {"created", "unnamed"} => type'[job[q].ip] # "free"
          /\ type'[cwd[q]] = "dir" /\ (open[q] # 0 => type'[open[q]] # "free")
      BY <1>5, <1>17, <3>1 DEF Knows, Informed, Shape, Linking
    <3>4. QED
      BY <3>1, <3>2, <3>3 DEF Knows, Informed
  <2>3. QED
    BY <2>1, <2>2
<1>22. Tree'
  <2>1. Tree
    BY DEF FilesInvariant
  <2>2. ASSUME NEW x \in Inums, NEW m \in Names, names'[x][m] # 0
        PROVE  /\ type'[x] = "dir" /\ type'[names'[x][m]] # "free"
               /\ type'[names'[x][m]] = "dir" => parent'[names'[x][m]] = x
    <3>1. CASE x = d /\ m = n
      BY <1>5, <1>6, <1>16, <1>17, <1>18, <3>1
    <3>2. CASE x # d \/ m # n
      <4>1. names'[x][m] = names[x][m] /\ x # i /\ names[x][m] # i /\ names[x][m] \in Inums
        BY <1>14, <1>16, <1>20, <2>2, <3>2
      <4>2. /\ type[x] = "dir" /\ type[names[x][m]] # "free"
            /\ type[names[x][m]] = "dir" => parent[names[x][m]] = x
        BY <2>1, <2>2, <4>1 DEF Tree
      <4>3. QED
        BY <1>17, <1>18, <4>1, <4>2
    <3>3. QED
      BY <3>1, <3>2
  <2>3. type'[Root] # "free" /\ \A x \in Inums : type'[x] = "free" => lost'[x] = 0
    <3>1. Root \in Inums /\ type[Root] # "free" /\ \A x \in Inums : type[x] = "free" => lost[x] = 0
      BY <2>1, FilesBasics DEF Tree
    <3>2. QED
      BY <1>2, <1>17, <1>20, <3>1
  <2>4. \A x \in Inums : type'[x] = "dir" => parent'[x] # 0
    <3>1. \A x \in Inums : type[x] = "dir" => parent[x] # 0
      BY <2>1 DEF Tree
    <3>2. QED
      BY <1>6, <1>17, <1>18, <3>1
  <2>5. QED
    BY <2>2, <2>3, <2>4 DEF Tree
<1>23. Acyclic'
  <2>1. PICK depth \in [Inums -> Nat] : Below(depth)
    BY DEF FilesInvariant, Acyclic
  <2> DEFINE below == [x \in Inums |-> IF x = i THEN depth[d] + 1 ELSE depth[x]]
  <2>2. below \in [Inums -> Nat]
    BY <1>6
  <2>3. ASSUME NEW x \in Inums, NEW m \in Names, names'[x][m] # 0, type'[names'[x][m]] = "dir"
        PROVE  below[x] < below[names'[x][m]]
    <3>1. CASE x = d /\ m = n
      BY <1>6, <1>16, <3>1
    <3>2. CASE x # d \/ m # n
      <4>1. names'[x][m] = names[x][m] /\ x # i /\ names[x][m] # i /\ names[x][m] \in Inums
        BY <1>14, <1>16, <1>20, <2>3, <3>2
      <4>2. depth[x] < depth[names[x][m]]
        BY <1>17, <2>1, <2>3, <4>1 DEF Below
      <4>3. QED
        BY <4>1, <4>2
    <3>3. QED
      BY <3>1, <3>2
  <2> HIDE DEF below
  <2>4. \E f \in [Inums -> Nat] : \A x \in Inums, m \in Names :
          names'[x][m] # 0 /\ type'[names'[x][m]] = "dir" => f[x] < f[names'[x][m]]
    BY <2>2, <2>3
  <2>5. QED
    BY <2>4 DEF Acyclic, Below
<1>24. \A x \in Inums : type'[x] # "free" => nlink'[x] = Tally(x)'
  <2>1. Renames(d, n, i) /\ UNCHANGED lost
    BY <1>1, <1>2 DEF Renames
  <2>2. SameDirs
    <3>1. ASSUME NEW e \in Entries PROVE type'[Target(e)] = "dir" <=> type[Target(e)] = "dir"
      <4>1. PICK a \in Inums, m \in Names : e = <<a, m>>
        BY DEF Entries
      <4>2. Target(e) = names[a][m] /\ names[a][m] # 0
        BY <4>1 DEF Target, Entries
      <4>3. names[a][m] \in Inums /\ names[a][m] # i
        BY <1>14, <1>20, <4>2
      <4>4. QED
        BY <1>17, <4>2, <4>3
    <3>2. QED
      BY <3>1 DEF SameDirs
  <2>3. TallyMoves(p, j, d, n, i)
    BY <1>2, <1>3, <1>6, <1>7, <1>9, <2>1, <2>2, TallyFits
  <2>4. ASSUME NEW x \in Inums, type'[x] # "free" PROVE nlink'[x] = Tally(x)'
    <3>1. /\ Tally(x) \in Nat /\ Tally(x)' \in Nat
          /\ Tally(x)' = Tally(x) + Is(i, x) - Is(names[d][n], x)
                         + If(x = d /\ i # 0 /\ type'[i] = "dir")
                         - If(x = d /\ names[d][n] # 0 /\ type[names[d][n]] = "dir")
                         + Is(Pends(j), x) - Is(Pends(job[p]), x)
      BY <2>3 DEF TallyMoves
    <3>2. /\ Is(names[d][n], x) = 0 /\ Is(Pends(j), x) = 0 /\ Is(Pends(job[p]), x) = 0
          /\ Is(i, x) = (IF x = i THEN 1 ELSE 0)
      BY <1>6, <1>7, <1>12, IsType DEF Is, k
    <3>3. /\ If(x = d /\ i # 0 /\ type'[i] = "dir") = (IF x = d /\ dir THEN 1 ELSE 0)
          /\ If(x = d /\ names[d][n] # 0 /\ type[names[d][n]] = "dir") = 0
      BY <1>4, <1>7, <1>17 DEF If
    <3>4. Tally(x)' = Tally(x) + (IF x = i THEN 1 ELSE 0) + (IF x = d /\ dir THEN 1 ELSE 0)
      BY <3>1, <3>2, <3>3
    <3>5. nlink'[x] = IF x = i THEN 1 ELSE IF x = d /\ dir THEN nlink[x] + 1 ELSE nlink[x]
      BY <1>19
    <3>6. CASE x = i
      BY <1>6, <1>20, <3>4, <3>5, <3>6
    <3>7. CASE x # i
      <4>1. nlink[x] = Tally(x)
        BY <1>17, <2>4, <3>7 DEF FilesInvariant, LinksExact, Tally
      <4>2. QED
        BY <3>1, <3>4, <3>5, <3>7, <4>1
    <3>8. QED
      BY <3>6, <3>7
  <2>5. QED
    BY <2>4
<1>25. NoLinkPanic' /\ lost' \in [Inums -> Nat]
  BY <1>2, <1>14 DEF NoLinkPanic
<1>26. QED
  BY <1>9, <1>11, <1>15, <1>16, <1>17, <1>18, <1>19, <1>21, <1>22, <1>23, <1>24, <1>25, InodeStep

\* What p is about to put is the only reference to i.
Alone(p, i) ==
  /\ \A q \in Callers \ {p} : Held(q, i) = 0
  /\ i \notin {job[p].at, job[p].ip, job[p].src, cwd[p], open[p]}

\* The last reference to an inode is the one that iput() is about to drop.
LEMMA SoleHolder ==
  ASSUME FilesInvariant, NEW p \in Callers, job[p].puts # <<>>, ref[Head(job[p].puts)] = 1
  PROVE  Alone(p, Head(job[p].puts)) /\ Head(job[p].puts) \in Inums
<1> DEFINE i == Head(job[p].puts)
           f == [q \in Callers |-> Held(q, i)]
<1>1. /\ FilesShaped /\ RefsExact /\ job[p] \in Jobs /\ Shape(job[p])
      /\ job[p].puts \in Seq(Inums) /\ Len(job[p].puts) <= 2
  BY HereIs DEF FilesInvariant
<1>2. i \in Inums
  BY <1>1, PutsRest
<1>3. \A q \in Callers : Held(q, i) \in Nat
  BY <1>1, <1>2, HeldType
<1>4. Occurs(job[p].puts, i) > 0 /\ Occurs(job[p].puts, i) \in Nat
  BY <1>1, <1>2, HoldsType
<1>5. /\ Occurs(job[p].puts, i) <= Held(p, i)
      /\ i \in {job[p].at, job[p].ip, job[p].src, cwd[p], open[p]} => Held(p, i) > Occurs(job[p].puts, i)
  <2>1. /\ Holds(job[p], i) \in Nat /\ Holds(job[p], i) <= Held(p, i)
        /\ Occurs(job[p].puts, i) <= Holds(job[p], i)
        /\ i \in {job[p].at, job[p].ip, job[p].src, cwd[p], open[p]} =>
             Held(p, i) > Occurs(job[p].puts, i)
    BY <1>1, <1>2, HeldType, HoldsType
  <2>2. QED
    BY <1>3, <1>4, <2>1
<1>6. SumFunctionOnSet(f, Callers) = 1
  BY <1>1, <1>2 DEF RefsExact
<1>7. f \in [Callers -> Nat] /\ \A q \in Callers : f[q] = Held(q, i)
  BY <1>3
<1> HIDE DEF f, i
<1>8. f[p] <= 1 /\ \A q \in Callers \ {p} : f[p] + f[q] <= 1
  BY <1>6, <1>7, FilesBasics, SumLower
<1>9. \A q \in Callers \ {p} : Held(q, i) = 0
  BY <1>3, <1>4, <1>5, <1>7, <1>8
<1>10. i \notin {job[p].at, job[p].ip, job[p].src, cwd[p], open[p]}
  BY <1>3, <1>4, <1>5, <1>7, <1>8
<1>11. QED
  BY <1>2, <1>9, <1>10 DEF Alone, i

\* iput() frees an inode: the entries it had are lost, and the names of the inodes
\* they named are fewer by as many.
LEMMA LostFits ==
  ASSUME FilesShaped, NEW i \in Inums, NEW x \in Inums,
         names' = [names EXCEPT ![i] = [n \in Names |-> 0]],
         lost' = [y \in Inums |-> lost[y] + Count({e \in Entries : e[1] = i /\ Target(e) = y})]
  PROVE  /\ Count(Named(x)) \in Nat /\ Count(Named(x))' \in Nat
         /\ lost[x] \in Nat /\ lost'[x] \in Nat
         /\ Count(Named(x))' + lost'[x] = Count(Named(x)) + lost[x]
<1> DEFINE S == Named(x)
           T == Named(x)'
           L == {e \in Entries : e[1] = i /\ Target(e) = x}
<1>1. names \in [Inums -> [Names -> Inums \cup {0}]] /\ lost[x] \in Nat
  BY DEF FilesShaped, FilesTyped
<1>2. lost'[x] = lost[x] + Count(L)
  OBVIOUS
<1>3. /\ \A n \in Names : names'[i][n] = 0
      /\ \A d \in Inums, n \in Names : d # i => names'[d][n] = names[d][n]
  BY <1>1
<1>4. IsFiniteSet(S) /\ IsFiniteSet(L) /\ L \subseteq S
  BY FewEntries DEF Named, Entries
<1>5. T = S \ L
  <2>1. ASSUME NEW y PROVE y \in T <=> y \in S /\ y \notin L
    <3>1. CASE y \notin Inums \X Names
      BY <3>1 DEF Named, Entries
    <3>2. CASE y \in Inums \X Names
      <4>1. PICK a \in Inums, m \in Names : y = <<a, m>>
        BY <3>2
      <4>2. CASE a = i
        BY <1>3, <4>1, <4>2 DEF Named, Entries, Target
      <4>3. CASE a # i
        BY <1>3, <4>1, <4>3 DEF Named, Entries, Target
      <4>4. QED
        BY <4>2, <4>3
    <3>3. QED
      BY <3>1, <3>2
  <2> HIDE DEF S, T, L
  <2>2. QED
    BY <2>1
<1>6. Count(Named(x))' = Count(T) /\ Count(Named(x)) = Count(S)
  BY DEF S, T, Count
<1> HIDE DEF S, T, L
<1>7. /\ IsFiniteSet(T) /\ Cardinality(S) \in Nat /\ Cardinality(L) \in Nat /\ Cardinality(T) \in Nat
      /\ Cardinality(T) = Cardinality(S) - Cardinality(L)
  <2>1. S \cap L = L
    BY <1>4
  <2>2. IsFiniteSet(T) /\ Cardinality(T) = Cardinality(S) - Cardinality(S \cap L)
    BY <1>4, <1>5, FS_Difference
  <2>3. QED
    BY <1>4, <2>1, <2>2, FS_CardinalityType
<1>8. Count(T) = Cardinality(T) /\ Count(S) = Cardinality(S) /\ Count(L) = Cardinality(L)
  BY DEF Count
<1>9. QED
  BY <1>1, <1>2, <1>6, <1>7, <1>8

\* iput() of the last reference to an inode without links, which it frees.
LEMMA PutFreeStep ==
  ASSUME FilesInvariant, NEW p \in Callers, PutLock(p), Unused(Head(job[p].puts))
  PROVE  FilesInvariant'
<1> DEFINE k == job[p]
           i == Head(k.puts)
           j == [k EXCEPT !.drop = TRUE]
<1>1. /\ k.puts # <<>> /\ panic = "no" /\ Goto(p, j)
      /\ type' = [type EXCEPT ![i] = "free"]
      /\ names' = [names EXCEPT ![i] = [n \in Names |-> 0]]
      /\ parent' = [parent EXCEPT ![i] = 0]
      /\ valid' = [valid EXCEPT ![i] = FALSE]
      /\ lost' = [y \in Inums |-> lost[y] + Count({e \in Entries : e[1] = i /\ Target(e) = y})]
  BY Zenon DEF PutLock
<1>2. UNCHANGED <<nlink, ref, owner, cwd, open, panic>>
  BY DEF PutLock
<1>3. k \in Jobs /\ Shape(k) /\ Knows(p) /\ FilesShaped /\ LocksExact /\ Tree
  BY HereIs DEF FilesInvariant
<1>4. Alone(p, i) /\ i \in Inums /\ i # 0
  BY <1>1, SoleHolder, FilesBasics DEF Unused
<1>5. /\ i # Root /\ lost[i] = 0 /\ \A d \in Inums, n \in Names : names[d][n] # i
      /\ \A n \in Names : names[i][n] # 0 => type[names[i][n]] # "dir"
  BY <1>4, Gone DEF Unused
<1>6. j \in Jobs
  BY <1>3 DEF Jobs
<1>7. /\ j.pc = k.pc /\ j.call = k.call /\ j.at = k.at /\ j.ip = k.ip /\ j.todo = k.todo
      /\ j.src = k.src /\ j.puts = k.puts
  BY <1>3 DEF Jobs
<1> HIDE DEF j, i, k
<1>8. Shape(j)
  BY <1>1, <1>3, <1>7 DEF Shape
<1>9. Owns(j) = Owns(k) /\ Pends(j) = Pends(k) /\ Informed(j)
  BY <1>3, <1>7 DEF Owns, Pends, Informed, Knows, Linking, k
<1>10. Gains(p, j, 0)
  <2> SUFFICES ASSUME NEW x \in Inums PROVE Holds(j, x) - Holds(k, x) = Is(0, x)
    BY DEF Gains, k
  <2>1. Change(k, j, x)
    BY <1>3, <1>6, <1>8, HoldsChange
  <2>2. QED
    BY <1>7, <2>1 DEF Change
<1>11. /\ names \in [Inums -> [Names -> Inums \cup {0}]] /\ nlink \in [Inums -> Nat]
       /\ type \in [Inums -> {"free", "dir", "file"}] /\ lost \in [Inums -> Nat]
       /\ parent \in [Inums -> Inums \cup {0}] /\ valid \in [Inums -> BOOLEAN]
  BY <1>3 DEF FilesShaped, FilesTyped
<1>12. Frame(p, j)
  <2>1. LockMoves(p, j) /\ ref' = [x \in Inums |-> ref[x] + Is(0, x)]
    BY <1>2, <1>3, <1>9, LockStays, SameRefs DEF k
  <2>2. valid' \in [Inums -> BOOLEAN]
    BY <1>1, <1>11
  <2>3. QED
    BY <1>1, <1>2, <1>3, <1>6, <1>8, <1>10, <2>1, <2>2, MoveFrame
<1>13. /\ names' \in [Inums -> [Names -> Inums \cup {0}]] /\ \A n \in Names : names'[i][n] = 0
       /\ \A x \in Inums, m \in Names : x # i => names'[x][m] = names[x][m]
  BY <1>1, <1>4, <1>11
<1>14. /\ type' \in [Inums -> {"free", "dir", "file"}] /\ type'[i] = "free"
       /\ \A x \in Inums : x # i => type'[x] = type[x]
  BY <1>1, <1>4, <1>11
<1>15. /\ parent' \in [Inums -> Inums \cup {0}]
       /\ \A x \in Inums : x # i => parent'[x] = parent[x]
  BY <1>1, <1>4, <1>11
<1>16. ASSUME NEW x \in Inums
       PROVE  /\ Count(Named(x)) \in Nat /\ Count(Named(x))' \in Nat
              /\ lost[x] \in Nat /\ lost'[x] \in Nat
              /\ Count(Named(x))' + lost'[x] = Count(Named(x)) + lost[x]
  BY <1>1, <1>3, <1>4, LostFits
<1>17. \A q \in Callers : Knows(q)'
  <2>1. Knows(p)'
    <3>1. job'[p] = j /\ cwd' = cwd /\ open' = open
      BY <1>1, <1>2, <1>3, <1>6, OneJob
    <3>2. cwd[p] \in Inums /\ open[p] \in Inums \cup {0}
          /\ k.at \in Inums \cup {0} /\ k.ip \in Inums \cup {0}
      BY HereIs DEF k
    <3>3. i \notin {k.at, k.ip, cwd[p], open[p]}
      BY <1>4 DEF Alone, k
    <3>4. /\ type'[cwd[p]] = type[cwd[p]] /\ (open[p] # 0 => type'[open[p]] = type[open[p]])
          /\ k.at # 0 => type'[k.at] = type[k.at]
          /\ k.ip # 0 => type'[k.ip] = type[k.ip]
      BY <1>14, <3>2, <3>3
    <3>5. k.pc = "victim" => names'[k.at][Head(k.todo)] = names[k.at][Head(k.todo)]
      BY <1>3, <1>13, <3>2, <3>3 DEF Shape
    <3>6. Informed(k) /\ type[cwd[p]] = "dir" /\ (open[p] # 0 => type[open[p]] # "free")
      BY <1>3 DEF Knows, k
    <3>7. QED
      BY <1>3, <1>7, <3>1, <3>4, <3>5, <3>6 DEF Knows, Informed, Linking, Shape
  <2>2. ASSUME NEW q \in Callers \ {p} PROVE Knows(q)'
    <3>1. job'[q] = job[q] /\ cwd'[q] = cwd[q] /\ open'[q] = open[q]
      BY <1>1, <1>2, <1>3, <1>6, OneJob
    <3>2. Held(q, i) = 0
      BY <1>4 DEF Alone
    <3>3. \A x \in Inums : Held(q, x) > 0 => type'[x] = type[x]
      BY <1>14, <3>2
    <3>4. job[q].pc = "victim" =>
            names'[job[q].at][Head(job[q].todo)] = names[job[q].at][Head(job[q].todo)]
      <4>1. job[q].at \in Inums \cup {0} /\ Shape(job[q])
        BY HereIs
      <4>2. ASSUME job[q].pc = "victim"
            PROVE  job[q].at \in Inums /\ job[q].at # i /\ Head(job[q].todo) \in Names
        <5>1. job[q].at \in Inums /\ Head(job[q].todo) \in Names
          BY <4>1, <4>2 DEF Shape
        <5>2. Held(q, job[q].at) > Occurs(job[q].puts, job[q].at)
              /\ Occurs(job[q].puts, job[q].at) \in Nat /\ Held(q, job[q].at) \in Nat
          BY <1>3, <5>1, HeldType, HereIs, PutsRest
        <5>3. QED
          BY <3>2, <5>1, <5>2
      <4>3. QED
        BY <1>13, <4>2
    <3>5. QED
      BY <3>1, <3>3, <3>4, KnowsStays
  <2>3. QED
    BY <2>1, <2>2
<1>18. Tree'
  <2>1. ASSUME NEW x \in Inums, NEW m \in Names, names'[x][m] # 0
        PROVE  /\ type'[x] = "dir" /\ type'[names'[x][m]] # "free"
               /\ type'[names'[x][m]] = "dir" => parent'[names'[x][m]] = x
    <3>1. x # i /\ names'[x][m] = names[x][m] /\ names[x][m] # i /\ names[x][m] \in Inums
      BY <1>5, <1>11, <1>13, <2>1
    <3>2. /\ type[x] = "dir" /\ type[names[x][m]] # "free"
          /\ type[names[x][m]] = "dir" => parent[names[x][m]] = x
      BY <1>3, <2>1, <3>1 DEF Tree
    <3>3. QED
      BY <1>14, <1>15, <3>1, <3>2
  <2>2. Root \in Inums /\ type[Root] # "free" /\ \A x \in Inums : type[x] = "free" => lost[x] = 0
    BY <1>3, FilesBasics DEF Tree
  <2>3. type'[Root] # "free"
    BY <1>5, <1>14, <2>2
  <2>4. ASSUME NEW x \in Inums, type'[x] = "free" PROVE lost'[x] = 0
    <3>1. lost[x] = 0
      BY <1>5, <1>14, <2>2, <2>4
    <3>2. \A e \in Entries : Target(e) # x
      <4>1. ASSUME NEW e \in Entries PROVE Target(e) # x
        <5>1. PICK a \in Inums, m \in Names : e = <<a, m>>
          BY DEF Entries
        <5>2. Target(e) = names[a][m] /\ names[a][m] # 0
          BY <5>1 DEF Target, Entries
        <5>3. names[a][m] # i /\ type[names[a][m]] # "free" /\ names[a][m] \in Inums
          BY <1>3, <1>5, <1>11, <5>2 DEF Tree
        <5>4. QED
          BY <1>14, <2>4, <5>2, <5>3
      <4>2. QED
        BY <4>1
    <3>3. Count(Named(x)) = 0
      <4>1. Named(x) = {}
        BY <3>2 DEF Named
      <4>2. QED
        BY <4>1, FS_EmptySet DEF Count
    <3>4. QED
      BY <1>16, <3>1, <3>3
  <2>5. \A x \in Inums : type'[x] = "dir" => parent'[x] # 0
    <3>1. \A x \in Inums : type[x] = "dir" => parent[x] # 0
      BY <1>3 DEF Tree
    <3>2. QED
      BY <1>14, <1>15, <3>1
  <2>6. QED
    BY <2>1, <2>3, <2>4, <2>5 DEF Tree
<1>19. Acyclic'
  <2>1. PICK depth \in [Inums -> Nat] : Below(depth)
    BY DEF FilesInvariant, Acyclic
  <2>2. ASSUME NEW x \in Inums, NEW m \in Names, names'[x][m] # 0, type'[names'[x][m]] = "dir"
        PROVE  depth[x] < depth[names'[x][m]]
    <3>1. x # i /\ names'[x][m] = names[x][m] /\ names[x][m] # i /\ names[x][m] \in Inums
      BY <1>5, <1>11, <1>13, <2>2
    <3>2. QED
      BY <1>14, <2>1, <2>2, <3>1 DEF Below
  <2>3. \E f \in [Inums -> Nat] : \A x \in Inums, m \in Names :
          names'[x][m] # 0 /\ type'[names'[x][m]] = "dir" => f[x] < f[names'[x][m]]
    BY <2>2
  <2>4. QED
    BY <2>3 DEF Acyclic, Below
<1>20. \A x \in Inums : type'[x] # "free" => nlink'[x] = Tally(x)'
  <2>1. ASSUME NEW x \in Inums, type'[x] # "free" PROVE nlink'[x] = Tally(x)'
    <3>1. x # i /\ type[x] # "free" /\ nlink'[x] = nlink[x]
      BY <1>2, <1>14, <2>1
    <3>2. nlink[x] = Tally(x)
      BY <3>1 DEF FilesInvariant, LinksExact, Tally
    <3>3. Subdirs(x)' = Subdirs(x)
      <4>1. ASSUME NEW y PROVE y \in Subdirs(x)' <=> y \in Subdirs(x)
        <5>1. CASE y \notin Inums \X Names
          BY <5>1 DEF Subdirs, Entries
        <5>2. CASE y \in Inums \X Names
          <6>1. PICK a \in Inums, m \in Names : y = <<a, m>>
            BY <5>2
          <6>2. CASE a # x
            BY <6>1, <6>2 DEF Subdirs, Entries
          <6>3. CASE a = x
            <7>1. names'[a][m] = names[a][m] /\ names[a][m] # i /\ names[a][m] \in Inums \cup {0}
              BY <1>5, <1>11, <1>13, <3>1, <6>3
            <7>2. names[a][m] # 0 => type'[names[a][m]] = type[names[a][m]]
              BY <1>14, <7>1
            <7>3. QED
              BY <6>1, <6>3, <7>1, <7>2 DEF Subdirs, Entries, Target
          <6>4. QED
            BY <6>2, <6>3
        <5>3. QED
          BY <5>1, <5>2
      <4>2. QED
        BY <4>1 DEF Subdirs
    <3>4. Count(Subdirs(x))' = Count(Subdirs(x))
      BY <3>3 DEF Count
    <3>5. /\ Count(Pending(x)) \in Nat /\ Count(Pending(x))' \in Nat
          /\ Count(Pending(x))' = Count(Pending(x))
      <4>1. PendingMoves(p, j)
        BY <1>1, <1>3, <1>6, PendingFits
      <4>2. /\ Count(Pending(x)) \in Nat /\ Count(Pending(x))' \in Nat
            /\ Count(Pending(x))' = Count(Pending(x)) + Is(Pends(j), x) - Is(Pends(job[p]), x)
        BY <4>1 DEF PendingMoves
      <4>3. Pends(j) = Pends(job[p]) /\ Is(Pends(j), x) \in Nat
        BY <1>9 DEF Is, k
      <4>4. QED
        BY <4>2, <4>3
    <3>6. Count(Subdirs(x)) \in Nat
      BY <1>3, TallyType
    <3> DEFINE r == IF x = Root THEN 1 ELSE 0
    <3>7. /\ Tally(x) = Count(Named(x)) + Count(Subdirs(x)) + Count(Pending(x)) + lost[x] + r
          /\ Tally(x)' = Count(Named(x))' + Count(Subdirs(x))' + Count(Pending(x))' + lost'[x] + r
          /\ r \in Nat
      BY DEF Tally
    <3>8. /\ Count(Named(x)) \in Nat /\ Count(Named(x))' \in Nat
          /\ lost[x] \in Nat /\ lost'[x] \in Nat
          /\ Count(Named(x))' + lost'[x] = Count(Named(x)) + lost[x]
      BY <1>16
    <3> HIDE DEF r
    <3>9. Tally(x)' = Tally(x)
      BY <3>4, <3>5, <3>6, <3>7, <3>8
    <3>10. QED
      BY <3>1, <3>2, <3>9
  <2>2. QED
    BY <2>1
<1>21. NoLinkPanic' /\ lost' \in [Inums -> Nat] /\ nlink' \in [Inums -> Nat]
  <2>1. lost' = [x \in Inums |-> lost'[x]]
    BY <1>1
  <2>2. lost' \in [Inums -> Nat]
    BY <1>16, <2>1
  <2>3. NoLinkPanic'
    BY <1>1, <1>2 DEF NoLinkPanic
  <2>4. QED
    BY <1>2, <1>11, <2>2, <2>3
<1>22. QED
  BY <1>6, <1>8, <1>12, <1>13, <1>14, <1>15, <1>17, <1>18, <1>19, <1>20, <1>21, InodeStep

-----------------------------------------------------------------------------
(* The invariant holds, and what follows from it. *)

\* The root, "/d", "/d/d" and "/f", as they are at the start.
LEMMA StartingNames ==
  ASSUME FilesInit
  PROVE  /\ \A x \in Inums, n \in Names :
              names[x][n] = IF x = 1 /\ n = "d" THEN 2 ELSE IF x = 2 /\ n = "d" THEN 3
                            ELSE IF x = 1 /\ n = "f" THEN 4 ELSE 0
         /\ \A x \in Inums : type[x] = IF x <= 3 THEN "dir" ELSE IF x = 4 THEN "file" ELSE "free"
         /\ \A x \in Inums : nlink[x] = IF x <= 2 THEN 2 ELSE IF x \in {3, 4} THEN 1 ELSE 0
         /\ \A x \in Inums : parent[x] = IF x <= 2 THEN Root ELSE IF x = 3 THEN 2 ELSE 0
         /\ \A x \in Inums : lost[x] = 0
         /\ \A x \in Inums : x >= 1 /\ (x <= 3 <=> x \in {1, 2, 3})
<1>1. \A x \in Inums : x \in Nat /\ x # 0
  BY FilesBasics
<1>2. ASSUME NEW x \in Inums, NEW n \in Names
      PROVE  names[x][n] = IF x = 1 /\ n = "d" THEN 2 ELSE IF x = 2 /\ n = "d" THEN 3
                           ELSE IF x = 1 /\ n = "f" THEN 4 ELSE 0
  BY DEF FilesInit
<1>3. ASSUME NEW x \in Inums
      PROVE  type[x] = IF x <= 3 THEN "dir" ELSE IF x = 4 THEN "file" ELSE "free"
  BY <1>1 DEF FilesInit
<1>4. ASSUME NEW x \in Inums
      PROVE  nlink[x] = IF x <= 2 THEN 2 ELSE IF x \in {3, 4} THEN 1 ELSE 0
  BY <1>1 DEF FilesInit
<1>5. ASSUME NEW x \in Inums
      PROVE  parent[x] = IF x <= 2 THEN Root ELSE IF x = 3 THEN 2 ELSE 0
  BY <1>1 DEF FilesInit
<1>6. \A x \in Inums : lost[x] = 0
  BY DEF FilesInit
<1>7. \A x \in Inums : x >= 1 /\ (x <= 3 <=> x \in {1, 2, 3})
  BY <1>1
<1>8. QED
  BY <1>2, <1>3, <1>4, <1>5, <1>6, <1>7

\* The processes are idle in the root.
LEMMA StartingShape ==
  ASSUME FilesInit
  PROVE  /\ FilesShaped /\ NoLinkPanic
         /\ \A p \in Callers : job[p] = Ended(MaxCalls, <<>>) /\ cwd[p] = Root /\ open[p] = 0
<1>1. \A p \in Callers : job[p] = Ended(MaxCalls, <<>>) /\ cwd[p] = Root /\ open[p] = 0
  BY EndedIs DEF FilesInit
<1>2. MaxCalls \in Nat /\ <<>> \in Seq(Inums) /\ Len(<<>>) <= 2
  BY FilesAssumption DEF FilesAssumption
<1>3. Ended(MaxCalls, <<>>) \in Jobs /\ Shape(Ended(MaxCalls, <<>>))
  BY <1>2, EndedFits
<1>4. job \in [Callers -> Jobs] /\ \A p \in Callers : Shape(job[p])
  <2>1. job = [p \in Callers |-> Ended(MaxCalls, <<>>)]
    BY EndedIs DEF FilesInit
  <2>2. QED
    BY <1>3, <2>1
<1>5. FilesTyped
  <2>1. Cardinality(Callers) \in Nat /\ Root \in Inums /\ \A x \in Inums : x \in Nat
    BY FilesBasics, FS_CardinalityType
  <2>2. type \in [Inums -> {"free", "dir", "file"}]
    BY DEF FilesInit
  <2>3. nlink \in [Inums -> Nat]
    BY DEF FilesInit
  <2>4. ref \in [Inums -> Nat] /\ lost \in [Inums -> Nat]
    BY <2>1 DEF FilesInit
  <2>5. names \in [Inums -> [Names -> Inums \cup {0}]]
    <3>1. \A x \in Inums, n \in Names : names[x][n] \in Inums \cup {0}
      BY StartingNames, FilesBasics
    <3>2. names = [x \in Inums |-> [n \in Names |-> names[x][n]]]
      BY DEF FilesInit
    <3>3. QED
      BY <3>1, <3>2
  <2>6. parent \in [Inums -> Inums \cup {0}]
    <3>1. \A x \in Inums : parent[x] \in Inums \cup {0}
      BY StartingNames, FilesBasics
    <3>2. parent = [x \in Inums |-> parent[x]]
      BY DEF FilesInit
    <3>3. QED
      BY <3>1, <3>2
  <2>7. valid \in [Inums -> BOOLEAN] /\ owner \in [Inums -> Callers \cup {NoOne}]
    BY DEF FilesInit
  <2>8. cwd \in [Callers -> Inums] /\ open \in [Callers -> Inums \cup {0}]
    BY <2>1 DEF FilesInit
  <2>9. QED
    BY <2>2, <2>3, <2>4, <2>5, <2>6, <2>7, <2>8 DEF FilesTyped
<1>6. NoLinkPanic
  BY DEF FilesInit, NoLinkPanic
<1>7. QED
  BY <1>1, <1>4, <1>5, <1>6 DEF FilesShaped

\* The links of the first four inodes.
LEMMA StartingLinks ==
  ASSUME FilesInit
  PROVE  LinksExact
<1>1. /\ \A x \in Inums, n \in Names :
           names[x][n] = IF x = 1 /\ n = "d" THEN 2 ELSE IF x = 2 /\ n = "d" THEN 3
                         ELSE IF x = 1 /\ n = "f" THEN 4 ELSE 0
      /\ \A x \in Inums : type[x] = IF x <= 3 THEN "dir" ELSE IF x = 4 THEN "file" ELSE "free"
      /\ \A x \in Inums : nlink[x] = IF x <= 2 THEN 2 ELSE IF x \in {3, 4} THEN 1 ELSE 0
      /\ \A x \in Inums : lost[x] = 0
      /\ \A x \in Inums : x >= 1 /\ (x <= 3 <=> x \in {1, 2, 3})
  BY StartingNames
<1>2. /\ 1 \in Inums /\ 2 \in Inums /\ 3 \in Inums /\ 4 \in Inums
      /\ "d" \in Names /\ "f" \in Names /\ \A x \in Inums : x \in Nat /\ x # 0
  BY FilesBasics DEF Root
<1>3. Entries = {<<1, "d">>, <<2, "d">>, <<1, "f">>}
  <2>1. ASSUME NEW y PROVE y \in Entries <=> y \in {<<1, "d">>, <<2, "d">>, <<1, "f">>}
    <3>1. CASE y \notin Inums \X Names
      BY <1>2, <3>1 DEF Entries
    <3>2. CASE y \in Inums \X Names
      <4>1. PICK a \in Inums, n \in Names : y = <<a, n>>
        BY <3>2
      <4>2. y \in Entries <=> names[a][n] # 0
        BY <4>1 DEF Entries
      <4>3. QED
        BY <1>1, <4>1, <4>2
    <3>3. QED
      BY <3>1, <3>2
  <2>2. QED
    BY <2>1
<1>4. Target(<<1, "d">>) = 2 /\ Target(<<2, "d">>) = 3 /\ Target(<<1, "f">>) = 4
  BY <1>1, <1>2 DEF Target
<1>5. type[2] = "dir" /\ type[3] = "dir" /\ type[4] = "file"
  BY <1>1, <1>2
<1>6. /\ Named(1) = {} /\ Named(2) = {<<1, "d">>} /\ Named(3) = {<<2, "d">>}
      /\ Named(4) = {<<1, "f">>}
  BY <1>3, <1>4 DEF Named
<1>7. Subdirs(1) = {<<1, "d">>} /\ Subdirs(2) = {<<2, "d">>} /\ Subdirs(3) = {} /\ Subdirs(4) = {}
  BY <1>3, <1>4, <1>5 DEF Subdirs
<1>8. ASSUME NEW x \in Inums PROVE Pending(x) = {}
  <2>1. \A p \in Callers : Pends(job[p]) = 0
    <3>1. MaxCalls \in Nat /\ <<>> \in Seq(Inums) /\ Len(<<>>) <= 2
      BY FilesAssumption DEF FilesAssumption
    <3>2. QED
      BY <3>1, StartingShape, EndedFits
  <2>2. QED
    BY <1>2, <2>1 DEF Pending
<1>9. Count({}) = 0 /\ \A y : Count({y}) = 1
  BY FS_EmptySet, FS_Singleton DEF Count
<1>10. /\ Count(Named(1)) = 0 /\ Count(Subdirs(1)) = 1
       /\ Count(Named(2)) = 1 /\ Count(Subdirs(2)) = 1
       /\ Count(Named(3)) = 1 /\ Count(Subdirs(3)) = 0
       /\ Count(Named(4)) = 1 /\ Count(Subdirs(4)) = 0
  BY <1>6, <1>7, <1>9, Zenon
<1>11. nlink[1] = 2 /\ nlink[2] = 2 /\ nlink[3] = 1 /\ nlink[4] = 1
  BY <1>1, <1>2
<1>12. ASSUME NEW x \in Inums, type[x] # "free"
       PROVE  nlink[x] = Count(Named(x)) + Count(Subdirs(x)) + Count(Pending(x))
                         + lost[x] + (IF x = Root THEN 1 ELSE 0)
  <2>1. x \in {1, 2, 3, 4}
    BY <1>1, <1>12
  <2>2. Count(Pending(x)) = 0 /\ lost[x] = 0
    BY <1>1, <1>8, <1>9
  <2>3. CASE x = 1
    BY <1>10, <1>11, <2>2, <2>3 DEF Root
  <2>4. CASE x = 2
    BY <1>10, <1>11, <2>2, <2>4 DEF Root
  <2>5. CASE x = 3
    BY <1>10, <1>11, <2>2, <2>5 DEF Root
  <2>6. CASE x = 4
    BY <1>10, <1>11, <2>2, <2>6 DEF Root
  <2>7. QED
    BY <2>1, <2>3, <2>4, <2>5, <2>6
<1>13. QED
  BY <1>12 DEF LinksExact

\* The invariant holds at the start.
LEMMA FilesStart ==
  ASSUME FilesInit
  PROVE  FilesInvariant
<1>1. /\ FilesShaped /\ NoLinkPanic
      /\ \A p \in Callers : job[p] = Ended(MaxCalls, <<>>) /\ cwd[p] = Root /\ open[p] = 0
  BY StartingShape
<1>2. MaxCalls \in Nat /\ <<>> \in Seq(Inums) /\ Len(<<>>) <= 2
  BY FilesAssumption DEF FilesAssumption
<1>3. \A p \in Callers : /\ Owns(job[p]) = 0 /\ ~Linking(job[p]) /\ job[p].pc = "idle"
                         /\ \A x \in Inums : Holds(job[p], x) = 0
  <2> DEFINE j == Ended(MaxCalls, <<>>)
  <2>1. /\ Owns(j) = 0 /\ ~Linking(j) /\ j.pc = "idle"
        /\ \A x \in Inums : Holds(j, x) = Occurs(<<>>, x)
    BY <1>2, EndedFits
  <2>2. \A x \in Inums : Holds(j, x) = 0
    BY <2>1, OccursNone
  <2>3. \A p \in Callers : job[p] = j
    BY <1>1
  <2> HIDE DEF j
  <2>4. QED
    BY <2>1, <2>2, <2>3
<1>4. /\ \A x \in Inums, n \in Names :
           names[x][n] = IF x = 1 /\ n = "d" THEN 2 ELSE IF x = 2 /\ n = "d" THEN 3
                         ELSE IF x = 1 /\ n = "f" THEN 4 ELSE 0
      /\ \A x \in Inums : type[x] = IF x <= 3 THEN "dir" ELSE IF x = 4 THEN "file" ELSE "free"
      /\ \A x \in Inums : parent[x] = IF x <= 2 THEN Root ELSE IF x = 3 THEN 2 ELSE 0
      /\ \A x \in Inums : lost[x] = 0
      /\ \A x \in Inums : x >= 1 /\ (x <= 3 <=> x \in {1, 2, 3})
  BY StartingNames
<1>5. /\ Root = 1 /\ 1 \in Inums /\ 2 \in Inums /\ 3 \in Inums /\ 4 \in Inums
      /\ \A x \in Inums : x \in Nat /\ x # 0
  BY FilesBasics DEF Root
<1>6. LocksExact
  <2>1. \A x \in Inums : owner[x] = NoOne
    BY DEF FilesInit
  <2>2. QED
    BY <1>3, <1>5, <2>1, FilesBasics DEF LocksExact
<1>7. \A p \in Callers : Knows(p)
  BY <1>1, <1>3, <1>4, <1>5 DEF Knows, Informed
<1>8. RefsExact
  <2>1. ASSUME NEW x \in Inums
        PROVE  ref[x] = SumFunctionOnSet([p \in Callers |-> Held(p, x)], Callers)
    <3> DEFINE f == [p \in Callers |-> Held(p, x)]
    <3>1. \A p \in Callers : f[p] = IF x = Root THEN 1 ELSE 0
      <4>1. ASSUME NEW p \in Callers PROVE f[p] = IF x = Root THEN 1 ELSE 0
        <5>1. f[p] = Holds(job[p], x) + Is(Root, x) + Is(0, x)
          BY <1>1 DEF Held
        <5>2. Holds(job[p], x) = 0 /\ Is(0, x) = 0
          BY <1>3, IsType
        <5>3. Is(Root, x) = IF x = Root THEN 1 ELSE 0
          BY DEF Is
        <5> HIDE DEF f
        <5>4. QED
          BY <5>1, <5>2, <5>3
      <4>2. QED
        BY <4>1
    <3>2. ref[x] = IF x = Root THEN Cardinality(Callers) ELSE 0
      BY DEF FilesInit
    <3> HIDE DEF f
    <3>3. CASE x = Root
      <4>1. SumFunctionOnSet(f, Callers) = Cardinality(Callers)
        BY <3>1, <3>3, FilesBasics, SumOnes
      <4>2. QED
        BY <3>2, <3>3, <4>1 DEF f
    <3>4. CASE x # Root
      <4>1. \A p \in Callers : f[p] \in Int /\ f[p] = 0
        BY <3>1, <3>4
      <4>2. SumFunctionOnSet(f, Callers) = 0
        BY <4>1, FilesBasics, SumType
      <4>3. QED
        BY <3>2, <3>4, <4>2 DEF f
    <3>5. QED
      BY <3>3, <3>4
  <2>2. QED
    BY <2>1 DEF RefsExact
<1>9. Tree
  BY <1>4, <1>5 DEF Tree
<1>10. Acyclic
  <2> DEFINE depth == [x \in Inums |-> x]
  <2>1. depth \in [Inums -> Nat]
    BY <1>5
  <2>2. ASSUME NEW d \in Inums, NEW n \in Names, names[d][n] # 0
        PROVE  depth[d] < depth[names[d][n]]
    BY <1>4, <1>5, <2>2
  <2> HIDE DEF depth
  <2>3. QED
    BY <2>1, <2>2 DEF Acyclic, Below
<1>11. QED
  BY <1>1, <1>6, <1>7, <1>8, <1>9, <1>10, StartingLinks DEF FilesInvariant

\* Nothing changes.
LEMMA FilesStutter ==
  ASSUME FilesInvariant, UNCHANGED filesvars
  PROVE  FilesInvariant'
<1>1. /\ UNCHANGED <<type, nlink, names, parent, ref, valid, owner, cwd, open, job, lost, panic>>
  BY DEF filesvars, inodes
<1>2. /\ FilesShaped /\ LocksExact /\ (\A p \in Callers : Knows(p)) /\ RefsExact /\ Tree
      /\ LinksExact /\ Acyclic /\ NoLinkPanic
  BY DEF FilesInvariant
<1>3. FilesShaped' /\ LocksExact' /\ NoLinkPanic'
  BY <1>1, <1>2 DEF FilesShaped, FilesTyped, LocksExact, NoLinkPanic
<1>4. \A p \in Callers : Knows(p)'
  BY <1>1, <1>2 DEF Knows, Informed
<1>5. RefsExact'
  BY <1>1, <1>2 DEF RefsExact, Held
<1>6. Tree' /\ Acyclic'
  BY <1>1, <1>2 DEF Tree, Acyclic, Below
<1>7. LinksExact'
  BY <1>1, <1>2 DEF LinksExact, Named, Subdirs, Pending, Entries, Target
<1>8. QED
  BY <1>3, <1>4, <1>5, <1>6, <1>7 DEF FilesInvariant

\* Every step of a call keeps the invariant.
LEMMA CallStep ==
  ASSUME FilesInvariant, NEW p \in Callers, Step(p)
  PROVE  FilesInvariant'
<1>1. CASE PutLock(p)
  BY <1>1, PutKeepStep, PutFreeStep
<1>2. CASE PutDrop(p)
  BY <1>2, PutDropStep
<1>3. CASE Walk(p)
  BY <1>3, WalkStep
<1>4. CASE NoElement(p)
  BY <1>4, NoElementStep
<1>5. CASE PanicNoType(p)
  <2>1. UNCHANGED <<inodes, ref, valid, owner, cwd, open, job, lost>> /\ NoLinkPanic'
    BY <1>5 DEF PanicNoType, NoLinkPanic
  <2>2. QED
    BY <2>1, StopStep
<1>6. CASE Open(p)
  BY <1>6, OpenStep
<1>7. CASE chdir(p)
  BY <1>7, ChdirStep
<1>8. CASE CreateOld(p)
  BY <1>8, CreateOldStep
<1>9. CASE CreateTakesOld(p)
  BY <1>9, CreateTakesOldStep
<1>10. CASE CreateNew(p)
  BY <1>10, CreateNewStep
<1>11. CASE Created(p)
  BY <1>11, CreatedStep
<1>12. CASE PanicNoInodes(p)
  <2>1. UNCHANGED <<inodes, ref, valid, owner, cwd, open, job, lost>> /\ NoLinkPanic'
    BY <1>12 DEF PanicNoInodes, NoLinkPanic
  <2>2. QED
    BY <2>1, StopStep
<1>13. CASE CopySource(p)
  BY <1>13, CopySourceStep
<1>14. CASE CopyData(p)
  BY <1>14, CopyDataStep
<1>15. CASE LinkOld(p)
  BY <1>15, LinkDirectoryStep, LinkFileStep
<1>16. CASE LinkNew(p)
  BY <1>16, LinkClashStep, LinkNameStep
<1>17. CASE Clash(p)
  BY <1>17, ClashStep
<1>18. CASE LinkBad(p)
  BY <1>18, LinkBadStep
<1>19. CASE Unlink(p)
  BY <1>19, UnlinkStep
<1>20. CASE Victim(p)
  BY <1>20, VictimStaysStep, VictimGoesStep
<1>21. CASE Unnamed(p)
  BY <1>21, UnnamedStep
<1>22. QED
  BY <1>1, <1>2, <1>3, <1>4, <1>5, <1>6, <1>7, <1>8, <1>9, <1>10, <1>11, <1>12, <1>13, <1>14,
     <1>15, <1>16, <1>17, <1>18, <1>19, <1>20, <1>21, Zenon DEF Step

\* The inductive invariant of the inodes, their cache, their locks and the
\* directory tree, for any number of processes, inodes, names and calls.
THEOREM FilesInvariantHolds ==
  FilesSpec => []FilesInvariant
<1>1. FilesInit => FilesInvariant
  BY FilesStart
<1>2. FilesInvariant /\ [FilesNext]_filesvars => FilesInvariant'
  <2>1. SUFFICES ASSUME FilesInvariant, [FilesNext]_filesvars PROVE FilesInvariant'
    OBVIOUS
  <2>2. ASSUME NEW p \in Callers, Step(p) PROVE FilesInvariant'
    BY <2>1, <2>2, CallStep
  <2>3. ASSUME NEW p \in Callers, Close(p) PROVE FilesInvariant'
    BY <2>1, <2>3, CloseStep
  <2>4. ASSUME NEW p \in Callers, NEW c \in Calls, Begin(p, c) PROVE FilesInvariant'
    BY <2>1, <2>4, StartCallStep
  <2>5. CASE UNCHANGED filesvars
    BY <2>1, <2>5, FilesStutter
  <2>6. QED
    BY <2>1, <2>2, <2>3, <2>4, <2>5, Zenon DEF FilesNext
<1>3. QED
  BY <1>1, <1>2, PTL DEF FilesSpec

\* LinksExact, for any number of processes, inodes, names and calls: the link
\* count that fs.c and sysfile.c keep on the disk is that of the names.
THEOREM FilesLinks ==
  FilesSpec => []LinksExact
<1>1. FilesInvariant => LinksExact
  BY DEF FilesInvariant
<1>2. QED
  BY <1>1, FilesInvariantHolds, PTL

\* NothingDangles, for any number of processes, inodes, names and calls: iput()
\* frees no inode that a process or an entry still refers to.
THEOREM FilesNothingDangles ==
  FilesSpec => []NothingDangles
<1>1. FilesInvariant => NothingDangles
  <2>1. SUFFICES ASSUME FilesInvariant PROVE NothingDangles
    OBVIOUS
  <2>2. FilesTyped /\ NoLinkPanic /\ RefsExact /\ Tree /\ \A p \in Callers : Knows(p)
    <3>1. FilesShaped
      BY <2>1, Zenon DEF FilesInvariant
    <3>2. FilesTyped
      BY <3>1, Zenon DEF FilesShaped
    <3>3. QED
      BY <2>1, <3>2, Zenon DEF FilesInvariant
  <2>3. ASSUME NEW e \in Entries
        PROVE  /\ type[e[1]] = "dir" /\ type[Target(e)] # "free"
               /\ type[Target(e)] = "dir" => parent[Target(e)] = e[1]
    <3>1. PICK d \in Inums, n \in Names : e = <<d, n>>
      BY DEF Entries
    <3>2. e[1] = d /\ Target(e) = names[d][n] /\ names[d][n] # 0
      BY <3>1 DEF Target, Entries
    <3>3. QED
      BY <2>2, <3>2 DEF Tree
  <2>4. \A p \in Callers : type[cwd[p]] = "dir" /\ (open[p] # 0 => type[open[p]] # "free")
    BY <2>2 DEF Knows
  <2>5. \A i \in Inums : ref[i] = SumFunctionOnSet([p \in Callers |-> Held(p, i)], Callers)
    BY <2>2 DEF RefsExact
  <2>6. panic # "unlink: nlink < 1"
    BY <2>2 DEF NoLinkPanic
  <2>7. QED
    BY <2>2, <2>3, <2>4, <2>5, <2>6, Zenon DEF NothingDangles
<1>2. QED
  BY <1>1, FilesInvariantHolds, PTL

\* A process that another one waits for is in unlink(), and it waits for an entry of
\* the directory whose lock it holds, when neither iput() nor make_duplicate() is in
\* the circle.
LEMMA WaitsForVictim ==
  ASSUME FilesInvariant, NEW S \in SUBSET Callers, Deadlocked(S),
         \A p \in S : job[p].puts = <<>> /\ job[p].call.op # "copy",
         NEW p \in S, NEW q \in S, owner[Wants(p)] = q
  PROVE  /\ job[q].at = Wants(p) /\ Wants(q) = job[q].ip
         /\ job[q].at \in Inums /\ type[job[q].at] = "dir" /\ job[q].ip \in Inums
         /\ \E n \in Names : names[job[q].at][n] = job[q].ip
<1> DEFINE j == job[q]
           i == Wants(p)
<1>1. /\ Shape(j) /\ Knows(q) /\ LocksExact
      /\ j.at \in Inums \cup {0} /\ j.ip \in Inums \cup {0}
      /\ \A x \in Inums : x # 0
  BY HereIs, FilesBasics
<1>2. j.puts = <<>> /\ j.call.op # "copy" /\ Wants(q) # 0 /\ i # 0
  BY DEF Deadlocked
<1>3. Wants(q) = CASE j.pc = "parent" \/ (j.pc = "walk" /\ j.todo # <<>>)
                        \/ (j.pc = "found" /\ j.call.op # "copy") -> j.at
                   [] j.pc \in {"old", "bad", "victim"} -> j.ip
                   [] j.pc = "created" /\ j.call.op = "copy" -> j.src
                   [] OTHER -> 0
  BY <1>2 DEF Wants
<1>4. i \in Inums
  <2> DEFINE k == job[p]
  <2>1. /\ k.at \in Inums \cup {0} /\ k.ip \in Inums \cup {0} /\ k.src \in Inums \cup {0}
        /\ k.puts = <<>>
    BY HereIs
  <2>2. i = CASE k.pc = "parent" \/ (k.pc = "walk" /\ k.todo # <<>>)
                   \/ (k.pc = "found" /\ k.call.op # "copy") -> k.at
              [] k.pc \in {"old", "bad", "victim"} -> k.ip
              [] k.pc = "created" /\ k.call.op = "copy" -> k.src
              [] OTHER -> 0
    BY <2>1 DEF Wants
  <2> HIDE DEF i, k
  <2>3. QED
    BY <1>2, <2>1, <2>2
<1>5. Owns(j) = i
  BY <1>1, <1>4 DEF LocksExact
<1> HIDE DEF i, j
<1>6. j.pc = "victim"
  BY <1>1, <1>2, <1>3, <1>4, <1>5 DEF Owns
<1>7. j.at = i /\ Wants(q) = j.ip
  BY <1>3, <1>5, <1>6 DEF Owns
<1>8. /\ j.at \in Inums /\ j.ip \in Inums /\ Head(j.todo) \in Names
      /\ type[j.at] = "dir" /\ names[j.at][Head(j.todo)] = j.ip
  BY <1>1, <1>2, <1>4, <1>6, <1>7 DEF Shape, Knows, Informed, j
<1>9. QED
  BY <1>7, <1>8 DEF i, j

\* DeadlocksExplained, for any number of processes, inodes, names and calls:
\* unlink() takes the lock of an entry after that of its directory, so a circle of
\* ilock() calls would go down the tree for ever.
THEOREM FilesDeadlocks ==
  FilesSpec => []DeadlocksExplained
<1>1. FilesInvariant => DeadlocksExplained
  <2>1. SUFFICES ASSUME FilesInvariant, NEW S \in SUBSET Callers, Deadlocked(S),
                        \A p \in S : job[p].puts = <<>> /\ job[p].call.op # "copy"
                 PROVE  FALSE
    BY DEF DeadlocksExplained
  <2>2. PICK depth \in [Inums -> Nat] : Below(depth)
    BY <2>1 DEF FilesInvariant, Acyclic
  <2> DEFINE O == {q \in S : \E p \in S : owner[Wants(p)] = q}
             K == {depth[job[q].at] : q \in O}
             n == SumFunctionOnSet(depth, Inums)
  <2>3. S # {} /\ \A p \in S : Wants(p) # 0 /\ owner[Wants(p)] \in S
    BY <2>1 DEF Deadlocked
  <2>4. O # {} /\ \A p \in S : owner[Wants(p)] \in O
    BY <2>3
  <2>5. ASSUME NEW q \in O
        PROVE  /\ job[q].at \in Inums /\ Wants(q) = job[q].ip /\ type[job[q].at] = "dir"
               /\ \E m \in Names : names[job[q].at][m] = job[q].ip
               /\ job[q].ip \in Inums
    <3>1. PICK p \in S : owner[Wants(p)] = q
      BY <2>5
    <3>2. q \in S
      BY <2>5
    <3>3. QED
      BY <2>1, <3>1, <3>2, WaitsForVictim
  <2>6. ASSUME NEW q \in O
        PROVE  \E r \in O : depth[job[q].at] < depth[job[r].at]
    <3> DEFINE r == owner[Wants(q)]
    <3>1. q \in S /\ r \in O /\ r \in S
      BY <2>4, <2>6
    <3>2. job[r].at = Wants(q) /\ job[r].at \in Inums /\ type[job[r].at] = "dir"
      BY <2>1, <3>1, WaitsForVictim
    <3>3. PICK m \in Names : names[job[q].at][m] = job[q].ip
      BY <2>5
    <3>4. job[q].at \in Inums /\ Wants(q) = job[q].ip /\ job[q].ip # 0
      BY <2>5, FilesBasics
    <3> HIDE DEF O, r
    <3>5. depth[job[q].at] < depth[names[job[q].at][m]]
      BY <2>2, <3>2, <3>3, <3>4 DEF Below
    <3>6. QED
      BY <3>1, <3>2, <3>3, <3>4, <3>5
  <2>7. \A x \in Inums : depth[x] \in Nat /\ depth[x] <= n
    BY FilesBasics, SumLower
  <2>8. n \in Int
    <3>1. \A x \in Inums : depth[x] \in Int
      BY <2>2
    <3>2. QED
      BY <3>1, FilesBasics, SumType
  <2> HIDE DEF O, n
  <2>9. K \in SUBSET (0..n) /\ K # {}
    BY <2>4, <2>5, <2>7, <2>8
  <2>10. Max(K) \in K /\ \A k \in K : k <= Max(K)
    <3> HIDE DEF K
    <3>1. 0 \in Int
      OBVIOUS
    <3>2. QED
      BY <2>8, <2>9, <3>1, Greatest, Zenon
  <2>11. PICK q \in O : depth[job[q].at] = Max(K)
    BY <2>10
  <2>12. PICK r \in O : depth[job[q].at] < depth[job[r].at]
    BY <2>6
  <2>13. depth[job[r].at] \in K /\ depth[job[r].at] \in Nat
    BY <2>5, <2>7
  <2> HIDE DEF K
  <2>14. depth[job[r].at] <= depth[job[q].at] /\ depth[job[q].at] \in Nat
    BY <2>5, <2>7, <2>10, <2>11, <2>13
  <2>15. QED
    BY <2>12, <2>13, <2>14
<1>2. QED
  BY <1>1, FilesInvariantHolds, PTL

=============================================================================
