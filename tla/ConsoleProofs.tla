---------------------------- MODULE ConsoleProofs ----------------------------
(***************************************************************************)
(* Proofs about Console for every size of the ring and of the history, all *)
(* letters and commands, and any number of keys: the reader misses no      *)
(* line, and the indices of the ring are in order however the keys are     *)
(* mixed, as long as the user is careful.                                  *)
(***************************************************************************)
EXTENDS Console, ProofLemmas

Cells == Letters \cup {"\n", "0"}
Change == [type : {"insert", "delete"}, c : Cells, pos : Int]

ConsTyped ==
  /\ buf \in [0..INPUT_BUF - 1 -> Cells]
  /\ r \in Nat /\ w \in Nat /\ e \in Int /\ cur \in Int /\ mark \in Int
  /\ sel \in Int \X Int /\ clip \in Seq(Letters)
  /\ ops \in Seq(Change) /\ Len(ops) <= HISTORY_BUF /\ lost \in 0..Len(ops)
  /\ rd \in [want : Nat, asleep : BOOLEAN, killed : BOOLEAN]
  /\ session \in {"careful", "careless", "overrun"} /\ keys \in Nat

SentInOrder == r <= w /\ ReaderNotMissed

LineInOrder ==
  /\ w <= cur /\ cur <= e /\ e <= r + INPUT_BUF /\ (w < e => e < r + INPUT_BUF)
  /\ sel # NoSel => w <= sel[1] /\ sel[1] < sel[2] /\ sel[2] <= e
  /\ mark = -1 \/ w <= mark
  /\ \A i \in w..e - 1 : Ch(i) \in Letters

\* The change op made a line that ended at j of one that ended at i; the line
\* starts at start and may reach up to room.
Leads(op, i, j, start, room) ==
  /\ start <= op.pos
  /\ op.type = "insert" => i = j - 1 /\ op.pos < j
  /\ op.type = "delete" => i = j + 1 /\ op.pos <= j /\ i < room /\ op.c \in Letters

\* ends[i]: where the line ended after the i-th change of h.
UndoesTo(ends, h, from, end, start, room) ==
  /\ ends[Len(h)] = end
  /\ \A i \in from + 1..Len(h) : Leads(h[i], ends[i - 1], ends[i], start, room)

Undoable ==
  \E ends \in [lost..Len(ops) -> Int] : UndoesTo(ends, ops, lost, e, w, r + INPUT_BUF)

ConsIInv ==
  /\ ConsTyped /\ SentInOrder
  /\ Careful => LineInOrder /\ Undoable

-----------------------------------------------------------------------------
(* The ring. *)

\* An index wraps around to a cell of the ring.
LEMMA CellType ==
  ASSUME NEW x \in Int
  PROVE  x % INPUT_BUF \in 0..INPUT_BUF - 1
  BY ConsoleAssumption, Euclid DEF ConsoleAssumption

\* Indices less than one turn of the ring apart have different cells.
LEMMA CellsDiffer ==
  ASSUME NEW x \in Int, NEW y \in Int, x # y, x - INPUT_BUF < y, y < x + INPUT_BUF
  PROVE  x % INPUT_BUF # y % INPUT_BUF
  BY ConsoleAssumption, Residues DEF ConsoleAssumption

\* The bytes between two indices, as the code copies them out of the ring.
LEMMA BytesType ==
  ASSUME NEW b \in [0..INPUT_BUF - 1 -> Cells], NEW i \in Int, NEW j \in Int
  PROVE  /\ Bytes(b, i, j) \in Seq(Cells)
         /\ Len(Bytes(b, i, j)) = IF i <= j THEN j - i ELSE 0
         /\ \A k \in 1..j - i : Bytes(b, i, j)[k] = b[(i + k - 1) % INPUT_BUF]
<1> DEFINE n == IF i <= j THEN j - i ELSE 0
<1>1. n \in Nat /\ 1..j - i = 1..n
  OBVIOUS
<1>2. \A k \in 1..n : b[(i + k - 1) % INPUT_BUF] \in Cells
  BY CellType
<1>3. Bytes(b, i, j) = [k \in 1..n |-> b[(i + k - 1) % INPUT_BUF]]
  BY <1>1 DEF Bytes
<1>4. QED
  BY <1>1, <1>2, <1>3

\* What Put leaves in the ring.
LEMMA PutType ==
  ASSUME NEW b \in [0..INPUT_BUF - 1 -> Cells], NEW i \in Int, NEW s \in Seq(Cells)
  PROVE  Put(b, i, s) \in [0..INPUT_BUF - 1 -> Cells]
<1> DEFINE K(c) == {k \in 1..Len(s) : (i + k - 1) % INPUT_BUF = c}
<1>1. SUFFICES ASSUME NEW c \in 0..INPUT_BUF - 1, K(c) # {} PROVE s[Max(K(c))] \in Cells
  BY DEF Put
<1>2. K(c) \in SUBSET (1..Len(s)) /\ Len(s) \in Int
  OBVIOUS
<1>3. Max(K(c)) \in 1..Len(s)
  <2> HIDE DEF K
  <2>1. 1 \in Int /\ Len(s) \in Int
    BY <1>2
  <2>2. Max(K(c)) \in K(c)
    BY <1>1, <1>2, <2>1, Greatest
  <2>3. QED
    BY <1>2, <2>2
<1>4. QED
  BY <1>3

\* A cell that Put() writes holds the byte of its index.
LEMMA PutIn ==
  ASSUME NEW b \in [0..INPUT_BUF - 1 -> Cells], NEW i \in Int, NEW s \in Seq(Cells),
         Len(s) <= INPUT_BUF, NEW j \in i..i + Len(s) - 1
  PROVE  Put(b, i, s)[j % INPUT_BUF] = s[j - i + 1]
<1> DEFINE K == {k \in 1..Len(s) : (i + k - 1) % INPUT_BUF = j % INPUT_BUF}
<1>1. INPUT_BUF \in Nat /\ Len(s) \in Nat
  BY ConsoleAssumption DEF ConsoleAssumption
<1>2. j - i + 1 \in K
  BY <1>1
<1>3. ASSUME NEW k \in K PROVE k = j - i + 1
  <2> DEFINE x == i + k - 1
  <2>1. x \in Int /\ j \in Int /\ x - INPUT_BUF < j /\ j < x + INPUT_BUF
    BY <1>1
  <2>2. x % INPUT_BUF = j % INPUT_BUF
    OBVIOUS
  <2>3. x = j
    <3> HIDE DEF x
    <3> QED BY <2>1, <2>2, CellsDiffer
  <2>4. QED
    BY <2>3, <1>1
<1>4. K = {j - i + 1}
  BY <1>2, <1>3
<1>5. Max(K) = j - i + 1
  <2> DEFINE x == j - i + 1
  <2>1. x \in Int /\ K = {x}
    BY <1>4, <1>1
  <2>2. Max({x}) = x
    <3> HIDE DEF x
    <3> QED BY <2>1 DEF Max
  <2>3. QED
    BY <2>1, <2>2
<1>6. j % INPUT_BUF \in 0..INPUT_BUF - 1
  <2>1. j \in Int
    BY <1>1
  <2>2. QED
    BY <2>1, CellType
<1>7. QED
  BY <1>2, <1>5, <1>6 DEF Put

\* A cell that Put() does not reach keeps its byte.
LEMMA PutOut ==
  ASSUME NEW b \in [0..INPUT_BUF - 1 -> Cells], NEW i \in Int, NEW s \in Seq(Cells),
         NEW j \in Int, j < i, i + Len(s) <= j + INPUT_BUF
  PROVE  Put(b, i, s)[j % INPUT_BUF] = b[j % INPUT_BUF]
<1> DEFINE K == {k \in 1..Len(s) : (i + k - 1) % INPUT_BUF = j % INPUT_BUF}
<1>1. INPUT_BUF \in Nat /\ Len(s) \in Nat
  BY ConsoleAssumption DEF ConsoleAssumption
<1>2. ASSUME NEW k \in K PROVE FALSE
  <2> DEFINE x == i + k - 1
  <2>1. x \in Int /\ x - INPUT_BUF < j /\ j < x + INPUT_BUF /\ x # j
    BY <1>1
  <2>2. x % INPUT_BUF = j % INPUT_BUF
    OBVIOUS
  <2>3. QED
    <3> HIDE DEF x
    <3> QED BY <2>1, <2>2, CellsDiffer
<1>3. K = {}
  BY <1>2
<1>4. j % INPUT_BUF \in 0..INPUT_BUF - 1
  BY CellType
<1>5. QED
  BY <1>3, <1>4 DEF Put

\* A line with s put into it from index i on: what is in front of i stays, and
\* the n bytes from i on are the first ones of s.
LEMMA PutLine ==
  ASSUME NEW b \in [0..INPUT_BUF - 1 -> Cells], NEW i \in Int, NEW s \in Seq(Cells),
         NEW from \in Int, NEW n \in 0..Len(s), from <= i, i + Len(s) <= from + INPUT_BUF,
         \A k \in 1..n : s[k] \in Letters,
         \A j \in from..i - 1 : b[j % INPUT_BUF] \in Letters
  PROVE  \A j \in from..i + n - 1 : Put(b, i, s)[j % INPUT_BUF] \in Letters
<1>1. TAKE j \in from..i + n - 1
<1>2. INPUT_BUF \in Nat /\ Len(s) \in Nat
  BY ConsoleAssumption DEF ConsoleAssumption
<1>3. CASE j < i
  <2>1. j \in Int /\ i + Len(s) <= j + INPUT_BUF /\ j \in from..i - 1
    BY <1>2, <1>3
  <2>2. Put(b, i, s)[j % INPUT_BUF] = b[j % INPUT_BUF]
    BY <2>1, <1>3, PutOut
  <2>3. QED
    BY <2>1, <2>2
<1>4. CASE i <= j
  <2>1. j \in i..i + Len(s) - 1 /\ j - i + 1 \in 1..n /\ Len(s) <= INPUT_BUF
    BY <1>2, <1>4
  <2>2. Put(b, i, s)[j % INPUT_BUF] = s[j - i + 1]
    BY <2>1, PutIn
  <2>3. QED
    BY <2>1, <2>2
<1>5. QED
  BY <1>3, <1>4

\* Bytes of a line are letters.
LEMMA LineLetters ==
  ASSUME NEW b \in [0..INPUT_BUF - 1 -> Cells], NEW i \in Int, NEW j \in Int,
         \A k \in i..j - 1 : b[k % INPUT_BUF] \in Letters
  PROVE  Bytes(b, i, j) \in Seq(Letters)
<1> DEFINE n == IF i <= j THEN j - i ELSE 0
<1>1. n \in Nat /\ 1..j - i = 1..n
  OBVIOUS
<1>2. ASSUME NEW k \in 1..n PROVE b[(i + k - 1) % INPUT_BUF] \in Letters
  <2>1. i + k - 1 \in i..j - 1
    BY <1>1
  <2>2. QED
    BY <2>1
<1>3. Bytes(b, i, j) = [k \in 1..n |-> b[(i + k - 1) % INPUT_BUF]]
  BY <1>1 DEF Bytes
<1>4. QED
  BY <1>1, <1>2, <1>3

-----------------------------------------------------------------------------
(* The undo history. *)

\* Nothing to undo carefully.
LEMMA NothingUndoable ==
  ASSUME e' \in Int, ops' \in Seq(Change), lost' = Len(ops')
  PROVE  Undoable'
<1> DEFINE n == Len(ops')
           ends == [i \in n..n |-> e']
<1>1. n \in Nat
  OBVIOUS
<1>2. ends \in [n..n -> Int] /\ ends[n] = e' /\ n + 1..n = {}
  BY <1>1
<1>3. UndoesTo(ends, ops', lost', e', w', r' + INPUT_BUF)
  BY <1>2 DEF UndoesTo
<1>4. QED
  BY <1>2, <1>3 DEF Undoable

\* The reader takes bytes: there is more room for what is undone.
LEMMA RoomForUndo ==
  ASSUME ConsTyped, Undoable, UNCHANGED <<ops, lost, e, w>>, r' \in Nat, r <= r'
  PROVE  Undoable'
<1>1. PICK ends \in [lost..Len(ops) -> Int] : UndoesTo(ends, ops, lost, e, w, r + INPUT_BUF)
  BY DEF Undoable
<1>2. ASSUME NEW i \in lost + 1..Len(ops)
      PROVE  Leads(ops[i], ends[i - 1], ends[i], w, r' + INPUT_BUF)
  <2>1. i - 1 \in lost..Len(ops) /\ r \in Int /\ INPUT_BUF \in Int
    BY ConsoleAssumption DEF ConsTyped, ConsoleAssumption
  <2>2. Leads(ops[i], ends[i - 1], ends[i], w, r + INPUT_BUF) /\ ends[i - 1] \in Int
    BY <1>1, <2>1 DEF UndoesTo
  <2>3. QED
    BY <2>1, <2>2 DEF Leads
<1>3. UndoesTo(ends, ops, lost, e, w, r' + INPUT_BUF)
  BY <1>1, <1>2 DEF UndoesTo
<1>4. QED
  BY <1>3 DEF Undoable

\* log_op() for some changes, the last of which leaves the line as it is now.
LEMMA Logged ==
  ASSUME ConsTyped, NEW s \in Seq(Change), NEW stale \in 0..Len(ops), Log(s, stale),
         UNCHANGED <<r, w>>, e' \in Int,
         NEW f \in [0..Len(s) -> Int], f[Len(s)] = e',
         \A i \in 1..Len(s) : Leads(s[i], f[i - 1], f[i], w, r + INPUT_BUF),
         stale = Len(ops) \/ (stale = lost /\ f[0] = e /\ Undoable)
  PROVE  /\ ops' \in Seq(Change) /\ Len(ops') <= HISTORY_BUF /\ lost' \in 0..Len(ops')
         /\ Undoable'
<1> DEFINE n == Len(ops)
           m == Len(s)
           all == ops \o s
<1>1. /\ n \in Nat /\ m \in Nat /\ HISTORY_BUF \in Nat /\ stale \in 0..n /\ n <= HISTORY_BUF
      /\ all \in Seq(Change) /\ Len(all) = n + m /\ ops \in Seq(Change)
      /\ \A i \in 1..n : all[i] = ops[i]
      /\ \A i \in n + 1..n + m : all[i] = s[i - n]
  <2>1. HISTORY_BUF \in Nat /\ ops \in Seq(Change) /\ n <= HISTORY_BUF
    BY ConsoleAssumption DEF ConsTyped, ConsoleAssumption
  <2>2. n \in Nat /\ m \in Nat /\ stale \in 0..n
    BY <2>1
  <2>3. all \in Seq(Change) /\ Len(all) = n + m
    BY <2>1
  <2>4. \A i \in 1..n : all[i] = ops[i]
    BY <2>1, <2>2
  <2>5. \A i \in n + 1..n + m : all[i] = s[i - n]
    BY <2>1, <2>2
  <2>6. QED
    BY <2>1, <2>2, <2>3, <2>4, <2>5
<1>2. CASE n + m > HISTORY_BUF
  <2>1. ops' = SubSeq(all, 1, HISTORY_BUF) /\ lost' = HISTORY_BUF
    BY <1>2 DEF Log
  <2>2. ops' \in Seq(Change) /\ Len(ops') = HISTORY_BUF
    <3> HIDE DEF all
    <3> QED BY <1>1, <1>2, <2>1
  <2>3. lost' = Len(ops')
    BY <2>1, <2>2
  <2>4. Undoable'
    BY <2>2, <2>3, NothingUndoable
  <2>5. HISTORY_BUF \in Nat
    BY <1>1
  <2>6. lost' \in 0..Len(ops') /\ Len(ops') <= HISTORY_BUF
    BY <2>2, <2>3, <2>5
  <2>7. QED
    BY <2>2, <2>4, <2>6
<1>3. CASE n + m <= HISTORY_BUF
  <2>1. ops' = SubSeq(all, 1, n + m) /\ lost' = stale
    BY <1>1, <1>3 DEF Log
  <2>2. ops' = all
    BY <1>1, <2>1, SubSeqFull
  <2>3. CASE stale = n
    <3> DEFINE ends == [i \in n..n + m |-> f[i - n]]
    <3>1. ends \in [lost'..Len(ops') -> Int] /\ ends[Len(ops')] = e'
      <4>1. \A i \in n..n + m : i - n \in 0..m
        BY <1>1
      <4>2. ends \in [n..n + m -> Int]
        BY <4>1
      <4>3. n + m \in n..n + m /\ (n + m) - n = m
        BY <1>1
      <4>4. ends[n + m] = e'
        BY <4>3
      <4>5. QED
        BY <1>1, <2>1, <2>2, <2>3, <4>2, <4>4
    <3>2. ASSUME NEW i \in n + 1..n + m
          PROVE  Leads(ops'[i], ends[i - 1], ends[i], w, r + INPUT_BUF)
      <4>1. i - n \in 1..m /\ i \in n..n + m /\ i - 1 \in n..n + m
        BY <1>1
      <4>2. ends[i] = f[i - n] /\ ends[i - 1] = f[(i - n) - 1] /\ ops'[i] = s[i - n]
        BY <1>1, <2>2, <4>1
      <4>3. QED
        BY <4>1, <4>2
    <3> HIDE DEF ends
    <3>3. UndoesTo(ends, ops', lost', e', w', r' + INPUT_BUF)
      <4>1. \A i \in lost' + 1..Len(ops') : Leads(ops'[i], ends[i - 1], ends[i], w, r + INPUT_BUF)
        BY <1>1, <2>1, <2>2, <2>3, <3>2
      <4>2. QED
        BY <3>1, <4>1 DEF UndoesTo
    <3>4. Undoable'
      BY <3>1, <3>3 DEF Undoable
    <3>5. QED
      BY <1>1, <1>3, <2>1, <2>2, <3>4
  <2>4. CASE stale # n
    <3>1. PICK old \in [lost..n -> Int] : UndoesTo(old, ops, lost, e, w, r + INPUT_BUF)
      BY <2>4 DEF Undoable
    <3>2. stale = lost /\ f[0] = e /\ old[n] = e /\ lost \in 0..n
      BY <2>4, <3>1 DEF UndoesTo, ConsTyped
    <3> DEFINE ends == [i \in lost..n + m |-> IF i <= n THEN old[i] ELSE f[i - n]]
    <3>3. ends \in [lost'..Len(ops') -> Int] /\ ends[Len(ops')] = e'
      <4>1. \A i \in lost..n + m : i > n => i - n \in 0..m
        BY <1>1, <3>2
      <4>2. \A i \in lost..n + m : i <= n => i \in lost..n
        BY <1>1, <3>2
      <4>3. ends \in [lost..n + m -> Int]
        BY <4>1, <4>2
      <4>4. n + m \in lost..n + m /\ (n + m) - n = m /\ (n + m <= n => m = 0)
        BY <1>1, <3>2
      <4>5. ends[n + m] = e'
        <5>1. CASE m = 0
          <6>1. n + m = n /\ n \in lost..n + m /\ n <= n
            <7> HIDE DEF n, m, all
            <7> QED BY <5>1, <3>2, <1>1
          <6>2. ends[n] = old[n]
            BY <6>1
          <6>3. f[m] = e'
            OBVIOUS
          <6>4. QED
            <7> HIDE DEF ends, m
            <7> QED BY <5>1, <6>1, <6>2, <6>3, <3>2
        <5>2. CASE m # 0
          <6>1. ~(n + m <= n)
            BY <5>2, <1>1
          <6>2. ends[n + m] = f[(n + m) - n]
            BY <6>1, <4>4
          <6>3. f[(n + m) - n] = f[m]
            BY <4>4
          <6>4. QED
            BY <6>2, <6>3
        <5>3. QED
          BY <5>1, <5>2
      <4>6. QED
        BY <1>1, <2>1, <2>2, <3>2, <4>3, <4>5
    <3>4. ASSUME NEW i \in lost + 1..n + m
          PROVE  Leads(ops'[i], ends[i - 1], ends[i], w, r + INPUT_BUF)
      <4>1. i \in lost..n + m /\ i - 1 \in lost..n + m /\ i \in Int /\ lost \in Nat
        BY <1>1, <3>2
      <4>2. CASE i <= n
        <5>1. ends[i] = old[i] /\ ops'[i] = ops[i]
          <6>1. i \in 1..n
            BY <4>1, <4>2, <1>1
          <6>2. QED
            BY <6>1, <1>1, <2>2, <4>1, <4>2
        <5>a. ends[i - 1] = old[i - 1]
          <6>1. i - 1 <= n
            BY <4>1, <4>2, <1>1
          <6>2. QED
            BY <6>1, <4>1
        <5>2. i \in lost + 1..Len(ops)
          BY <4>2
        <5>3. QED
          BY <3>1, <5>1, <5>a, <5>2 DEF UndoesTo
      <4>3. CASE i > n
        <5>1. i - n \in 1..m /\ (i - n) - 1 \in 0..m /\ i \in n + 1..n + m
          <6>1. n \in Nat /\ m \in Nat /\ i \in Int /\ i <= n + m
            BY <1>1, <4>1
          <6> HIDE DEF n, m, all, ends
          <6>2. QED
            BY <4>3, <6>1
        <5>2. ends[i] = f[i - n] /\ ops'[i] = s[i - n]
          BY <1>1, <2>2, <4>1, <4>3, <5>1
        <5>3. ends[i - 1] = f[(i - n) - 1]
          <6>1. CASE i = n + 1
            BY <6>1, <1>1, <3>2, <4>1
          <6>2. CASE i # n + 1
            <7>1. ~(i - 1 <= n) /\ (i - 1) - n = (i - n) - 1
              BY <6>2, <1>1, <4>1, <4>3
            <7>2. QED
              BY <7>1, <4>1
          <6>3. QED
            BY <6>1, <6>2
        <5>4. QED
          BY <5>1, <5>2, <5>3
      <4>4. QED
        BY <1>1, <4>1, <4>2, <4>3
    <3> HIDE DEF ends
    <3>5. UndoesTo(ends, ops', lost', e', w', r' + INPUT_BUF)
      <4>1. \A i \in lost' + 1..Len(ops') : Leads(ops'[i], ends[i - 1], ends[i], w, r + INPUT_BUF)
        BY <1>1, <2>1, <2>2, <3>2, <3>4
      <4>2. QED
        BY <3>3, <4>1 DEF UndoesTo
    <3>6. Undoable'
      BY <3>3, <3>5 DEF Undoable
    <3>7. QED
      BY <1>1, <1>3, <2>1, <2>2, <3>6
  <2>5. QED
    BY <2>3, <2>4
<1>4. QED
  BY <1>1, <1>2, <1>3

-----------------------------------------------------------------------------
(* The keys. *)

\* What holds while the user is careful, as numbers.
LEMMA Indices ==
  ASSUME ConsIInv, Careful
  PROVE  /\ w \in Nat /\ r \in Nat /\ e \in Nat /\ cur \in Nat /\ INPUT_BUF \in Nat
         /\ INPUT_BUF > 0 /\ r <= w /\ cur \in w..e /\ e <= r + INPUT_BUF
         /\ (w < e => e < r + INPUT_BUF)
         /\ \A i \in w..e - 1 : buf[i % INPUT_BUF] \in Letters
         /\ buf \in [0..INPUT_BUF - 1 -> Cells]
<1>1. INPUT_BUF \in Nat /\ INPUT_BUF > 0
  BY ConsoleAssumption DEF ConsoleAssumption
<1>2. w \in Nat /\ r \in Nat /\ e \in Int /\ cur \in Int
  BY DEF ConsIInv, ConsTyped
<1>3. r <= w /\ w <= cur /\ cur <= e /\ e <= r + INPUT_BUF /\ (w < e => e < r + INPUT_BUF)
  BY DEF ConsIInv, SentInOrder, LineInOrder
<1>4. \A i \in w..e - 1 : buf[i % INPUT_BUF] \in Letters
  BY DEF ConsIInv, LineInOrder, Ch
<1>5. buf \in [0..INPUT_BUF - 1 -> Cells]
  BY DEF ConsIInv, ConsTyped
<1>6. QED
  BY <1>1, <1>2, <1>3, <1>4, <1>5

\* s replaces what the line has from index i on.
LEMMA LinePut ==
  ASSUME ConsIInv, Careful, NEW i \in w..e, NEW s \in Seq(Letters),
         i + Len(s) <= w + INPUT_BUF
  PROVE  /\ Put(buf, i, s) \in [0..INPUT_BUF - 1 -> Cells]
         /\ \A j \in w..i + Len(s) - 1 : Put(buf, i, s)[j % INPUT_BUF] \in Letters
<1>1. s \in Seq(Cells) /\ Len(s) \in 0..Len(s) /\ \A k \in 1..Len(s) : s[k] \in Letters
  <2>1. Letters \subseteq Cells
    BY DEF Cells
  <2>2. s \in Seq(Cells)
    BY <2>1, SeqMonotonic
  <2>3. QED
    BY <2>2
<1>2. i \in Int /\ w \in Int /\ w <= i /\ \A j \in w..i - 1 : j \in w..e - 1
  <2>1. w \in Nat /\ e \in Nat
    BY Indices, Zenon
  <2>2. QED
    BY <2>1
<1>3. Put(buf, i, s) \in [0..INPUT_BUF - 1 -> Cells]
  BY <1>1, <1>2, Indices, PutType
<1>4. \A j \in w..i - 1 : buf[j % INPUT_BUF] \in Letters
  BY <1>2, Indices
<1>5. \A j \in w..i + Len(s) - 1 : Put(buf, i, s)[j % INPUT_BUF] \in Letters
  BY <1>1, <1>2, <1>4, Indices, PutLine
<1>6. QED
  BY <1>3, <1>5

\* The part of the line from index i to index j.
LEMMA LinePart ==
  ASSUME ConsIInv, Careful, NEW i \in w..e, NEW j \in i..e
  PROVE  Bytes(buf, i, j) \in Seq(Letters) /\ Len(Bytes(buf, i, j)) = j - i
<1>1. i \in Int /\ j \in Int /\ i <= j /\ \A k \in i..j - 1 : k \in w..e - 1
  BY Indices
<1>2. \A k \in i..j - 1 : buf[k % INPUT_BUF] \in Letters
  BY <1>1, Indices
<1>3. buf \in [0..INPUT_BUF - 1 -> Cells]
  BY Indices
<1>4. QED
  BY <1>1, <1>2, <1>3, LineLetters, BytesType

\* A key that leaves the reader alone.
LEMMA KeepsSent ==
  ASSUME ConsIInv, Key, Keeps
  PROVE  SentInOrder' /\ Careful /\ UNCHANGED <<r, w, rd>> /\ keys' \in Nat
<1>1. UNCHANGED <<r, w, rd>> /\ Careful /\ keys' = keys + 1
  BY DEF Key, Keeps, Careful
<1>2. SentInOrder'
  BY <1>1 DEF ConsIInv, SentInOrder, ReaderNotMissed
<1>3. QED
  BY <1>1, <1>2 DEF ConsIInv, ConsTyped

\* ClearSelection leaves no selection, and the mark or none.
LEMMA ClearType ==
  ASSUME ConsTyped, ClearSelection
  PROVE  sel' \in Int \X Int /\ sel' = NoSel /\ mark' \in Int /\ mark' \in {mark, -1}
  BY DEF ConsTyped, ClearSelection, NoSel

\* ^U keeps the invariant.
LEMMA EraseLineStep ==
  ASSUME ConsIInv, EraseLine
  PROVE  ConsIInv'
<1> DEFINE start == Max({w} \cup {i + 1 : i \in {j \in w..e - 1 : Ch(j) = "\n"}})
           s == [k \in 1..e - start |-> Entry("delete", e - k)]
<1>1. /\ Key /\ Keeps /\ Log(s, lost) /\ e' = start /\ cur' = cur - (e - start)
      /\ ClearSelection /\ Carefully(cur = e \/ start = e) /\ UNCHANGED <<buf, clip>>
  BY DEF EraseLine
<1>2. SentInOrder' /\ Careful /\ UNCHANGED <<r, w, rd>> /\ keys' \in Nat
  BY <1>1, KeepsSent
<1>3. start \in w..e
  <2> DEFINE K == {w} \cup {i + 1 : i \in {j \in w..e - 1 : Ch(j) = "\n"}}
  <2>1. K \in SUBSET (w..e) /\ K # {} /\ w \in Int /\ e \in Int
    BY <1>2, Indices
  <2>2. Max(K) \in K
    <3> HIDE DEF K
    <3> QED BY <2>1, Greatest
  <2>3. QED
    BY <2>1, <2>2
<1> HIDE DEF start
<1>4. e - start \in Nat /\ start \in Int /\ e \in Int
  BY <1>2, <1>3, Indices
<1>5. \A k \in 1..e - start : /\ e - k \in w..e - 1 /\ Ch(e - k) \in Letters
                              /\ Entry("delete", e - k) \in Change
  <2> TAKE k \in 1..e - start
  <2>1. e - k \in w..e - 1
    BY <1>2, <1>3, <1>4, Indices
  <2>2. Ch(e - k) \in Letters
    BY <1>2, <2>1, Indices DEF Ch
  <2>3. QED
    BY <1>4, <2>1, <2>2 DEF Entry, Change, Cells
<1>6. s \in Seq(Change) /\ Len(s) = e - start
  BY <1>4, <1>5
<1> DEFINE f == [k \in 0..Len(s) |-> e - k]
<1>7. f \in [0..Len(s) -> Int] /\ f[Len(s)] = e' /\ f[0] = e
  BY <1>1, <1>4, <1>6
<1>8. \A i \in 1..Len(s) : Leads(s[i], f[i - 1], f[i], w, r + INPUT_BUF)
  <2> TAKE i \in 1..Len(s)
  <2>1. i \in 1..e - start /\ i - 1 \in 0..Len(s) /\ i \in 0..Len(s)
    BY <1>4, <1>6
  <2>2. s[i].type = "delete" /\ s[i].pos = e - i /\ s[i].c \in Letters
    BY <1>5, <2>1 DEF Entry
  <2>3. f[i - 1] = e - (i - 1) /\ f[i] = e - i
    BY <2>1
  <2>4. w < e /\ e < r + INPUT_BUF
    BY <1>2, <1>3, <1>4, <2>1, Indices
  <2> HIDE DEF f, s
  <2>5. e - i \in w..e - 1
    BY <1>5, <2>1
  <2>6. i \in Nat /\ i > 0
    BY <2>1, <1>4
  <2>7. w \in Nat /\ r \in Nat /\ INPUT_BUF \in Nat /\ e \in Nat
    BY <1>2, Indices
  <2>8. w <= e - i /\ e - (i - 1) = (e - i) + 1 /\ e - i <= e - i
        /\ e - (i - 1) < r + INPUT_BUF
    BY <2>4, <2>5, <2>6, <2>7
  <2> DEFINE op == s[i]
             a == f[i - 1]
             b == f[i]
  <2>9. /\ w <= op.pos /\ op.type = "delete"
        /\ a = b + 1 /\ op.pos <= b /\ a < r + INPUT_BUF /\ op.c \in Letters
    BY <2>2, <2>3, <2>7, <2>8
  <2> HIDE DEF op, a, b
  <2>10. "delete" # "insert"
    OBVIOUS
  <2>11. Leads(op, a, b, w, r + INPUT_BUF)
    BY <2>9, <2>10, Zenon DEF Leads
  <2>12. QED
    BY <2>11 DEF op, a, b
<1>9. /\ ops' \in Seq(Change) /\ Len(ops') <= HISTORY_BUF /\ lost' \in 0..Len(ops')
      /\ Undoable'
  <2> HIDE DEF f, s
  <2>1. e' \in Int /\ lost \in 0..Len(ops) /\ ConsTyped /\ Undoable
    BY <1>1, <1>2, <1>4 DEF ConsIInv, ConsTyped
  <2>2. QED
    BY <1>1, <1>2, <1>6, <1>7, <1>8, <2>1, Logged
<1>10. ConsTyped'
  BY <1>1, <1>2, <1>4, <1>9, ClearType DEF ConsIInv, ConsTyped, Carefully
<1>11. ASSUME Careful' PROVE LineInOrder'
  <2>1. cur = e \/ start = e
    BY <1>1, <1>11 DEF Careful, Carefully
  <2>2. w <= cur' /\ cur' <= e' /\ e' <= r + INPUT_BUF /\ (w < e' => e' < r + INPUT_BUF)
    BY <1>1, <1>2, <1>3, <2>1, Indices
  <2>3. \A i \in w..e' - 1 : buf[i % INPUT_BUF] \in Letters
    BY <1>1, <1>2, <1>3, Indices
  <2>4. sel' = NoSel /\ (mark' = -1 \/ w <= mark')
    BY <1>1, <1>2, ClearType DEF ConsIInv, LineInOrder
  <2>5. QED
    BY <1>1, <1>2, <2>2, <2>3, <2>4 DEF LineInOrder, Ch
<1>12. QED
  BY <1>2, <1>9, <1>10, <1>11 DEF ConsIInv

\* An edit that cannot be undone.
LEMMA NotLoggedUndoable ==
  ASSUME ConsIInv, NotLogged, e' \in Int
  PROVE  /\ ops' \in Seq(Change) /\ Len(ops') <= HISTORY_BUF /\ lost' \in 0..Len(ops')
         /\ Undoable'
<1>1. /\ ops' \in Seq(Change) /\ lost' = Len(ops') /\ Len(ops') <= HISTORY_BUF
      /\ Len(ops') \in Nat
  BY DEF NotLogged, ConsIInv, ConsTyped
<1>2. Undoable'
  BY <1>1, NothingUndoable
<1>3. QED
  BY <1>1, <1>2

\* memmove() of a tail that it cannot move.
LEMMA OverrunStep ==
  ASSUME ConsIInv, Key, Keeps, Overrun
  PROVE  ConsIInv'
<1>1. SentInOrder' /\ UNCHANGED <<r, w, rd>> /\ keys' \in Nat
  BY KeepsSent
<1>2. session' = "overrun" /\ UNCHANGED <<buf, e, cur, sel, clip, mark, ops, lost>>
  BY DEF Overrun, rvars
<1>3. ConsTyped'
  BY <1>1, <1>2 DEF ConsIInv, ConsTyped
<1>4. ~Careful'
  BY <1>2 DEF Careful
<1>5. QED
  BY <1>1, <1>3, <1>4 DEF ConsIInv

\* The selection is a part of the line.
LEMMA Selected ==
  ASSUME ConsIInv, Careful, sel # NoSel
  PROVE  sel[1] \in w..e /\ sel[2] \in sel[1]..e /\ sel[1] < sel[2]
  BY Indices DEF ConsIInv, ConsTyped, LineInOrder

\* What is in front of the selection and what is behind it: the line without it.
LEMMA WithoutSelection ==
  ASSUME ConsIInv, Careful, sel # NoSel, NEW n, n = e - (sel[2] - sel[1])
  PROVE  /\ Squeezed \in [0..INPUT_BUF - 1 -> Cells]
         /\ \A j \in w..n - 1 : Squeezed[j % INPUT_BUF] \in Letters
<1> DEFINE tail == Bytes(buf, sel[2], e)
<1>1. sel[1] \in w..e /\ sel[2] \in sel[1]..e /\ sel[2] \in w..e /\ e \in sel[2]..e
  <2>1. sel[1] \in w..e /\ sel[2] \in sel[1]..e
    BY Selected, Zenon
  <2>2. w \in Nat /\ e \in Nat
    BY Indices, Zenon
  <2>3. QED
    BY <2>1, <2>2
<1>2. tail \in Seq(Letters) /\ Len(tail) = e - sel[2]
  BY <1>1, LinePart
<1>3. Squeezed = Put(buf, sel[1], tail)
  BY DEF Squeezed
<1>4. sel[1] + Len(tail) = n /\ sel[1] + Len(tail) <= w + INPUT_BUF
  <2>1. /\ w \in Nat /\ r \in Nat /\ e \in Nat /\ INPUT_BUF \in Nat
        /\ r <= w /\ e <= r + INPUT_BUF
    BY Indices
  <2> DEFINE i == sel[1]
             j == sel[2]
             m == Len(tail)
  <2>2. i \in w..e /\ j \in i..e /\ m = e - j /\ n = e - (j - i)
    BY <1>1, <1>2
  <2>3. i + m = n /\ i + m <= w + INPUT_BUF
    <3> HIDE DEF i, j, m
    <3> QED BY <2>1, <2>2
  <2>4. QED
    BY <2>3
<1> DEFINE i == sel[1]
<1>5. i \in w..e /\ i + Len(tail) = n /\ i + Len(tail) <= w + INPUT_BUF /\ Squeezed = Put(buf, i, tail)
  BY <1>1, <1>3, <1>4
<1> HIDE DEF tail, i
<1>6. /\ Put(buf, i, tail) \in [0..INPUT_BUF - 1 -> Cells]
      /\ \A j \in w..i + Len(tail) - 1 : Put(buf, i, tail)[j % INPUT_BUF] \in Letters
  BY <1>2, <1>5, LinePut
<1>7. QED
  BY <1>5, <1>6

\* Deleting the selection, which is pushed in front of the rest of the line.
LEMMA DeleteSelectionStep ==
  ASSUME ConsIInv, DeleteSelection
  PROVE  ConsIInv'
<1>1. Key /\ Keeps /\ sel # NoSel
  BY DEF DeleteSelection
<1>2. SentInOrder' /\ Careful /\ UNCHANGED <<r, w, rd>> /\ keys' \in Nat
  BY <1>1, KeepsSent
<1>3. CASE ~TailMoves
  BY <1>1, <1>3, OverrunStep DEF DeleteSelection
<1>4. CASE TailMoves
  <2>1. /\ buf' = Squeezed /\ e' = e - (sel[2] - sel[1]) /\ cur' = sel[1]
        /\ ClearSelection /\ NotLogged /\ UNCHANGED <<clip, session>>
    BY <1>4 DEF DeleteSelection
  <2>2. sel[1] \in w..e /\ sel[2] \in sel[1]..e /\ sel[1] < sel[2]
    BY <1>1, <1>2, Selected
  <2>3. /\ buf' \in [0..INPUT_BUF - 1 -> Cells]
        /\ \A j \in w..e' - 1 : buf'[j % INPUT_BUF] \in Letters
    BY <1>1, <1>2, <2>1, WithoutSelection
  <2>4. /\ e' \in Nat /\ cur' \in Nat /\ w <= cur' /\ cur' <= e' /\ e' <= r + INPUT_BUF
        /\ (w < e' => e' < r + INPUT_BUF)
    <3>1. /\ w \in Nat /\ r \in Nat /\ e \in Nat /\ INPUT_BUF \in Nat /\ w <= e
          /\ e <= r + INPUT_BUF /\ (w < e => e < r + INPUT_BUF)
      BY <1>2, Indices
    <3>2. PICK a \in Int, b \in Int :
            /\ a = sel[1] /\ b = sel[2] /\ w <= a /\ a < b /\ b <= e
      BY <2>2, <3>1
    <3>3. e' = e - (b - a) /\ cur' = a
      BY <2>1, <3>2
    <3>4. QED
      BY <3>1, <3>2, <3>3
  <2>5. sel' \in Int \X Int /\ sel' = NoSel /\ mark' \in Int /\ mark' \in {mark, -1}
    BY <2>1, ClearType DEF ConsIInv
  <2>6. /\ ops' \in Seq(Change) /\ Len(ops') <= HISTORY_BUF /\ lost' \in 0..Len(ops')
        /\ Undoable'
    BY <2>1, <2>4, NotLoggedUndoable
  <2>7. ConsTyped'
    BY <1>2, <2>1, <2>3, <2>4, <2>5, <2>6 DEF ConsIInv, ConsTyped
  <2>8. LineInOrder'
    BY <1>2, <2>3, <2>4, <2>5 DEF ConsIInv, LineInOrder, Ch
  <2>9. QED
    BY <1>2, <2>6, <2>7, <2>8 DEF ConsIInv
<1>5. QED
  BY <1>3, <1>4

\* Backspace without a selection: the tail of the line moves one cell down.
LEMMA BackspaceStep ==
  ASSUME ConsIInv, Backspace
  PROVE  ConsIInv'
<1> DEFINE s == <<Entry("delete", cur - 1)>>
           tail == Bytes(buf, cur, e)
<1>1. /\ Key /\ Keeps /\ Log(s, lost) /\ buf' = Put(buf, cur - 1, tail) /\ e' = e - 1
      /\ cur' = cur - 1 /\ UNCHANGED <<mark, sel, clip, session>> /\ cur > w /\ sel = NoSel
  BY DEF Backspace, CanErase
<1>2. SentInOrder' /\ Careful /\ UNCHANGED <<r, w, rd>> /\ keys' \in Nat
  BY <1>1, KeepsSent
<1>3. /\ cur \in w..e /\ cur - 1 \in w..e - 1 /\ cur - 1 \in w..e /\ e \in cur..e /\ w < e
      /\ e < r + INPUT_BUF /\ w \in Nat /\ r \in Nat /\ INPUT_BUF \in Nat /\ e \in Nat
      /\ cur \in Nat /\ r <= w
  <2>1. /\ w \in Nat /\ r \in Nat /\ e \in Nat /\ cur \in Nat /\ INPUT_BUF \in Nat
        /\ r <= w /\ cur \in w..e /\ (w < e => e < r + INPUT_BUF)
    BY <1>2, Indices
  <2>2. QED
    BY <1>1, <2>1
<1>4. tail \in Seq(Letters) /\ Len(tail) = e - cur
  BY <1>2, <1>3, LinePart
<1>5. /\ buf' \in [0..INPUT_BUF - 1 -> Cells]
      /\ \A j \in w..e' - 1 : buf'[j % INPUT_BUF] \in Letters
  <2> DEFINE i == cur - 1
  <2>1. i \in w..e /\ i + Len(tail) <= w + INPUT_BUF /\ i + Len(tail) = e' /\ buf' = Put(buf, i, tail)
    BY <1>1, <1>3, <1>4
  <2> HIDE DEF i, tail
  <2>2. QED
    BY <1>2, <1>4, <2>1, LinePut
<1>6. s \in Seq(Change) /\ Len(s) = 1 /\ s[1].type = "delete" /\ s[1].pos = cur - 1 /\ s[1].c \in Letters
  <2>1. Ch(cur - 1) \in Letters
    BY <1>2, <1>3, Indices DEF Ch
  <2>2. Entry("delete", cur - 1) \in Change
    BY <1>3, <2>1 DEF Entry, Change, Cells
  <2>3. QED
    BY <2>1, <2>2 DEF Entry
<1> DEFINE f == [k \in 0..1 |-> e - k]
<1>7. f \in [0..Len(s) -> Int] /\ f[Len(s)] = e' /\ f[0] = e /\ f[1] = e - 1
  BY <1>1, <1>3, <1>6
<1>8. \A i \in 1..Len(s) : Leads(s[i], f[i - 1], f[i], w, r + INPUT_BUF)
  <2> HIDE DEF f, s
  <2>1. SUFFICES Leads(s[1], f[0], f[1], w, r + INPUT_BUF)
    BY <1>6
  <2>2. QED
    BY <1>3, <1>6, <1>7 DEF Leads
<1>9. /\ ops' \in Seq(Change) /\ Len(ops') <= HISTORY_BUF /\ lost' \in 0..Len(ops')
      /\ Undoable'
  <2> HIDE DEF f, s
  <2>1. e' \in Int /\ lost \in 0..Len(ops) /\ ConsTyped /\ Undoable
    BY <1>1, <1>2, <1>3 DEF ConsIInv, ConsTyped
  <2>2. QED
    BY <1>1, <1>2, <1>6, <1>7, <1>8, <2>1, Logged
<1>10. ConsTyped'
  BY <1>1, <1>2, <1>3, <1>5, <1>9 DEF ConsIInv, ConsTyped
<1>11. w <= cur' /\ cur' <= e' /\ e' <= r + INPUT_BUF /\ (w < e' => e' < r + INPUT_BUF)
  BY <1>1, <1>3
<1>12. LineInOrder'
  BY <1>1, <1>2, <1>5, <1>11 DEF ConsIInv, LineInOrder, Ch
<1>13. QED
  BY <1>2, <1>9, <1>10, <1>12 DEF ConsIInv

\* Keys that change neither the line nor the history.
LEMMA LineUntouched ==
  ASSUME ConsIInv, Key, Keeps, UNCHANGED <<buf, e, ops, lost>>,
         sel' \in Int \X Int, mark' \in Int, clip' \in Seq(Letters), cur' \in Int,
         session' \in {"careful", "careless"},
         Careful' => /\ sel' # NoSel => w <= sel'[1] /\ sel'[1] < sel'[2] /\ sel'[2] <= e
                     /\ mark' = -1 \/ w <= mark'
                     /\ w <= cur' /\ cur' <= e
  PROVE  ConsIInv'
<1>1. SentInOrder' /\ Careful /\ UNCHANGED <<r, w, rd>> /\ keys' \in Nat
  BY KeepsSent
<1>2. ConsTyped'
  BY <1>1 DEF ConsIInv, ConsTyped
<1>3. Careful' => LineInOrder'
  BY <1>1 DEF ConsIInv, LineInOrder, Ch
<1>4. Undoable'
  BY <1>1 DEF ConsIInv, Undoable
<1>5. QED
  BY <1>1, <1>2, <1>3, <1>4 DEF ConsIInv

\* ^S and ^C touch neither the line nor its history.
LEMMA SelectionStep ==
  ASSUME ConsIInv, SetMark \/ Select \/ Copy
  PROVE  ConsIInv'
<1>1. Key /\ Keeps
  BY DEF SetMark, Select, Copy
<1>2. Careful /\ UNCHANGED <<r, w, rd>>
  BY <1>1, KeepsSent
<1>3. /\ w \in Nat /\ e \in Nat /\ cur \in Nat /\ w <= cur /\ cur <= e
      /\ mark \in Int /\ sel \in Int \X Int /\ clip \in Seq(Letters)
      /\ session = "careful" /\ (mark = -1 \/ w <= mark)
      /\ (sel # NoSel => w <= sel[1] /\ sel[1] < sel[2] /\ sel[2] <= e)
  BY <1>2, Indices DEF ConsIInv, ConsTyped, LineInOrder, Careful
<1>4. NoSel \in Int \X Int
  BY DEF NoSel
<1>5. CASE SetMark
  <2>1. /\ mark' = cur /\ sel' = NoSel /\ UNCHANGED <<buf, e, cur, clip, ops, lost, session>>
    BY <1>5 DEF SetMark
  <2>2. QED
    BY <1>1, <1>3, <1>4, <2>1, LineUntouched
<1>6. CASE Select
  <2>1. /\ mark # -1 /\ mark' = -1 /\ Carefully(mark <= e)
        /\ UNCHANGED <<buf, e, cur, clip, ops, lost>>
        /\ sel' = IF mark = cur THEN sel ELSE IF mark < cur THEN <<mark, cur>> ELSE <<cur, mark>>
    BY <1>6 DEF Select
  <2>2. sel' \in Int \X Int
    BY <1>3, <2>1
  <2>3. session' \in {"careful", "careless"} /\ (Careful' => mark <= e)
    BY <2>1 DEF Carefully, Careful
  <2>4. Careful' /\ sel' # NoSel => w <= sel'[1] /\ sel'[1] < sel'[2] /\ sel'[2] <= e
    BY <1>3, <2>1, <2>3
  <2>5. QED
    BY <1>1, <1>3, <2>1, <2>2, <2>3, <2>4, LineUntouched
<1>7. CASE Copy
  <2>1. /\ sel # NoSel /\ ClearSelection /\ UNCHANGED <<buf, e, cur, ops, lost, session>>
        /\ clip' = IF sel[2] - sel[1] < INPUT_BUF THEN Bytes(buf, sel[1], sel[2]) ELSE clip
    BY <1>7 DEF Copy
  <2>2. clip' \in Seq(Letters)
    BY <1>2, <1>3, <2>1, Selected, LinePart
  <2>3. sel' \in Int \X Int /\ sel' = NoSel /\ mark' \in Int /\ mark' \in {mark, -1}
    BY <2>1, ClearType DEF ConsIInv
  <2>4. QED
    BY <1>1, <1>3, <2>1, <2>2, <2>3, LineUntouched
<1>8. QED
  BY <1>5, <1>6, <1>7

\* ^V makes room for the clip in front of the tail of the line.
LEMMA PasteStep ==
  ASSUME ConsIInv, Paste
  PROVE  ConsIInv'
<1> DEFINE tail == Bytes(buf, cur, e)
           s == clip \o tail
<1>1. /\ Key /\ Keeps /\ PasteFits /\ buf' = Put(buf, cur, s) /\ e' = e + Len(clip)
      /\ cur' = cur + Len(clip) /\ ClearSelection /\ NotLogged /\ UNCHANGED <<clip, session>>
  BY DEF Paste
<1>2. SentInOrder' /\ Careful /\ UNCHANGED <<r, w, rd>> /\ keys' \in Nat
  BY <1>1, KeepsSent
<1>3. /\ w \in Nat /\ r \in Nat /\ e \in Nat /\ cur \in Nat /\ INPUT_BUF \in Nat
      /\ r <= w /\ cur \in w..e /\ e \in cur..e
  BY <1>2, Indices
<1>4. tail \in Seq(Letters) /\ Len(tail) = e - cur
  BY <1>2, <1>3, LinePart
<1>5. clip \in Seq(Letters) /\ Len(clip) \in Nat /\ e - r + Len(clip) < INPUT_BUF
  BY <1>1 DEF PasteFits, Unread, ConsIInv, ConsTyped
<1>6. s \in Seq(Letters) /\ Len(s) = Len(clip) + (e - cur)
  <2> HIDE DEF tail
  <2> QED BY <1>4, <1>5
<1> HIDE DEF s
<1>7. cur + Len(s) = e' /\ e' < r + INPUT_BUF /\ cur + Len(s) <= w + INPUT_BUF /\ e' \in Nat
  BY <1>1, <1>3, <1>5, <1>6
<1>8. /\ buf' \in [0..INPUT_BUF - 1 -> Cells]
      /\ \A j \in w..e' - 1 : buf'[j % INPUT_BUF] \in Letters
  <2>1. /\ Put(buf, cur, s) \in [0..INPUT_BUF - 1 -> Cells]
        /\ \A j \in w..cur + Len(s) - 1 : Put(buf, cur, s)[j % INPUT_BUF] \in Letters
    BY <1>2, <1>3, <1>6, <1>7, LinePut
  <2>2. Put(buf, cur, s) = buf'
    BY <1>1
  <2>3. e' = cur + Len(s) /\ e' \in Int /\ cur \in Int /\ Len(s) \in Int /\ w \in Int
    BY <1>3, <1>6, <1>7
  <2>4. w..e' - 1 = w..cur + Len(s) - 1
    BY <2>3
  <2>5. QED
    BY <2>1, <2>2, <2>4
<1>9. w <= cur' /\ cur' <= e' /\ e' <= r + INPUT_BUF /\ cur' \in Nat
  BY <1>1, <1>3, <1>5, <1>7
<1>10. sel' \in Int \X Int /\ sel' = NoSel /\ mark' \in Int /\ mark' \in {mark, -1}
  BY <1>1, ClearType DEF ConsIInv
<1>11. /\ ops' \in Seq(Change) /\ Len(ops') <= HISTORY_BUF /\ lost' \in 0..Len(ops')
       /\ Undoable'
  BY <1>1, <1>7, NotLoggedUndoable
<1>12. ConsTyped'
  BY <1>1, <1>2, <1>7, <1>8, <1>9, <1>10, <1>11 DEF ConsIInv, ConsTyped
<1>13. LineInOrder'
  BY <1>2, <1>7, <1>8, <1>9, <1>10 DEF ConsIInv, LineInOrder, Ch
<1>14. QED
  BY <1>2, <1>11, <1>12, <1>13 DEF ConsIInv

\* The longest common prefix of some words is a word.
LEMMA PrefixType ==
  ASSUME NEW S \in SUBSET Seq(Letters), S # {}
  PROVE  LongestCommonPrefix(S) \in Seq(Letters)
<1> DEFINE C == CommonPrefixes(S)
           L == {Len(x) : x \in C}
<1>1. \A t \in S : \A l \in 0..Len(t) : SubSeq(t, 1, l) \in Seq(Letters) /\ Len(SubSeq(t, 1, l)) = l
  OBVIOUS
<1>2. C \subseteq Seq(Letters)
  BY <1>1 DEF CommonPrefixes, Prefixes
<1>3. PICK t \in S : t \in Seq(Letters) /\ Len(t) \in Nat
  OBVIOUS
<1>4. \A x \in C : Len(x) <= Len(t) /\ Len(x) \in Nat
  BY <1>2, <1>3 DEF CommonPrefixes, IsPrefix
<1>5. <<>> \in C
  <2>1. SubSeq(t, 1, 0) = <<>> /\ 0 \in 0..Len(t)
    BY <1>3, SubSeqEmpty
  <2>2. <<>> \in Prefixes(t)
    BY <2>1, Zenon DEF Prefixes
  <2>3. \A u \in S : IsPrefix(<<>>, u)
    <3> TAKE u \in S
    <3>1. u \in Seq(Letters) /\ Len(u) \in Nat /\ Len(<<>>) = 0
      OBVIOUS
    <3>2. SubSeq(u, 1, 0) = <<>> /\ SubSeq(<<>>, 1, 0) = <<>>
      BY SubSeqEmpty
    <3>3. Len(<<>>) <= Len(u)
      BY <3>1
    <3>4. QED
      BY <3>1, <3>2, <3>3 DEF IsPrefix
  <2>4. QED
    BY <2>2, <2>3, Zenon DEF CommonPrefixes
<1>6. L \in SUBSET (0..Len(t)) /\ L # {}
  <2> HIDE DEF C
  <2> QED BY <1>3, <1>4, <1>5
<1>7. PICK x \in C : \A y \in C : Len(y) <= Len(x)
  <2>1. 0 \in Int /\ Len(t) \in Int
    BY <1>3
  <2>2. Max(L) \in L /\ \A l \in L : l <= Max(L)
    <3> HIDE DEF L
    <3> QED BY <1>6, <2>1, Greatest
  <2> HIDE DEF C
  <2>3. QED
    BY <2>2
<1>8. LongestCommonPrefix(S) \in C
  <2> HIDE DEF C
  <2>1. LongestCommonPrefix(S) = CHOOSE longest \in C : \A other \in C : Len(other) <= Len(longest)
    BY DEF LongestCommonPrefix, C
  <2>2. QED
    BY <1>7, <2>1, Zenon
<1>9. QED
  BY <1>2, <1>8

\* Tab completion replaces the line by the longest common prefix of the commands.
LEMMA TabStep ==
  ASSUME ConsIInv, Tab
  PROVE  ConsIInv'
<1> DEFINE line == Bytes(buf, w, e)
           matches == {c \in Commands : line # <<>> /\ IsPrefix(line, c)}
           longest == LongestCommonPrefix(matches)
           new == IF matches = {longest} THEN Append(longest, Blank) ELSE longest
           same == Blank \in Range(line) \/ matches = {} \/ (new = longest /\ longest = line)
<1>1. Key /\ Keeps /\ ClearSelection /\ UNCHANGED clip
  BY DEF Tab
<1>2. SentInOrder' /\ Careful /\ UNCHANGED <<r, w, rd>> /\ keys' \in Nat
  BY <1>1, KeepsSent
<1>3. sel' \in Int \X Int /\ sel' = NoSel /\ mark' \in Int /\ mark' \in {mark, -1}
  BY <1>1, ClearType DEF ConsIInv
<1>4. /\ w \in Nat /\ r \in Nat /\ e \in Nat /\ cur \in Nat /\ INPUT_BUF \in Nat
      /\ r <= w /\ cur \in w..e /\ w \in w..e /\ session = "careful"
      /\ clip \in Seq(Letters) /\ (mark = -1 \/ w <= mark)
  BY <1>2, Indices DEF Careful, ConsIInv, ConsTyped, LineInOrder
<1>5. CASE same
  <2>1. UNCHANGED <<buf, e, cur, ops, lost, session>>
    BY <1>5 DEF Tab
  <2>2. QED
    BY <1>1, <1>3, <1>4, <2>1, LineUntouched
<1>6. CASE ~same
  <2>1. /\ buf' = Put(buf, w, new) /\ e' = w + Len(new) /\ cur' = e' /\ NotLogged
        /\ Carefully(w + Len(new) - r < INPUT_BUF)
    BY <1>6 DEF Tab
  <2>2. new \in Seq(Letters) /\ Len(new) \in Nat
    <3>1. matches \in SUBSET Seq(Letters) /\ Blank \in Letters
      BY ConsoleAssumption DEF ConsoleAssumption
    <3>2. matches # {}
      BY <1>6
    <3>3. longest \in Seq(Letters)
      <4> HIDE DEF matches
      <4> QED BY <3>1, <3>2, PrefixType
    <3> HIDE DEF longest, matches
    <3>4. QED
      BY <3>1, <3>3
  <2> HIDE DEF new
  <2>3. buf' \in [0..INPUT_BUF - 1 -> Cells]
    <3>1. Letters \subseteq Cells
      BY DEF Cells
    <3>2. new \in Seq(Cells)
      BY <2>2, <3>1, SeqMonotonic
    <3>3. buf \in [0..INPUT_BUF - 1 -> Cells] /\ w \in Int
      BY <1>2, Indices
    <3>4. QED
      BY <2>1, <3>2, <3>3, PutType
  <2>4. /\ ops' \in Seq(Change) /\ Len(ops') <= HISTORY_BUF /\ lost' \in 0..Len(ops')
        /\ Undoable'
    BY <1>4, <2>1, <2>2, NotLoggedUndoable
  <2>5. ConsTyped'
    BY <1>1, <1>2, <1>3, <1>4, <2>1, <2>2, <2>3, <2>4 DEF ConsIInv, ConsTyped, Carefully
  <2>6. ASSUME Careful' PROVE LineInOrder'
    <3>1. w + Len(new) - r < INPUT_BUF
      BY <2>1, <2>6 DEF Carefully, Careful
    <3>2. w <= cur' /\ cur' <= e' /\ e' < r + INPUT_BUF /\ w + Len(new) <= w + INPUT_BUF
      BY <1>4, <2>1, <2>2, <3>1
    <3>3. \A j \in w..w + Len(new) - 1 : Put(buf, w, new)[j % INPUT_BUF] \in Letters
      BY <1>2, <1>4, <2>2, <3>2, LinePut
    <3>4. \A j \in w..e' - 1 : buf'[j % INPUT_BUF] \in Letters
      <4>1. Put(buf, w, new) = buf'
        BY <2>1
      <4>2. e' = w + Len(new) /\ e' \in Int /\ w \in Int /\ Len(new) \in Int
        BY <1>4, <2>1, <2>2
      <4>3. w..e' - 1 = w..w + Len(new) - 1
        BY <4>2
      <4>4. QED
        BY <3>3, <4>1, <4>3
    <3>5. e' <= r + INPUT_BUF
      BY <1>4, <2>1, <2>2, <3>2
    <3>6. QED
      BY <1>2, <1>3, <1>4, <3>2, <3>4, <3>5 DEF LineInOrder, Ch
  <2>7. QED
    BY <1>2, <2>4, <2>5, <2>6 DEF ConsIInv
<1>7. QED
  BY <1>5, <1>6

\* The arrow keys move the cursor within the line.
LEMMA MoveStep ==
  ASSUME ConsIInv, Move
  PROVE  ConsIInv'
<1>1. Key /\ Keeps /\ UNCHANGED <<buf, e, mark, sel, clip, ops, lost, session>>
  BY DEF Move
<1>2. Careful /\ UNCHANGED <<r, w, rd>>
  BY <1>1, KeepsSent
<1>3. /\ w \in Nat /\ e \in Nat /\ cur \in w..e /\ w <= e
      /\ mark \in Int /\ sel \in Int \X Int /\ clip \in Seq(Letters)
      /\ session = "careful" /\ (mark = -1 \/ w <= mark)
      /\ (sel # NoSel => w <= sel[1] /\ sel[1] < sel[2] /\ sel[2] <= e)
  BY <1>2, Indices DEF ConsIInv, ConsTyped, LineInOrder, Careful
<1>4. EffectiveEnd \in w..e
  <2> DEFINE K == {w} \cup {i + 1 : i \in {j \in w..e - 1 : Ch(j) # Blank}}
  <2>1. K \in SUBSET (w..e) /\ K # {} /\ w \in Int /\ e \in Int
    BY <1>3
  <2>2. Max(K) \in K
    <3> HIDE DEF K
    <3> QED BY <2>1, Greatest
  <2>3. QED
    BY <2>1, <2>2 DEF EffectiveEnd
<1>5. \A i \in w..e : \A S : SkipUp(i, S) \in w..e
  <2> SUFFICES ASSUME NEW i \in w..e, NEW S PROVE SkipUp(i, S) \in w..e
    OBVIOUS
  <2> DEFINE K == {j \in i..e : j = e \/ Ch(j) \notin S}
  <2>1. K \in SUBSET (w..e) /\ K # {} /\ w \in Int /\ e \in Int
    <3>1. e \in i..e /\ \A j \in i..e : j \in w..e
      BY <1>3
    <3>2. w \in Int /\ e \in Int
      BY <1>3
    <3>3. K \subseteq w..e /\ K # {}
      BY <3>1
    <3>4. QED
      BY <3>2, <3>3
  <2>2. Min(K) \in K
    <3> HIDE DEF K
    <3> QED BY <2>1, Lowest
  <2>3. QED
    BY <2>1, <2>2 DEF SkipUp
<1>6. \A i \in w..e : \A S : SkipDown(i, S) \in w..e
  <2> SUFFICES ASSUME NEW i \in w..e, NEW S PROVE SkipDown(i, S) \in w..e
    OBVIOUS
  <2> DEFINE K == {j \in w..i : j = w \/ Ch(j - 1) \notin S}
  <2>1. K \in SUBSET (w..e) /\ K # {} /\ w \in Int /\ e \in Int
    <3>1. w \in w..i /\ \A j \in w..i : j \in w..e
      BY <1>3
    <3>2. w \in Int /\ e \in Int
      BY <1>3
    <3>3. K \subseteq w..e /\ K # {}
      BY <3>1
    <3>4. QED
      BY <3>2, <3>3
  <2>2. Max(K) \in K
    <3> HIDE DEF K
    <3> QED BY <2>1, Greatest
  <2>3. QED
    BY <2>1, <2>2 DEF SkipDown
<1>7. cur' \in w..e
  <2>1. CASE cur > EffectiveEnd /\ cur' = EffectiveEnd
    BY <1>4, <2>1
  <2>2. CASE cur <= EffectiveEnd /\ cur > w /\ cur' = cur - 1
    BY <1>3, <2>2
  <2>3. CASE cur < EffectiveEnd /\ cur' = cur + 1
    BY <1>3, <1>4, <2>3
  <2>4. CASE cur' = SkipUp(SkipUp(cur, Word), {Blank})
    BY <1>3, <1>5, <2>4
  <2>5. CASE cur' = SkipDown(SkipDown(cur, {Blank}), Word)
    BY <1>3, <1>6, <2>5
  <2>6. QED
    BY <2>1, <2>2, <2>3, <2>4, <2>5 DEF Move
<1>8. cur' \in Int /\ w <= cur' /\ cur' <= e
  BY <1>3, <1>7
<1>9. QED
  BY <1>1, <1>3, <1>8, LineUntouched

\* What Front() returns.
LEMMA FrontType ==
  ASSUME NEW S, NEW s \in Seq(S), s # <<>>
  PROVE  /\ Front(s) \in Seq(S) /\ Len(Front(s)) = Len(s) - 1
         /\ \A i \in 1..Len(s) - 1 : Front(s)[i] = s[i]
<1> DEFINE m == Len(s) - 1
<1>1. m \in Nat /\ m <= Len(s) /\ Len(s) \in Nat
  OBVIOUS
<1>2. Front(s) = SubSeq(s, 1, m)
  BY DEF Front
<1> HIDE DEF m
<1>3. SubSeq(s, 1, m) \in Seq(S) /\ Len(SubSeq(s, 1, m)) = m /\ \A i \in 1..m : SubSeq(s, 1, m)[i] = s[i]
  BY <1>1
<1>4. QED
  BY <1>2, <1>3 DEF m

\* The history without its last entry.
LEMMA Popped ==
  ASSUME ConsTyped, ops # <<>>, ops' = Front(ops), lost < Len(ops), lost' = lost,
         UNCHANGED <<r, w>>, NEW ends \in [lost..Len(ops) -> Int],
         UndoesTo(ends, ops, lost, e, w, r + INPUT_BUF), e' = ends[Len(ops) - 1]
  PROVE  Undoable'
<1> DEFINE n == Len(ops)
           less == [i \in lost..n - 1 |-> ends[i]]
<1>1. /\ n \in Nat /\ lost \in Nat /\ Len(ops') = n - 1
      /\ \A i \in 1..n - 1 : ops'[i] = ops[i]
  <2>1. ops \in Seq(Change) /\ lost \in 0..n
    BY DEF ConsTyped
  <2>2. QED
    BY <2>1, FrontType
<1>2. \A i \in lost..n - 1 : i \in lost..n
  BY <1>1
<1>3. less \in [lost'..Len(ops') -> Int] /\ less[n - 1] = e'
  <2>1. n - 1 \in lost..n - 1
    BY <1>1
  <2>2. less \in [lost..n - 1 -> Int] /\ less[n - 1] = ends[n - 1]
    BY <1>2, <2>1
  <2> HIDE DEF less
  <2>3. QED
    BY <1>1, <2>2
<1>4. ASSUME NEW i \in lost + 1..n - 1
      PROVE  Leads(ops'[i], less[i - 1], less[i], w, r + INPUT_BUF)
  <2>1. i \in 1..n - 1 /\ i \in lost + 1..n /\ i \in lost..n - 1 /\ i - 1 \in lost..n - 1
    BY <1>1
  <2>2. less[i] = ends[i] /\ less[i - 1] = ends[i - 1] /\ ops'[i] = ops[i]
    BY <1>1, <2>1
  <2>3. Leads(ops[i], ends[i - 1], ends[i], w, r + INPUT_BUF)
    BY <2>1 DEF UndoesTo
  <2>4. QED
    BY <2>2, <2>3
<1> HIDE DEF less
<1>5. UndoesTo(less, ops', lost', e', w', r' + INPUT_BUF)
  BY <1>1, <1>3, <1>4 DEF UndoesTo
<1>6. QED
  BY <1>3, <1>5 DEF Undoable

\* ^Z takes the last change back: the history says where the line ended before it.
LEMMA UndoStep ==
  ASSUME ConsIInv, Undo
  PROVE  ConsIInv'
<1> DEFINE n == Len(ops)
           op == ops[n]
           none == ops = <<>> \/ (op.type = "delete" /\ Unread >= INPUT_BUF)
           later == Bytes(buf, op.pos + 1, e + 1)
           back == <<op.c>> \o Bytes(buf, op.pos, e)
<1>1. Key /\ Keeps /\ ClearSelection /\ UNCHANGED clip
  BY DEF Undo
<1>2. SentInOrder' /\ Careful /\ UNCHANGED <<r, w, rd>> /\ keys' \in Nat
  BY <1>1, KeepsSent
<1>3. sel' \in Int \X Int /\ sel' = NoSel /\ mark' \in Int /\ mark' \in {mark, -1}
  BY <1>1, ClearType DEF ConsIInv
<1>4. /\ w \in Nat /\ r \in Nat /\ e \in Nat /\ cur \in Nat /\ INPUT_BUF \in Nat
      /\ r <= w /\ cur \in w..e /\ w <= e /\ session = "careful"
      /\ clip \in Seq(Letters) /\ (mark = -1 \/ w <= mark)
      /\ ops \in Seq(Change) /\ n \in Nat /\ n <= HISTORY_BUF /\ lost \in 0..n
      /\ buf \in [0..INPUT_BUF - 1 -> Cells]
  BY <1>2, Indices DEF Careful, ConsIInv, ConsTyped, LineInOrder
<1>5. CASE none
  <2>1. UNCHANGED <<buf, e, cur, ops, lost, session>>
    BY <1>5 DEF Undo, Last
  <2>2. QED
    BY <1>1, <1>3, <1>4, <2>1, LineUntouched
<1>6. CASE ~none
  <2>1. op \in Change /\ n > 0
    BY <1>4, <1>6
  <2>2. op.type \in {"insert", "delete"} /\ op.c \in Cells /\ op.pos \in Int
    BY <2>1 DEF Change
  <2>3. /\ ops' = Front(ops) /\ lost' = IF lost < n THEN lost ELSE n - 1
        /\ Carefully(lost < n)
        /\ op.type = "insert" => buf' = Put(buf, op.pos, later) /\ e' = e - 1 /\ cur' = op.pos
        /\ op.type = "delete" => buf' = Put(buf, op.pos, back) /\ e' = e + 1 /\ cur' = op.pos + 1
    BY <1>6, <2>2 DEF Undo, Last
  <2>a. op = ops[n]
    OBVIOUS
  <2> HIDE DEF op
  <2>4. /\ ops' \in Seq(Change) /\ Len(ops') = n - 1 /\ Len(ops') <= HISTORY_BUF
        /\ lost' \in 0..Len(ops')
    <3>1. ops' = Front(ops) /\ ops # <<>>
      BY <1>6, <2>3
    <3>2. ops' \in Seq(Change) /\ Len(ops') = n - 1
      BY <1>4, <3>1, FrontType
    <3>3. HISTORY_BUF \in Nat
      BY ConsoleAssumption DEF ConsoleAssumption
    <3>4. QED
      BY <1>4, <2>1, <2>3, <3>2, <3>3
  <2>5. later \in Seq(Cells) /\ back \in Seq(Cells)
    <3>1. op.pos + 1 \in Int /\ e + 1 \in Int /\ e \in Int
      BY <1>4, <2>2
    <3>2. later \in Seq(Cells) /\ Bytes(buf, op.pos, e) \in Seq(Cells)
      BY <1>4, <2>2, <3>1, BytesType
    <3>3. QED
      BY <2>2, <3>2
  <2>6. buf' \in [0..INPUT_BUF - 1 -> Cells] /\ e' \in Int /\ cur' \in Int
    <3> HIDE DEF later, back
    <3>1. Put(buf, op.pos, later) \in [0..INPUT_BUF - 1 -> Cells]
      BY <1>4, <2>2, <2>5, PutType
    <3>2. Put(buf, op.pos, back) \in [0..INPUT_BUF - 1 -> Cells]
      BY <1>4, <2>2, <2>5, PutType
    <3>3. QED
      BY <1>4, <2>2, <2>3, <3>1, <3>2
  <2>7. ConsTyped'
    BY <1>1, <1>2, <1>3, <1>4, <2>3, <2>4, <2>6 DEF ConsIInv, ConsTyped, Carefully
  <2>8. ASSUME Careful' PROVE LineInOrder' /\ Undoable'
    <3>1. lost < n
      BY <2>3, <2>8 DEF Carefully, Careful
    <3>2. PICK ends \in [lost..n -> Int] : UndoesTo(ends, ops, lost, e, w, r + INPUT_BUF)
      BY <1>2 DEF ConsIInv, Undoable
    <3>3. Leads(op, ends[n - 1], e, w, r + INPUT_BUF) /\ ends[n - 1] \in Int
      <4>1. n \in lost + 1..n /\ n - 1 \in lost..n
        BY <1>4, <3>1
      <4>2. QED
        BY <2>a, <3>2, <4>1 DEF UndoesTo
    <3>a. op.pos \in Int /\ e \in Int /\ w \in Int /\ r \in Int /\ INPUT_BUF \in Int
      BY <1>4, <2>2
    <3>4. CASE op.type = "insert"
      <4>1. w <= op.pos /\ op.pos < e /\ ends[n - 1] = e - 1
        BY <3>3, <3>4 DEF Leads
      <4>2. /\ Len(later) = e - op.pos
            /\ \A k \in 1..e - op.pos : later[k] = buf[(op.pos + 1 + k - 1) % INPUT_BUF]
        <5>1. op.pos + 1 \in Int /\ e + 1 \in Int /\ op.pos + 1 <= e + 1
              /\ (e + 1) - (op.pos + 1) = e - op.pos
          BY <3>a, <4>1
        <5> DEFINE i == op.pos + 1
                   j == e + 1
        <5>2. /\ Len(Bytes(buf, i, j)) = j - i
              /\ \A k \in 1..j - i : Bytes(buf, i, j)[k] = buf[(i + k - 1) % INPUT_BUF]
          <6>1. i \in Int /\ j \in Int /\ i <= j
            BY <5>1
          <6> HIDE DEF i, j
          <6>2. QED
            BY <1>4, <6>1, BytesType
        <5>3. j - i = e - op.pos
          BY <5>1
        <5>4. QED
          BY <5>2, <5>3
      <4> DEFINE m == e - op.pos - 1
      <4>3. m \in 0..Len(later) /\ \A k \in 1..m : later[k] \in Letters
        <5>1. m \in 0..Len(later)
          <6>1. m \in Nat /\ m <= e - op.pos
            BY <3>a, <4>1
          <6>2. e - op.pos \in Nat
            BY <3>a, <4>1
          <6> HIDE DEF m
          <6>3. QED
            BY <4>2, <6>1, <6>2
        <5>2. ASSUME NEW k \in 1..m PROVE later[k] \in Letters
          <6>1. k \in 1..e - op.pos /\ op.pos + 1 + k - 1 \in w..e - 1
            <7>1. op.pos \in Int /\ e \in Int /\ w \in Int /\ w <= op.pos /\ k \in Int
                  /\ 1 <= k /\ k <= e - op.pos - 1
              BY <3>a, <4>1
            <7>2. QED
              BY <7>1
          <6>2. buf[(op.pos + 1 + k - 1) % INPUT_BUF] \in Letters
            BY <1>2, <6>1, Indices
          <6>3. QED
            BY <4>2, <6>1, <6>2
        <5>3. QED
          BY <5>1, <5>2
      <4>4. \A j \in w..op.pos - 1 : buf[j % INPUT_BUF] \in Letters
        <5>1. \A j \in w..op.pos - 1 : j \in w..e - 1
          BY <1>4, <2>2, <4>1
        <5>2. QED
          BY <1>2, <5>1, Indices
      <4>5. w \in Int /\ w <= op.pos /\ op.pos + Len(later) <= w + INPUT_BUF
        <5>1. e <= r + INPUT_BUF
          BY <1>2, Indices
        <5>2. op.pos + Len(later) = e /\ r <= w /\ w \in Int /\ r \in Int /\ e \in Int
          BY <3>a, <1>4, <4>2, <2>2
        <5>3. INPUT_BUF \in Int /\ e <= w + INPUT_BUF
          BY <1>4, <5>1, <5>2
        <5>4. QED
          BY <4>1, <5>2, <5>3
      <4>6. \A j \in w..op.pos + m - 1 : Put(buf, op.pos, later)[j % INPUT_BUF] \in Letters
        <5> HIDE DEF later, m
        <5> QED BY <1>4, <2>2, <2>5, <4>3, <4>4, <4>5, PutLine
      <4>7. /\ e' = e - 1 /\ cur' = op.pos /\ buf' = Put(buf, op.pos, later)
            /\ op.pos + m - 1 = e' - 1
        BY <1>4, <2>2, <2>3, <3>4
      <4>8. \A j \in w..e' - 1 : buf'[j % INPUT_BUF] \in Letters
        BY <4>6, <4>7
      <4>9. w <= cur' /\ cur' <= e' /\ e' <= r + INPUT_BUF /\ (w < e' => e' < r + INPUT_BUF)
        <5>1. e <= r + INPUT_BUF
          BY <1>2, Indices
        <5>2. QED
          BY <1>4, <2>2, <4>1, <4>7, <5>1
      <4>10. LineInOrder'
        BY <1>2, <1>3, <1>4, <4>8, <4>9 DEF LineInOrder, Ch
      <4>11. Undoable'
        <5>1. ConsTyped /\ ops # <<>> /\ lost' = lost /\ e' = ends[n - 1]
          BY <1>6, <2>3, <3>1, <4>1, <4>7 DEF ConsIInv
        <5>2. QED
          BY <1>2, <2>3, <3>1, <3>2, <5>1, Popped
      <4>12. QED
        BY <4>10, <4>11
    <3>5. CASE op.type = "delete"
      <4>1. /\ w <= op.pos /\ op.pos <= e /\ ends[n - 1] = e + 1 /\ e + 1 < r + INPUT_BUF
            /\ op.c \in Letters
        BY <3>3, <3>5 DEF Leads
      <4>2. op.pos \in w..e /\ e \in op.pos..e
        BY <1>4, <2>2, <4>1
      <4>3. Bytes(buf, op.pos, e) \in Seq(Letters) /\ Len(Bytes(buf, op.pos, e)) = e - op.pos
        BY <1>2, <4>2, LinePart
      <4>4. back \in Seq(Letters) /\ Len(back) = 1 + (e - op.pos)
        BY <4>1, <4>3
      <4> HIDE DEF back
      <4>5. /\ e' = e + 1 /\ cur' = op.pos + 1 /\ buf' = Put(buf, op.pos, back)
            /\ op.pos + Len(back) = e' /\ op.pos + Len(back) <= w + INPUT_BUF
        <5>1. e' = e + 1 /\ cur' = op.pos + 1 /\ buf' = Put(buf, op.pos, back)
          BY <2>3, <3>5
        <5>2. op.pos + Len(back) = e'
          BY <3>a, <4>4, <5>1
        <5>3. e' <= w + INPUT_BUF
          BY <1>4, <4>1, <5>1
        <5>4. QED
          BY <5>1, <5>2, <5>3
      <4>6. \A j \in w..op.pos + Len(back) - 1 : Put(buf, op.pos, back)[j % INPUT_BUF] \in Letters
        BY <1>2, <4>2, <4>4, <4>5, LinePut
      <4>7. \A j \in w..e' - 1 : buf'[j % INPUT_BUF] \in Letters
        <5>1. e' = op.pos + Len(back) /\ e' \in Int /\ Len(back) \in Int /\ w \in Int
          BY <2>6, <3>a, <4>4, <4>5
        <5>2. w..e' - 1 = w..op.pos + Len(back) - 1
          BY <3>a, <5>1
        <5>3. QED
          BY <4>5, <4>6, <5>2
      <4>8. w <= cur' /\ cur' <= e' /\ e' <= r + INPUT_BUF /\ e' < r + INPUT_BUF
        <5>1. e' = e + 1 /\ cur' = op.pos + 1
          BY <4>5
        <5>2. op.pos \in Int /\ w <= op.pos /\ op.pos <= e
          BY <2>2, <4>1
        <5>3. w \in Int /\ e \in Int /\ r \in Int /\ INPUT_BUF \in Int
          BY <1>4
        <5>4. e + 1 < r + INPUT_BUF
          BY <4>1
        <5> HIDE DEF n
        <5>5. QED
          BY <5>1, <5>2, <5>3, <5>4
      <4>9. LineInOrder'
        BY <1>2, <1>3, <1>4, <4>7, <4>8 DEF LineInOrder, Ch
      <4>10. Undoable'
        <5>1. ConsTyped /\ ops # <<>> /\ lost' = lost /\ e' = ends[n - 1]
          BY <1>6, <2>3, <3>1, <4>1, <4>5 DEF ConsIInv
        <5>2. QED
          BY <1>2, <2>3, <3>1, <3>2, <5>1, Popped
      <4>11. QED
        BY <4>9, <4>10
    <3>6. QED
      BY <2>2, <3>4, <3>5
  <2>9. QED
    BY <1>2, <2>7, <2>8 DEF ConsIInv
<1>7. QED
  BY <1>5, <1>6

\* A character, Enter among them.
LEMMA TypeStep ==
  ASSUME ConsIInv, NEW c \in Letters \cup {"\n"}, Type(c)
  PROVE  ConsIInv'
<1> DEFINE b == IF sel = NoSel THEN buf ELSE Squeezed
           k == IF sel = NoSel THEN cur ELSE sel[1]
           end == IF sel = NoSel THEN e ELSE e - (sel[2] - sel[1])
           stale == IF sel = NoSel THEN lost ELSE Len(ops)
           tail == Bytes(b, k, end)
           s == <<c>> \o tail
           op == [type |-> "insert", c |-> c, pos |-> k]
           sends == c = "\n" \/ end + 1 = r + INPUT_BUF
<1>1. Key /\ Unread < INPUT_BUF
  BY DEF Type
<1>2. Careful /\ r' = r /\ keys' \in Nat
  BY <1>1 DEF Key, Careful, ConsIInv, ConsTyped
<1>3. CASE sel # NoSel /\ ~TailMoves
  <2>1. Overrun /\ Keeps
    BY <1>3 DEF Type
  <2>2. QED
    BY <1>1, <2>1, OverrunStep
<1>4. CASE ~(sel # NoSel /\ ~TailMoves)
  <2>1. /\ buf' = Put(b, k, s) /\ e' = end + 1 /\ cur' = k + 1 /\ sel' = NoSel
        /\ UNCHANGED clip
        /\ sends => /\ mark' = -1 /\ ops' = <<>> /\ lost' = 0 /\ w' = end + 1
                    /\ rd' = Wake /\ Carefully(k = end)
        /\ ~sends => /\ Log(<<op>>, stale) /\ mark' = IF sel = NoSel THEN mark ELSE -1
                     /\ Keeps /\ UNCHANGED session
    BY <1>4 DEF Type
  <2>2. /\ w \in Nat /\ r \in Nat /\ e \in Nat /\ INPUT_BUF \in Nat /\ r <= w
        /\ e - r < INPUT_BUF
    BY <1>1, <1>2, Indices DEF Unread
  <2>3. /\ b \in [0..INPUT_BUF - 1 -> Cells] /\ k \in w..end /\ end \in w..e
        /\ \A j \in w..end - 1 : b[j % INPUT_BUF] \in Letters
        /\ stale \in 0..Len(ops)
    <3>1. CASE sel = NoSel
      <4>1. b = buf /\ k = cur /\ end = e /\ stale = lost
        BY <3>1
      <4>2. /\ buf \in [0..INPUT_BUF - 1 -> Cells] /\ cur \in w..e
            /\ \A j \in w..e - 1 : buf[j % INPUT_BUF] \in Letters
        BY <1>2, Indices
      <4>3. e \in w..e /\ lost \in 0..Len(ops)
        BY <2>2, <4>2 DEF ConsIInv, ConsTyped
      <4>4. QED
        BY <4>1, <4>2, <4>3
    <3>2. CASE sel # NoSel
      <4>1. b = Squeezed /\ k = sel[1] /\ end = e - (sel[2] - sel[1]) /\ stale = Len(ops)
        BY <3>2
      <4>2. sel[1] \in w..e /\ sel[2] \in sel[1]..e
        BY <1>2, <3>2, Selected
      <4> HIDE DEF b, k, end, stale
      <4>3. k \in w..end /\ end \in w..e
        <5> DEFINE i == sel[1]
                   j == sel[2]
        <5>1. i \in w..e /\ j \in i..e /\ k = i /\ end = e - (j - i)
          BY <4>1, <4>2
        <5> HIDE DEF i, j
        <5>2. QED
          BY <2>2, <5>1
      <4>4. Squeezed \in [0..INPUT_BUF - 1 -> Cells] /\ \A j \in w..end - 1 : Squeezed[j % INPUT_BUF] \in Letters
        BY <1>2, <3>2, <4>1, WithoutSelection
      <4>5. Len(ops) \in 0..Len(ops)
        BY DEF ConsIInv, ConsTyped
      <4>6. QED
        BY <4>1, <4>3, <4>4, <4>5
    <3>3. QED
      BY <3>1, <3>2
  <2> HIDE DEF b, k, end
  <2>4. k \in Nat /\ end \in Nat /\ k <= end /\ w <= k /\ end <= e
    BY <2>2, <2>3
  <2>5. tail \in Seq(Letters) /\ Len(tail) = end - k
    <3>1. \A j \in k..end - 1 : j \in w..end - 1
      BY <2>2, <2>4
    <3>2. \A j \in k..end - 1 : b[j % INPUT_BUF] \in Letters
      BY <2>3, <3>1
    <3>3. k \in Int /\ end \in Int
      BY <2>4
    <3>4. QED
      BY <2>3, <2>4, <3>2, <3>3, LineLetters, BytesType
  <2> HIDE DEF tail
  <2>6. s \in Seq(Cells) /\ Len(s) = 1 + (end - k) /\ (c \in Letters => s \in Seq(Letters))
    <3>1. Letters \cup {"\n"} \subseteq Cells
      BY DEF Cells
    <3>2. tail \in Seq(Cells)
      BY <2>5, <3>1, SeqMonotonic
    <3>3. c \in Cells
      BY <3>1
    <3>4. QED
      BY <2>5, <3>2, <3>3
  <2> HIDE DEF s
  <2>7. /\ buf' \in [0..INPUT_BUF - 1 -> Cells] /\ k + Len(s) = e' /\ e' \in Nat /\ cur' \in Nat
        /\ e' <= r + INPUT_BUF
    <3>1. k \in Int
      BY <2>4
    <3>2. Put(b, k, s) \in [0..INPUT_BUF - 1 -> Cells]
      BY <2>3, <2>6, <3>1, PutType
    <3>3. QED
      BY <2>1, <2>2, <2>4, <2>6, <3>2
  <2>8. NoSel \in Int \X Int /\ -1 \in Int
    BY DEF NoSel
  <2>9. CASE sends
    <3>1. /\ mark' = -1 /\ ops' = <<>> /\ lost' = 0 /\ w' = end + 1
          /\ rd' = Wake /\ Carefully(k = end)
      BY <2>1, <2>9
    <3>2. ops' \in Seq(Change) /\ Len(ops') = 0 /\ 0 <= HISTORY_BUF
      BY <3>1, ConsoleAssumption DEF ConsoleAssumption
    <3>3. /\ rd' \in [want : Nat, asleep : BOOLEAN, killed : BOOLEAN] /\ rd'.asleep = FALSE
      BY <3>1 DEF Wake, ConsIInv, ConsTyped
    <3>4. ConsTyped'
      BY <1>2, <2>1, <2>4, <2>7, <2>8, <3>1, <3>2, <3>3 DEF ConsIInv, ConsTyped, Carefully
    <3>5. SentInOrder'
      BY <1>2, <2>2, <2>4, <3>1, <3>3 DEF SentInOrder, ReaderNotMissed
    <3>6. Undoable'
      BY <2>7, <3>1, <3>2, NothingUndoable
    <3>7. ASSUME Careful' PROVE LineInOrder'
      <4>1. k = end
        BY <3>1, <3>7 DEF Carefully, Careful
      <4>2. w' = e' /\ cur' = e'
        BY <2>1, <3>1, <4>1
      <4>3. w'..e' - 1 = {}
        <5>1. \A i \in Nat : i..i - 1 = {}
          OBVIOUS
        <5>2. e' \in Nat
          BY <2>7
        <5>3. QED
          BY <4>2, <5>1, <5>2
      <4>4. e' <= e' /\ ~(e' < e')
        BY <2>7
      <4>5. QED
        BY <1>2, <2>1, <2>7, <3>1, <4>2, <4>3, <4>4 DEF LineInOrder, Ch
    <3>8. QED
      BY <3>4, <3>5, <3>6, <3>7 DEF ConsIInv
  <2>10. CASE ~sends
    <3>1. /\ Log(<<op>>, stale) /\ mark' = IF sel = NoSel THEN mark ELSE -1
          /\ Keeps /\ UNCHANGED session
      BY <2>1, <2>10
    <3>2. SentInOrder' /\ UNCHANGED <<r, w, rd>>
      BY <1>1, <3>1, KeepsSent
    <3>3. c \in Letters /\ end + 1 # r + INPUT_BUF
      BY <2>10
    <3>4. e' < r + INPUT_BUF
      BY <2>1, <2>2, <2>4, <2>7, <3>3
    <3>5. \A j \in w..e' - 1 : buf'[j % INPUT_BUF] \in Letters
      <4>1. s \in Seq(Letters) /\ Len(s) \in 0..Len(s) /\ \A i \in 1..Len(s) : s[i] \in Letters
        BY <2>6, <3>3
      <4>2. k \in Int /\ w \in Int /\ w <= k /\ k + Len(s) <= w + INPUT_BUF
        BY <2>2, <2>4, <2>7
      <4>3. \A j \in w..k - 1 : b[j % INPUT_BUF] \in Letters
        <5>1. \A j \in w..k - 1 : j \in w..end - 1
          BY <2>2, <2>4
        <5>2. QED
          BY <2>3, <5>1
      <4>4. \A j \in w..k + Len(s) - 1 : Put(b, k, s)[j % INPUT_BUF] \in Letters
        BY <2>3, <2>6, <4>1, <4>2, <4>3, PutLine
      <4>5. w..e' - 1 = w..k + Len(s) - 1
        BY <2>7, <4>2
      <4>6. QED
        BY <2>1, <4>4, <4>5
    <3>6. op \in Change /\ op.type = "insert" /\ op.pos = k
      BY <2>4, <3>3 DEF Change, Cells
    <3> HIDE DEF op
    <3> DEFINE h == <<op>>
               f == [i \in 0..1 |-> end + i]
    <3>7. h \in Seq(Change) /\ Len(h) = 1 /\ h[1] = op
      BY <3>6
    <3>8. f \in [0..Len(h) -> Int] /\ f[Len(h)] = e' /\ f[0] = end /\ f[1] = end + 1
      <4>1. f \in [0..1 -> Int] /\ f[0] = end + 0 /\ f[1] = end + 1
        BY <2>4
      <4> HIDE DEF f, h
      <4>2. QED
        BY <2>1, <2>4, <3>7, <4>1
    <3> HIDE DEF h, f
    <3>9. \A i \in 1..Len(h) : Leads(h[i], f[i - 1], f[i], w, r + INPUT_BUF)
      <4>1. SUFFICES Leads(h[1], f[0], f[1], w, r + INPUT_BUF)
        BY <3>7
      <4>2. QED
        BY <2>4, <3>6, <3>7, <3>8 DEF Leads
    <3>10. stale = Len(ops) \/ (stale = lost /\ f[0] = e /\ Undoable)
      BY <1>2, <3>8 DEF end, ConsIInv
    <3>11. /\ ops' \in Seq(Change) /\ Len(ops') <= HISTORY_BUF /\ lost' \in 0..Len(ops')
           /\ Undoable'
      <4>1. Log(h, stale)
        BY <3>1 DEF h
      <4>2. e' \in Int /\ stale \in 0..Len(ops) /\ ConsTyped
        BY <2>3, <2>7 DEF ConsIInv
      <4> HIDE DEF stale
      <4>3. QED
        BY <3>2, <3>7, <3>8, <3>9, <3>10, <4>1, <4>2, Logged
    <3>12. mark' \in Int /\ (mark' = -1 \/ w <= mark')
      BY <1>2, <2>8, <3>1 DEF ConsIInv, ConsTyped, LineInOrder
    <3>13. ConsTyped'
      BY <1>2, <2>1, <2>7, <2>8, <3>1, <3>2, <3>11, <3>12 DEF ConsIInv, ConsTyped
    <3>14. w <= cur' /\ cur' <= e'
      BY <2>1, <2>2, <2>4
    <3>15. LineInOrder'
      BY <2>1, <2>7, <3>2, <3>4, <3>5, <3>12, <3>14 DEF LineInOrder, Ch
    <3>16. QED
      BY <3>2, <3>11, <3>13, <3>15 DEF ConsIInv
  <2>11. QED
    BY <2>9, <2>10
<1>5. QED
  BY <1>3, <1>4

-----------------------------------------------------------------------------
(* The reader. *)

\* The reader takes bytes: it goes to sleep only when it has taken them all.
LEMMA TakeStep ==
  ASSUME ConsIInv, NEW n \in Nat, Take(n)
  PROVE  ConsIInv'
<1> DEFINE K == {n, w - r} \cup {i \in 1..w - r : Ch(r + i - 1) = "\n"}
           k == Min(K)
           returns == k = n \/ (k > 0 /\ Ch(r + k - 1) = "\n") \/ rd.killed
<1>1. /\ r' = r + k
      /\ rd' = [want |-> IF returns THEN 0 ELSE n - k, asleep |-> ~returns,
                killed |-> rd.killed /\ ~returns]
      /\ UNCHANGED <<buf, e, cur, sel, clip, w, mark, ops, lost, session, keys>>
  BY DEF Take, rvars
<1>2. w \in Nat /\ r \in Nat /\ r <= w /\ rd.killed \in BOOLEAN
  BY DEF ConsIInv, ConsTyped, SentInOrder
<1>3. k \in K /\ k \in Nat /\ k <= n /\ k <= w - r
  <2> DEFINE top == IF n <= w - r THEN w - r ELSE n
  <2>1. K \in SUBSET (0..top) /\ K # {} /\ 0 \in Int /\ top \in Int
    BY <1>2
  <2>2. n \in K /\ w - r \in K
    OBVIOUS
  <2> HIDE DEF K, top
  <2>3. k \in K /\ \A i \in K : k <= i
    BY <2>1, Lowest
  <2>4. k \in 0..top
    BY <2>1, <2>3
  <2>5. k \in Nat
    BY <2>1, <2>4
  <2>6. k <= n /\ k <= w - r /\ k \in K
    <3> HIDE DEF k
    <3> QED BY <2>2, <2>3
  <2>7. QED
    BY <2>5, <2>6
<1>4. ASSUME ~returns PROVE k = w - r
  BY <1>2, <1>3, <1>4
<1> HIDE DEF k, K
<1>5. r' \in Nat /\ r <= r' /\ r' <= w
  BY <1>1, <1>2, <1>3
<1>6. SentInOrder'
  <2>1. CASE returns
    BY <1>1, <1>5, <2>1 DEF SentInOrder, ReaderNotMissed
  <2>2. CASE ~returns
    BY <1>1, <1>2, <1>4, <1>5, <2>2 DEF SentInOrder, ReaderNotMissed
  <2>3. QED
    BY <2>1, <2>2
<1>7. rd' \in [want : Nat, asleep : BOOLEAN, killed : BOOLEAN]
  <2>1. n - k \in Nat /\ 0 \in Nat
    BY <1>3
  <2>2. returns \in BOOLEAN
    BY <1>2
  <2> HIDE DEF returns
  <2>3. QED
    BY <1>1, <1>2, <2>1, <2>2
<1>8. ConsTyped'
  BY <1>1, <1>5, <1>7 DEF ConsIInv, ConsTyped
<1>9. ASSUME Careful' PROVE LineInOrder' /\ Undoable'
  <2>1. Careful /\ LineInOrder /\ Undoable
    BY <1>1, <1>9 DEF Careful, ConsIInv
  <2>2. e <= r' + INPUT_BUF /\ (w < e => e < r' + INPUT_BUF)
    <3>1. /\ r \in Nat /\ e \in Nat /\ INPUT_BUF \in Nat /\ e <= r + INPUT_BUF
          /\ (w < e => e < r + INPUT_BUF)
      BY <2>1, Indices
    <3>2. PICK i \in Int : r' = i /\ r <= i
      BY <1>5
    <3>3. QED
      BY <3>1, <3>2
  <2>3. LineInOrder'
    BY <1>1, <2>1, <2>2 DEF LineInOrder, Ch
  <2>4. Undoable'
    BY <1>1, <1>5, <2>1, RoomForUndo DEF ConsIInv
  <2>5. QED
    BY <2>3, <2>4
<1>10. QED
  BY <1>6, <1>8, <1>9 DEF ConsIInv

\* A call of consoleread(), a wakeup of it, or a kill() of the process in it.
LEMMA ReaderStep ==
  ASSUME ConsIInv, Read \/ ReadOn \/ KillReader
  PROVE  ConsIInv'
<1>1. CASE Read
  BY <1>1, TakeStep, ConsoleAssumption DEF Read, ConsoleAssumption
<1>2. CASE ReadOn
  BY <1>2, TakeStep DEF ReadOn, ConsIInv, ConsTyped
<1>3. CASE KillReader
  <2>1. /\ rd' = [rd EXCEPT !.asleep = FALSE, !.killed = TRUE]
        /\ UNCHANGED <<buf, e, cur, sel, clip, r, w, mark, ops, lost, session, keys>>
    BY <1>3 DEF KillReader, rvars
  <2>2. rd' \in [want : Nat, asleep : BOOLEAN, killed : BOOLEAN] /\ rd'.asleep = FALSE
    BY <2>1 DEF ConsIInv, ConsTyped
  <2>3. ConsTyped'
    BY <2>1, <2>2 DEF ConsIInv, ConsTyped
  <2>4. SentInOrder'
    BY <2>1, <2>2 DEF ConsIInv, SentInOrder, ReaderNotMissed
  <2>5. Careful' => LineInOrder' /\ Undoable'
    BY <2>1 DEF ConsIInv, Careful, LineInOrder, Undoable, Ch
  <2>6. QED
    BY <2>3, <2>4, <2>5 DEF ConsIInv
<1>4. QED
  BY <1>1, <1>2, <1>3

-----------------------------------------------------------------------------

\* The invariant holds for the empty console.
LEMMA ConsoleStarts ==
  ASSUME ConsInit
  PROVE  ConsIInv
<1>1. INPUT_BUF \in Nat /\ INPUT_BUF > 0 /\ HISTORY_BUF \in Nat /\ r \in Nat
  BY ConsoleAssumption DEF ConsInit, ConsoleAssumption
<1>2. ConsTyped
  <2>1. buf \in [0..INPUT_BUF - 1 -> Cells]
    BY DEF ConsInit, Cells
  <2>2. ops \in Seq(Change) /\ Len(ops) = 0 /\ clip \in Seq(Letters) /\ lost = 0
    BY DEF ConsInit
  <2>3. QED
    BY <1>1, <2>1, <2>2 DEF ConsInit, ConsTyped, NoSel
<1>3. SentInOrder
  BY <1>1 DEF ConsInit, SentInOrder, ReaderNotMissed
<1>4. LineInOrder
  <2>1. w = r /\ e = r /\ cur = r /\ r <= r /\ ~(r < r) /\ r <= r + INPUT_BUF /\ r..r - 1 = {}
    BY <1>1 DEF ConsInit
  <2>2. QED
    BY <2>1 DEF ConsInit, LineInOrder
<1>5. Undoable
  <2> DEFINE ends == [i \in 0..0 |-> e]
  <2>1. ops = <<>> /\ lost = 0 /\ e \in Int /\ Len(ops) = 0
    BY <1>1 DEF ConsInit
  <2>2. ends \in [lost..Len(ops) -> Int] /\ UndoesTo(ends, ops, lost, e, w, r + INPUT_BUF)
    BY <2>1 DEF UndoesTo
  <2>3. QED
    BY <2>2 DEF Undoable
<1>6. QED
  BY <1>2, <1>3, <1>4, <1>5 DEF ConsIInv

\* Every key and every step of the reader keeps the invariant.
LEMMA ConsoleNext ==
  ASSUME ConsIInv, [ConsNext]_consvars
  PROVE  ConsIInv'
<1>1. CASE ConsNext
  BY <1>1, EraseLineStep, DeleteSelectionStep, BackspaceStep, SelectionStep, PasteStep,
     TabStep, MoveStep, UndoStep, TypeStep, ReaderStep DEF ConsNext
<1>2. CASE UNCHANGED consvars
  <2>1. UNCHANGED <<buf, e, cur, sel, clip, r, w, mark, ops, lost, rd, session, keys>>
    BY <1>2 DEF consvars, rvars
  <2>2. ConsTyped'
    BY <2>1 DEF ConsIInv, ConsTyped
  <2>3. SentInOrder'
    BY <2>1 DEF ConsIInv, SentInOrder, ReaderNotMissed
  <2>4. Careful' => LineInOrder' /\ Undoable'
    BY <2>1 DEF ConsIInv, Careful, LineInOrder, Undoable, Ch
  <2>5. QED
    BY <2>2, <2>3, <2>4 DEF ConsIInv
<1>3. QED
  BY <1>1, <1>2

\* The invariant holds in every reachable state.
LEMMA ConsoleInvariant == ConsSpec => []ConsIInv
<1>1. ConsInit => ConsIInv
  BY ConsoleStarts
<1>2. ConsIInv /\ [ConsNext]_consvars => ConsIInv'
  BY ConsoleNext
<1>3. QED
  BY <1>1, <1>2, PTL DEF ConsSpec

\* No lost wakeup of consoleread(): while the reader is asleep there is nothing it
\* could take, however the bytes were typed, sent and erased.
THEOREM ReaderAwake == ConsSpec => []ReaderNotMissed
<1>1. ConsIInv => ReaderNotMissed
  BY DEF ConsIInv, SentInOrder
<1>2. QED
  BY <1>1, ConsoleInvariant, PTL

\* consoleintr() keeps r <= w <= mouse_pos <= e within one turn of the ring, the
\* selection in the line and newlines out of it, as long as the user is careful.
THEOREM RingInOrder == ConsSpec => []IndicesOrdered
<1>1. ConsIInv => IndicesOrdered
  <2> SUFFICES ASSUME ConsIInv PROVE IndicesOrdered
    OBVIOUS
  <2>1. ConsTypeOK
    <3>1. Range(clip) \subseteq Letters /\ {op.type : op \in Range(ops)} \subseteq {"insert", "delete"}
      <4>1. \A i \in DOMAIN clip : clip[i] \in Letters
        BY DEF ConsIInv, ConsTyped
      <4>2. \A i \in DOMAIN ops : ops[i].type \in {"insert", "delete"}
        <5>1. ops \in Seq(Change)
          BY DEF ConsIInv, ConsTyped
        <5>2. \A i \in DOMAIN ops : ops[i] \in Change
          BY <5>1
        <5>3. QED
          BY <5>2 DEF Change
      <4>3. QED
        BY <4>1, <4>2 DEF Range
    <3>2. lost \in Nat /\ sel[1] \in Int /\ sel[2] \in Int
      BY DEF ConsIInv, ConsTyped
    <3>3. QED
      BY <3>1, <3>2 DEF ConsIInv, ConsTyped, ConsTypeOK, Cells
  <2>2. ASSUME Careful
        PROVE  /\ 0 <= r /\ r <= w /\ w <= cur /\ cur <= e
               /\ e < r + INPUT_BUF + (IF w = e THEN 1 ELSE 0)
               /\ sel # NoSel => w <= sel[1] /\ sel[1] < sel[2] /\ sel[2] <= e
               /\ "\n" \notin Range(Bytes(buf, w, e))
    <3>1. /\ w \in Nat /\ r \in Nat /\ e \in Nat /\ INPUT_BUF \in Nat /\ r <= w
          /\ cur \in w..e /\ e <= r + INPUT_BUF /\ (w < e => e < r + INPUT_BUF)
          /\ w \in w..e /\ e \in w..e
      BY <2>2, Indices
    <3>2. e < r + INPUT_BUF + (IF w = e THEN 1 ELSE 0)
      BY <3>1
    <3>3. Bytes(buf, w, e) \in Seq(Letters)
      BY <2>2, <3>1, LinePart
    <3>4. "\n" \notin Range(Bytes(buf, w, e))
      BY <3>3, ConsoleAssumption, RangeOfSeq DEF ConsoleAssumption
    <3>5. sel # NoSel => w <= sel[1] /\ sel[1] < sel[2] /\ sel[2] <= e
      BY <2>2 DEF ConsIInv, LineInOrder
    <3>6. QED
      BY <3>1, <3>2, <3>4, <3>5
  <2>3. QED
    BY <2>1, <2>2 DEF IndicesOrdered
<1>2. QED
  BY <1>1, ConsoleInvariant, PTL
=============================================================================
