------------------------------- MODULE Console -------------------------------
(***************************************************************************)
(* The console of LAB4/codes/console.c: the ring of INPUT_BUF bytes with   *)
(* its free-running indices r <= w <= e, the cursor mouse_pos, selection,  *)
(* clipboard, undo history and completion of consoleintr(), and the reader *)
(* in consoleread().  What is drawn on the screen is left out.             *)
(*                                                                         *)
(* One action is one key, which consoleintr() handles under cons.lock, or  *)
(* what consoleread() does under that lock until it sleeps or returns.     *)
(* Some keys, pressed in some states, leave what the editor promises: they *)
(* act as the code does, `session' records it, and the user stops there.   *)
(***************************************************************************)
EXTENDS Integers, Sequences, SequencesExt

Blank == " "

CONSTANTS
  Letters,      \* the keys that are characters, Blank among them
  Commands,     \* dynamic_command_ptrs[]: the names the shell registered
  INPUT_BUF, HISTORY_BUF,
  ReadSizes,    \* the n of consoleread()
  Starts,       \* how many empty lines may have been sent and read before
  MaxKeys       \* bound: how many keys are pressed

ASSUME ConsoleAssumption ==
  /\ Blank \in Letters /\ "\n" \notin Letters /\ Commands \subseteq Seq(Letters)
  /\ INPUT_BUF \in Nat \ {0} /\ HISTORY_BUF \in Nat /\ MaxKeys \in Nat
  /\ ReadSizes \subseteq Nat \ {0} /\ Starts \subseteq 0..INPUT_BUF

VARIABLES
  buf, r, w, e, \* input.buf, input.r, input.w, input.e
  cur,          \* input.mouse_pos
  mark, sel,    \* selection_mark, and <<selection_start, selection_end>>
  clip,         \* clipboard_buf[0..clipboard_len-1]
  ops,          \* history.ops[0..h_index-1]
  lost,         \* history variable: the first `lost' ops precede a change that is not in ops
  rd,           \* the reader: bytes it wants (0: not in a call), asleep, killed
  session,      \* "careful", or how the user left what the editor promises
  keys          \* how many keys were pressed

rvars == <<buf, e, cur, sel, clip>>
consvars == <<rvars, r, w, mark, ops, lost, rd, session, keys>>

Bytes(b, i, j) == [k \in 1..j - i |-> b[(i + k - 1) % INPUT_BUF]]
Ch(i) == buf[i % INPUT_BUF]

\* b with s written from index i on; of two bytes for a cell the last one stays.
Put(b, i, s) ==
  [c \in DOMAIN b |->
     LET K == {k \in 1..Len(s) : (i + k - 1) % INPUT_BUF = c}
     IN IF K = {} THEN b[c] ELSE s[Max(K)]]

NoSel == <<-1, -1>>
Unread == e - r

ConsInit ==
  /\ r \in Starts /\ w = r /\ e = r /\ cur = r
  /\ buf = [c \in 0..INPUT_BUF - 1 |-> IF c < r THEN "\n" ELSE "0"]
  /\ mark = -1 /\ sel = NoSel /\ clip = <<>>
  /\ ops = <<>> /\ lost = 0
  /\ rd = [want |-> 0, asleep |-> FALSE, killed |-> FALSE]
  /\ session = "careful" /\ keys = 0

\* clear_selection_highlight(), which keeps the mark when nothing is selected.
ClearSelection ==
  /\ sel' = NoSel
  /\ mark' = IF sel = NoSel THEN mark ELSE -1

Entry(type, i) == [type |-> type, c |-> Ch(i), pos |-> i]

\* log_op() for each entry of s: what does not fit is dropped.
Log(s, stale) ==
  LET full == Len(ops) + Len(s) > HISTORY_BUF
  IN /\ ops' = SubSeq(ops \o s, 1, IF full THEN HISTORY_BUF ELSE Len(ops) + Len(s))
     /\ lost' = IF full THEN HISTORY_BUF ELSE stale

NotLogged == ops' = ops /\ lost' = Len(ops)

Carefully(rule) == session' = IF rule THEN "careful" ELSE "careless"
Key == session = "careful" /\ keys < MaxKeys /\ keys' = keys + 1 /\ UNCHANGED r
Keeps == UNCHANGED <<w, rd>>

\* memmove() of the tail over the selection takes addresses, not indices: it
\* is right while neither the tail nor its new place crosses the end of buf.
TailMoves ==
  LET n == e - sel[2]
  IN n >= 0 /\ (sel[1] % INPUT_BUF) + n <= INPUT_BUF /\ (sel[2] % INPUT_BUF) + n <= INPUT_BUF
Squeezed == Put(buf, sel[1], Bytes(buf, sel[2], e))

Overrun ==
  /\ session' = "overrun"
  /\ UNCHANGED <<rvars, mark, ops, lost>>

-----------------------------------------------------------------------------
\* ^U
EraseLine ==
  LET start == Max({w} \cup {i + 1 : i \in {j \in w..e - 1 : Ch(j) = "\n"}})
  IN /\ Key /\ Keeps
     /\ Log([k \in 1..e - start |-> Entry("delete", e - k)], lost)
     /\ e' = start
     /\ cur' = cur - (e - start)
     /\ ClearSelection
     /\ Carefully(cur = e \/ start = e)
     /\ UNCHANGED <<buf, clip>>

\* Backspace over a selection.
DeleteSelection ==
  /\ Key /\ Keeps /\ sel # NoSel
  /\ IF ~TailMoves THEN Overrun
     ELSE /\ buf' = Squeezed
          /\ e' = e - (sel[2] - sel[1])
          /\ cur' = sel[1]
          /\ ClearSelection /\ NotLogged
          /\ UNCHANGED <<clip, session>>

\* Mutant: the test of the left margin compares with r, as that of e does.
CanErase_IntoSent == cur > r /\ e > r
CanErase == cur > w /\ e > r

Backspace ==
  /\ Key /\ Keeps /\ sel = NoSel /\ CanErase
  /\ Log(<<Entry("delete", cur - 1)>>, lost)
  /\ buf' = Put(buf, cur - 1, Bytes(buf, cur, e))
  /\ e' = e - 1
  /\ cur' = cur - 1
  /\ UNCHANGED <<mark, sel, clip, session>>

\* ^S: the mark, then the selection from the mark to the cursor.  Nothing
\* moves the mark when the text it stands in is deleted.
SetMark ==
  /\ Key /\ Keeps /\ mark = -1
  /\ mark' = cur /\ sel' = NoSel
  /\ UNCHANGED <<buf, e, cur, clip, ops, lost, session>>

Select ==
  /\ Key /\ Keeps /\ mark # -1
  /\ mark' = -1
  /\ sel' = IF mark = cur THEN sel ELSE IF mark < cur THEN <<mark, cur>> ELSE <<cur, mark>>
  /\ Carefully(mark <= e)
  /\ UNCHANGED <<buf, e, cur, clip, ops, lost>>

\* ^C
Copy ==
  /\ Key /\ Keeps /\ sel # NoSel
  /\ clip' = IF sel[2] - sel[1] < INPUT_BUF THEN Bytes(buf, sel[1], sel[2]) ELSE clip
  /\ ClearSelection
  /\ UNCHANGED <<buf, e, cur, ops, lost, session>>

\* Mutant: the room is counted from the first byte not sent.
PasteFits_OfLine == e - w + Len(clip) < INPUT_BUF
PasteFits == Unread + Len(clip) < INPUT_BUF

\* ^V
Paste ==
  /\ Key /\ Keeps /\ clip # <<>> /\ PasteFits
  /\ buf' = Put(buf, cur, clip \o Bytes(buf, cur, e))
  /\ e' = e + Len(clip)
  /\ cur' = cur + Len(clip)
  /\ ClearSelection /\ NotLogged
  /\ UNCHANGED <<clip, session>>

\* handle_tab_completion(): only a list on the screen depends on how often TAB
\* was pressed.  Nothing tests that the completion fits.
Tab ==
  LET line == Bytes(buf, w, e)
      matches == {c \in Commands : line # <<>> /\ IsPrefix(line, c)}
      longest == LongestCommonPrefix(matches)
      new == IF matches = {longest} THEN Append(longest, Blank) ELSE longest
  IN /\ Key /\ Keeps /\ ClearSelection
     /\ IF Blank \in Range(line) \/ matches = {} \/ (new = longest /\ longest = line)
        THEN UNCHANGED <<buf, e, cur, ops, lost, session>>
        ELSE /\ buf' = Put(buf, w, new)
             /\ e' = w + Len(new)
             /\ cur' = e'
             /\ NotLogged
             /\ Carefully(w + Len(new) - r < INPUT_BUF)
     /\ UNCHANGED clip

\* The end of the line without its trailing blanks.
EffectiveEnd == Max({w} \cup {i + 1 : i \in {j \in w..e - 1 : Ch(j) # Blank}})

\* The arrows, ^D and ^A: the first index from i on, or the last up to i, with
\* a character in S after it, or before it.
SkipUp(i, S) == Min({j \in i..e : j = e \/ Ch(j) \notin S})
SkipDown(i, S) == Max({j \in w..i : j = w \/ Ch(j - 1) \notin S})
Word == Letters \ {Blank}

Move ==
  /\ Key /\ Keeps
  /\ \/ cur > EffectiveEnd /\ cur' = EffectiveEnd
     \/ cur <= EffectiveEnd /\ cur > w /\ cur' = cur - 1
     \/ cur < EffectiveEnd /\ cur' = cur + 1
     \/ cur < e /\ cur' = SkipUp(SkipUp(cur, Word), {Blank})
     \/ cur > w /\ cur' = SkipDown(SkipDown(cur, {Blank}), Word)
  /\ UNCHANGED <<buf, e, mark, sel, clip, ops, lost, session>>

\* ^Z
Undo ==
  LET op == Last(ops)
      back == op.type = "insert"
  IN /\ Key /\ Keeps /\ ClearSelection
     /\ IF ops = <<>> \/ (op.type = "delete" /\ Unread >= INPUT_BUF)
        THEN UNCHANGED <<buf, e, cur, ops, lost, session>>
        ELSE /\ ops' = Front(ops)
             /\ lost' = IF lost < Len(ops) THEN lost ELSE Len(ops) - 1
             /\ buf' = Put(buf, op.pos, IF back THEN Bytes(buf, op.pos + 1, e + 1)
                                        ELSE <<op.c>> \o Bytes(buf, op.pos, e))
             /\ e' = IF back THEN e - 1 ELSE e + 1
             /\ cur' = IF back THEN op.pos ELSE op.pos + 1
             /\ Carefully(lost < Len(ops))
     /\ UNCHANGED clip

\* Mutant: the line is sent and its reader is not woken.
Wake_Nobody == rd
Wake == [rd EXCEPT !.asleep = FALSE]

\* Any other character, Enter among them: it replaces the selection.  A line
\* that fills the buffer is sent as if Enter had been pressed.
Type(c) ==
  LET b == IF sel = NoSel THEN buf ELSE Squeezed
      k == IF sel = NoSel THEN cur ELSE sel[1]
      end == IF sel = NoSel THEN e ELSE e - (sel[2] - sel[1])
      stale == IF sel = NoSel THEN lost ELSE Len(ops)
  IN /\ Key /\ Unread < INPUT_BUF
     /\ IF sel # NoSel /\ ~TailMoves THEN Overrun /\ Keeps
        ELSE /\ buf' = Put(b, k, <<c>> \o Bytes(b, k, end))
             /\ e' = end + 1
             /\ cur' = k + 1
             /\ sel' = NoSel
             /\ UNCHANGED clip
             /\ IF c = "\n" \/ end + 1 = r + INPUT_BUF
                THEN /\ mark' = -1 /\ ops' = <<>> /\ lost' = 0
                     /\ w' = end + 1
                     /\ rd' = Wake
                     /\ Carefully(k = end)
                ELSE /\ Log(<<[type |-> "insert", c |-> c, pos |-> k]>>, stale)
                     /\ mark' = IF sel = NoSel THEN mark ELSE -1
                     /\ Keeps /\ UNCHANGED session

-----------------------------------------------------------------------------
\* consoleread(): bytes up to a newline or the n that were asked for; a killed
\* reader returns -1 instead of going to sleep.
Take(n) ==
  LET k == Min({n, w - r} \cup {i \in 1..w - r : Ch(r + i - 1) = "\n"})
      returns == k = n \/ (k > 0 /\ Ch(r + k - 1) = "\n") \/ rd.killed
  IN /\ r' = r + k
     /\ rd' = [want |-> IF returns THEN 0 ELSE n - k, asleep |-> ~returns,
               killed |-> rd.killed /\ ~returns]
     /\ UNCHANGED <<rvars, w, mark, ops, lost, session, keys>>

Read == rd.want = 0 /\ \E n \in ReadSizes : Take(n)
ReadOn == rd.want > 0 /\ ~rd.asleep /\ Take(rd.want)

\* kill(): the reader's process is made RUNNABLE.
KillReader ==
  /\ rd.want > 0 /\ ~rd.killed
  /\ rd' = [rd EXCEPT !.asleep = FALSE, !.killed = TRUE]
  /\ UNCHANGED <<rvars, r, w, mark, ops, lost, session, keys>>

ConsNext ==
  \/ EraseLine \/ DeleteSelection \/ Backspace \/ SetMark \/ Select \/ Copy
  \/ Paste \/ Tab \/ Move \/ Undo
  \/ \E c \in Letters \cup {"\n"} : Type(c)
  \/ Read \/ ReadOn \/ KillReader

ConsSpec == ConsInit /\ [][ConsNext]_consvars

-----------------------------------------------------------------------------
ConsTypeOK ==
  /\ buf \in [0..INPUT_BUF - 1 -> Letters \cup {"\n", "0"}]
  /\ {r, w, keys, lost} \subseteq Nat /\ {e, cur, mark, sel[1], sel[2]} \subseteq Int
  /\ Range(clip) \subseteq Range(buf) \cup Letters \cup {"\n"} /\ {op.type : op \in Range(ops)} \subseteq {"insert", "delete"}
  /\ rd \in [want : Nat, asleep : BOOLEAN, killed : BOOLEAN]
  /\ session \in {"careful", "careless", "overrun"}

Careful == session = "careful"

\* The indices of the ring keep their order, the cursor and the selection stay
\* in the line, and no newline is in it: what every loop of consoleintr() that
\* runs from one index to another needs to stop where it should.
IndicesOrdered ==
  ConsTypeOK /\
  (Careful =>
    /\ 0 <= r /\ r <= w /\ w <= cur /\ cur <= e /\ e < r + INPUT_BUF + (IF w = e THEN 1 ELSE 0)
    /\ sel # NoSel => w <= sel[1] /\ sel[1] < sel[2] /\ sel[2] <= e
    /\ "\n" \notin Range(Bytes(buf, w, e)))

\* No lost wakeup: while the reader is asleep there is nothing it could take.
ReaderNotMissed == rd.asleep => r = w

\* What undoing the entry op makes of line l; positions count from the line's start.
Undone(op, l) ==
  IF op.type = "insert"
  THEN [line |-> RemoveAt(l, op.pos - w + 1), cursor |-> op.pos - w]
  ELSE [line |-> InsertAt(l, op.pos - w + 1, op.c), cursor |-> op.pos - w + 1]

NoPast == [line |-> <<>>, cursor |-> 1]    \* no line and cursor are so

Past ==
  LET before[i \in lost + 1..Len(ops)] ==
        Undone(ops[i], IF i = Len(ops) THEN Bytes(buf, w, e) ELSE before[i + 1].line)
  IN [i \in 1..Len(ops) |-> IF i <= lost THEN NoPast ELSE before[i]]

Editor == INSTANCE LineEditor WITH
  Size <- INPUT_BUF, PastSize <- HISTORY_BUF,
  queue <- Bytes(buf, r, w), line <- Bytes(buf, w, e), cursor <- cur - w,
  sel <- IF sel = NoSel THEN <<>> ELSE <<sel[1] - w, sel[2] - w>>, past <- Past

\* As long as the user is careful the ring behaves as a line editor: each key
\* changes the line, the cursor and the undo stack as LineEditor says, ^Z gives
\* back the text and the cursor of before, and the reader gets every byte sent
\* once and in order, whatever it types ahead and wherever the ring wraps.
EditsAsSpecified ==
  Editor!Init /\ [][session' = "careful" => Editor!Next]_(Editor!vars)

=============================================================================
