------------------------------ MODULE LineEditor ------------------------------
(***************************************************************************)
(* What the console of LAB4/codes/console.c promises its user: one line    *)
(* with a cursor, a selection, a clipboard and an undo stack, and a queue  *)
(* of bytes sent to the reader.  There are no buffer indices here.         *)
(***************************************************************************)
EXTENDS Naturals, Sequences, SequencesExt

CONSTANTS
  Letters,    \* the characters of a line, " " among them
  Commands,   \* the names that TAB completes
  Size,       \* how many bytes the queue and the line hold together
  PastSize,   \* how many changes can be undone
  NoPast      \* stands for a change that cannot be undone

VARIABLES
  queue,      \* the bytes that were sent and not read
  line,       \* the line being edited
  cursor,     \* 0..Len(line)
  sel,        \* <<>>, or <<i, j>>: characters i+1 to j are selected
  clip,       \* the clipboard
  past        \* for each change since the line began, what it changed, or NoPast

vars == <<queue, line, cursor, sel, clip, past>>

Forgotten(n) == [i \in 1..n |-> NoPast]
Snapshot(l, c) == [line |-> l, cursor |-> c]

\* A change that finds the undo stack full makes all of it useless.
Remember(p, snap) ==
  IF Len(p) < PastSize THEN Append(p, snap) ELSE Forgotten(Len(p))

Init ==
  /\ queue = <<>> /\ line = <<>> /\ cursor = 0
  /\ sel = <<>> /\ clip = <<>> /\ past = <<>>

Edit(l, c) == line' = l /\ cursor' = c /\ sel' = <<>>
Without(i, j) == SubSeq(line, 1, i) \o SubSeq(line, j + 1, Len(line))

Type(c) ==
  LET l == IF sel = <<>> THEN line ELSE Without(sel[1], sel[2])
      k == IF sel = <<>> THEN cursor ELSE sel[1]
      p == IF sel = <<>> THEN past ELSE Forgotten(Len(past))
      typed == InsertAt(l, k + 1, c)
  IN /\ Len(queue) + Len(line) < Size
     /\ IF c = "\n" \/ Len(queue) + Len(typed) = Size
        THEN Edit(<<>>, 0) /\ queue' = queue \o typed /\ past' = <<>>
        ELSE Edit(typed, k + 1) /\ past' = Remember(p, Snapshot(l, k)) /\ UNCHANGED queue
     /\ UNCHANGED clip

Backspace ==
  /\ IF sel # <<>>
     THEN Edit(Without(sel[1], sel[2]), sel[1]) /\ past' = Forgotten(Len(past))
     ELSE /\ cursor > 0
          /\ Edit(RemoveAt(line, cursor), cursor - 1)
          /\ past' = Remember(past, Snapshot(line, cursor))
  /\ UNCHANGED <<queue, clip>>

\* The line is erased from its end, and each character can be brought back.
EraseLine ==
  LET n == Len(line)
      steps == [i \in 1..n |-> Snapshot(SubSeq(line, 1, n + 1 - i), n + 1 - i)]
  IN /\ Edit(<<>>, 0)
     /\ past' = FoldLeft(Remember, past, steps)
     /\ UNCHANGED <<queue, clip>>

Paste ==
  /\ Len(queue) + Len(line) + Len(clip) < Size
  /\ Edit(SubSeq(line, 1, cursor) \o clip \o SubSeq(line, cursor + 1, Len(line)),
          cursor + Len(clip))
  /\ past' = Forgotten(Len(past))
  /\ UNCHANGED <<queue, clip>>

\* The line becomes the only command it begins, and a blank, or what all the
\* commands that it begins have in common.
Complete ==
  LET matches == {c \in Commands : IsPrefix(line, c)}
      longest == LongestCommonPrefix(matches)
  IN /\ line # <<>> /\ matches # {}
     /\ \E l \in {longest, Append(longest, " ")} :
          /\ l # longest => matches = {longest}
          /\ Edit(l, Len(l))
     /\ past' = Forgotten(Len(past))
     /\ UNCHANGED <<queue, clip>>

\* The last change is taken back, text and cursor.
Undo ==
  /\ past # <<>> /\ Last(past) # NoPast
  /\ Edit(Last(past).line, Last(past).cursor)
  /\ past' = Front(past)
  /\ UNCHANGED <<queue, clip>>

Select ==
  /\ \/ sel' = <<>>
     \/ \E i \in 0..Len(line), j \in 0..Len(line) :
          i < j /\ cursor \in {i, j} /\ sel' = <<i, j>>
  /\ UNCHANGED <<queue, line, cursor, clip, past>>

Copy ==
  /\ sel # <<>>
  /\ clip' = SubSeq(line, sel[1] + 1, sel[2])
  /\ sel' = <<>>
  /\ UNCHANGED <<queue, line, cursor, past>>

\* The places where a word begins, and the end of the line without its blanks.
WordStarts == {p \in 1..Len(line) - 1 : line[p] = " " /\ line[p + 1] # " "}
TextEnd == Max({0} \cup {p \in 1..Len(line) : line[p] # " "})

Move ==
  /\ cursor' \in
       {cursor - 1, cursor + 1, TextEnd,
        Min({p \in WordStarts \cup {Len(line)} : p > cursor} \cup {Len(line)}),
        Max({p \in WordStarts \cup {0} : p < cursor} \cup {0})} \cap 0..Len(line)
  /\ UNCHANGED <<queue, line, sel, clip, past>>

Read ==
  /\ \E k \in 1..Len(queue) : queue' = SubSeq(queue, k + 1, Len(queue))
  /\ UNCHANGED <<line, cursor, sel, clip, past>>

Next ==
  \/ \E c \in Letters \cup {"\n"} : Type(c)
  \/ Backspace \/ EraseLine \/ Paste \/ Complete \/ Undo
  \/ Select \/ Copy \/ Move \/ Read

Spec == Init /\ [][Next]_vars

=============================================================================
