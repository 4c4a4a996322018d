------------------------------ MODULE BlockStore ------------------------------
(***************************************************************************)
(* What the buffer cache of LAB4/codes/bio.c promises: every block has one *)
(* content, and one process at a time may look at it and change it.        *)
(***************************************************************************)
CONSTANTS
  Procs, Blocks, Values,
  Flaky,      \* the blocks that the drive may fail to read
  NoOne

VARIABLES
  content,    \* what the last process to change the block left in it
  holder      \* the process that has the block

Init ==
  /\ content \in [Blocks -> Values]
  /\ holder = [k \in Blocks |-> NoOne]

Take(p, k) ==
  /\ holder[k] = NoOne
  /\ holder' = [holder EXCEPT ![k] = p]
  /\ UNCHANGED content

Change(p, k) ==
  /\ holder[k] = p
  /\ \E v \in Values : content' = [content EXCEPT ![k] = v]
  /\ UNCHANGED holder

\* A read error puts something else in place of the content, until it is read anew.
Spoil(k) ==
  /\ k \in Flaky
  /\ \E v \in Values : content' = [content EXCEPT ![k] = v]
  /\ UNCHANGED holder

Leave(p, k) ==
  /\ holder[k] = p
  /\ holder' = [holder EXCEPT ![k] = NoOne]
  /\ UNCHANGED content

Next ==
  \E k \in Blocks : Spoil(k) \/ \E p \in Procs : Take(p, k) \/ Change(p, k) \/ Leave(p, k)

Spec == Init /\ [][Next]_<<content, holder>>

=============================================================================
