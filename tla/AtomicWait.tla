----------------------------- MODULE AtomicWait -----------------------------
(***************************************************************************)
(* What sleep() and wakeup() promise to code that waits for a condition,   *)
(* here "there is a token", under a lock of its own: testing the condition *)
(* and going to sleep are one step, and so are making the condition true   *)
(* and waking everybody who waits for it.  KernelSleep.tla and the modules *)
(* that extend it are written with steps of this kind.                     *)
(***************************************************************************)
EXTENDS Naturals

CONSTANT Procs

VARIABLES
  tokens,     \* how many there are to take
  asleep      \* the processes that wait for one

Init == tokens = 0 /\ asleep = {}

Take == tokens > 0 /\ tokens' = tokens - 1 /\ UNCHANGED asleep

Block(p) == tokens = 0 /\ asleep' = asleep \cup {p} /\ UNCHANGED tokens

Put == tokens' = tokens + 1 /\ asleep' = {}

\* kill() wakes one process and no other.
Interrupt(p) == p \in asleep /\ asleep' = asleep \ {p} /\ UNCHANGED tokens

Next == Take \/ Put \/ \E p \in Procs : Block(p) \/ Interrupt(p)

Spec == Init /\ [][Next]_<<tokens, asleep>>

=============================================================================
