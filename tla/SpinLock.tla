------------------------------ MODULE SpinLock ------------------------------
(***************************************************************************)
(* The spinlocks of LAB4/codes/spinlock.c on several processors, at the    *)
(* grain of the memory accesses that other processors can see, with the    *)
(* interrupt flag of each processor and the nesting of pushcli()/popcli(). *)
(*                                                                         *)
(* A processor runs "task" code (a process or the scheduler) and, when its *)
(* interrupts are on, may be taken over by a handler "intr"; tvinit()      *)
(* sets interrupt gates, so a handler starts with interrupts off.  Both    *)
(* take locks in increasing order, as the kernel does (tickslock before    *)
(* ptable.lock in trap(), a lock before ptable.lock in sleep() and         *)
(* wakeup()), and may release them in any order.                           *)
(*                                                                         *)
(* The debugging call stacks (pcs) and the statistics acq_count and        *)
(* total_spins, which only sys_getlockstat() reads, are left out.          *)
(***************************************************************************)
EXTENDS Naturals, FiniteSets

CONSTANTS
  Processors,      \* the processors
  Locks,     \* the spinlocks, numbered in the order they are taken
  NoCpu      \* lk->cpu == 0

ASSUME SpinLockAssumption ==
  IsFiniteSet(Locks) /\ Locks \subseteq Nat /\ NoCpu \notin Processors

VARIABLES
  locked,    \* lk->locked
  cpu,       \* lk->cpu
  IF_,       \* FL_IF of the processor's eflags
  ncli,      \* mycpu()->ncli
  intena,    \* mycpu()->intena
  pc,        \* where in acquire() or release() the processor is; "run" outside
  arg,       \* the lock of that acquire() or release()
  guard,     \* the code is between a pushcli() and a popcli() of its own
  held,      \* the locks that the processor has won and not given up
  frame,     \* the code a handler has interrupted: none, or one saved context
  base       \* auxiliary: the task code of the processor has interrupts on

lkvars == <<locked, cpu>>
clivars == <<IF_, ncli, intena>>
ctvars == <<guard, held, frame, base>>
spinvars == <<lkvars, clivars, pc, arg, ctvars>>

\* mpmain() reaches scheduler() with interrupts off and nothing nested.
SpinInit ==
  /\ locked = [l \in Locks |-> 0]
  /\ cpu = [l \in Locks |-> NoCpu]
  /\ IF_ = [c \in Processors |-> FALSE]
  /\ ncli = [c \in Processors |-> 0]
  /\ intena = [c \in Processors |-> FALSE]
  /\ pc = [c \in Processors |-> "run"]
  /\ arg \in [Processors -> Locks]
  /\ guard = [c \in Processors |-> FALSE]
  /\ held = [c \in Processors |-> {}]
  /\ frame = [c \in Processors |-> <<>>]
  /\ base = [c \in Processors |-> FALSE]

\* The locks the code now running has taken itself.
Own(c) == IF frame[c] = <<>> THEN held[c] ELSE held[c] \ frame[c][1].held

-----------------------------------------------------------------------------
\* Mutants: interrupts stay on; a nested pushcli() overwrites intena.
pushcli_NoCli(c) ==
  /\ intena' = [intena EXCEPT ![c] = IF ncli[c] = 0 THEN IF_[c] ELSE @]
  /\ ncli' = [ncli EXCEPT ![c] = @ + 1]
  /\ UNCHANGED IF_

pushcli_AlwaysSaves(c) ==
  /\ IF_' = [IF_ EXCEPT ![c] = FALSE]
  /\ intena' = [intena EXCEPT ![c] = IF_[c]]
  /\ ncli' = [ncli EXCEPT ![c] = @ + 1]

pushcli(c) ==
  /\ IF_' = [IF_ EXCEPT ![c] = FALSE]
  /\ intena' = [intena EXCEPT ![c] = IF ncli[c] = 0 THEN IF_[c] ELSE @]
  /\ ncli' = [ncli EXCEPT ![c] = @ + 1]

\* popcli() panics when interrupts are on or nothing is nested.
PopcliPanics(c) == IF_[c] \/ ncli[c] = 0

\* Mutant: one popcli() too many.
popcli_Twice(c) ==
  /\ ncli' = [ncli EXCEPT ![c] = @ - 2]
  /\ IF_' = [IF_ EXCEPT ![c] = @ \/ (ncli[c] = 1 /\ intena[c])]
  /\ UNCHANGED intena

popcli(c) ==
  /\ ncli' = [ncli EXCEPT ![c] = @ - 1]
  /\ IF_' = [IF_ EXCEPT ![c] = @ \/ (ncli[c] = 1 /\ intena[c])]
  /\ UNCHANGED intena

holding(c, l) == locked[l] = 1 /\ cpu[l] = c

\* The pc of one processor moves from one place to another.
At(c, from, to) == pc[c] = from /\ pc' = [pc EXCEPT ![c] = to]

-----------------------------------------------------------------------------
\* acquire(): pushcli(), before anything else.
AcquireCall(c, l) ==
  /\ At(c, "run", "check")
  /\ \A k \in Own(c) : k < l
  /\ arg' = [arg EXCEPT ![c] = l]
  /\ pushcli(c)
  /\ UNCHANGED <<lkvars, ctvars>>

\* if(holding(lk)) panic("acquire")
AcquireCheck(c) ==
  /\ IF holding(c, arg[c]) THEN At(c, "check", "panic") ELSE At(c, "check", "spin")
  /\ UNCHANGED <<lkvars, clivars, arg, ctvars>>

\* Mutant: the result of the xchg() is not tested.
AcquireXchg_NoTest(c) ==
  /\ At(c, "spin", "won")
  /\ locked' = [locked EXCEPT ![arg[c]] = 1]
  /\ held' = [held EXCEPT ![c] = @ \cup {arg[c]}]
  /\ UNCHANGED <<cpu, clivars, arg, guard, frame, base>>

\* The xchg() that finds the lock free; one that does not changes nothing.
AcquireXchg(c) ==
  /\ At(c, "spin", "won")
  /\ locked[arg[c]] = 0
  /\ locked' = [locked EXCEPT ![arg[c]] = 1]
  /\ held' = [held EXCEPT ![c] = @ \cup {arg[c]}]
  /\ UNCHANGED <<cpu, clivars, arg, guard, frame, base>>

\* lk->cpu = mycpu()
AcquireRecord(c) ==
  /\ At(c, "won", "run")
  /\ cpu' = [cpu EXCEPT ![arg[c]] = c]
  /\ UNCHANGED <<locked, clivars, arg, ctvars>>

\* release(): panic("release") unless holding, then lk->cpu = 0.
ReleaseCall(c, l) ==
  /\ l \in Own(c)
  /\ arg' = [arg EXCEPT ![c] = l]
  /\ IF holding(c, l)
     THEN /\ At(c, "run", "clear")
          /\ cpu' = [cpu EXCEPT ![l] = NoCpu]
     ELSE At(c, "run", "panic") /\ UNCHANGED cpu
  /\ UNCHANGED <<locked, clivars, ctvars>>

\* lk->locked = 0
ReleaseStore(c) ==
  /\ At(c, "clear", "pop")
  /\ locked' = [locked EXCEPT ![arg[c]] = 0]
  /\ held' = [held EXCEPT ![c] = @ \ {arg[c]}]
  /\ UNCHANGED <<cpu, clivars, arg, guard, frame, base>>

\* The popcli() that ends release().
ReleasePop(c) ==
  /\ IF PopcliPanics(c)
     THEN At(c, "pop", "panic") /\ UNCHANGED clivars
     ELSE At(c, "pop", "run") /\ popcli(c)
  /\ UNCHANGED <<lkvars, arg, ctvars>>

\* A pushcli() outside the locks, as in myproc(); nested inside one it
\* changes nothing but the depth.
Push(c) ==
  /\ pc[c] = "run" /\ ~guard[c] /\ ncli[c] = 0
  /\ guard' = [guard EXCEPT ![c] = TRUE]
  /\ pushcli(c)
  /\ UNCHANGED <<lkvars, pc, arg, held, frame, base>>

Pop(c) ==
  /\ guard[c] /\ Own(c) = {}
  /\ guard' = [guard EXCEPT ![c] = FALSE]
  /\ IF PopcliPanics(c)
     THEN At(c, "run", "panic") /\ UNCHANGED clivars
     ELSE At(c, "run", "run") /\ popcli(c)
  /\ UNCHANGED <<lkvars, arg, held, frame, base>>

-----------------------------------------------------------------------------
\* An interrupt comes between any two instructions while FL_IF is set; the
\* gate clears the flag and the handler starts with a control state of its own.
Interrupt(c) ==
  /\ IF_[c] /\ frame[c] = <<>> /\ pc[c] # "panic"
  /\ frame' = [frame EXCEPT ![c] =
       <<[pc |-> pc[c], arg |-> arg[c], guard |-> guard[c], held |-> held[c]]>>]
  /\ IF_' = [IF_ EXCEPT ![c] = FALSE]
  /\ pc' = [pc EXCEPT ![c] = "run"]
  /\ guard' = [guard EXCEPT ![c] = FALSE]
  /\ UNCHANGED <<lkvars, ncli, intena, arg, held, base>>

\* iret takes the interrupted code up again, interrupts on as they were.
Iret(c) ==
  /\ frame[c] # <<>> /\ pc[c] = "run" /\ Own(c) = {} /\ ~guard[c]
  /\ frame' = [frame EXCEPT ![c] = <<>>]
  /\ IF_' = [IF_ EXCEPT ![c] = TRUE]
  /\ pc' = [pc EXCEPT ![c] = frame[c][1].pc]
  /\ arg' = [arg EXCEPT ![c] = frame[c][1].arg]
  /\ guard' = [guard EXCEPT ![c] = frame[c][1].guard]
  /\ UNCHANGED <<lkvars, ncli, intena, held, base>>

\* The sti() at the head of the scheduler's loop, where no lock is held.
Sti(c) ==
  /\ pc[c] = "run" /\ frame[c] = <<>> /\ held[c] = {} /\ ~guard[c]
  /\ IF_' = [IF_ EXCEPT ![c] = TRUE]
  /\ base' = [base EXCEPT ![c] = TRUE]
  /\ UNCHANGED <<lkvars, ncli, intena, pc, arg, guard, held, frame>>

Step(c) ==
  \/ \E l \in Locks : AcquireCall(c, l) \/ ReleaseCall(c, l)
  \/ AcquireCheck(c) \/ AcquireXchg(c) \/ AcquireRecord(c)
  \/ ReleaseStore(c) \/ ReleasePop(c)
  \/ Push(c) \/ Pop(c)

SpinNext == \E c \in Processors : Step(c) \/ Interrupt(c) \/ Iret(c) \/ Sti(c)

SpinSpec == SpinInit /\ [][SpinNext]_spinvars

-----------------------------------------------------------------------------
Contexts == [pc : {"run", "check", "spin", "won", "clear", "pop"},
             arg : Locks, guard : BOOLEAN, held : SUBSET Locks]

SpinTypeOK ==
  /\ locked \in [Locks -> {0, 1}]
  /\ cpu \in [Locks -> Processors \cup {NoCpu}]
  /\ IF_ \in [Processors -> BOOLEAN]
  /\ ncli \in [Processors -> Nat]
  /\ intena \in [Processors -> BOOLEAN]
  /\ pc \in [Processors -> {"run", "check", "spin", "won", "clear", "pop", "panic"}]
  /\ arg \in [Processors -> Locks]
  /\ guard \in [Processors -> BOOLEAN]
  /\ held \in [Processors -> SUBSET Locks]
  /\ frame \in [Processors -> {<<>>} \cup {<<k>> : k \in Contexts}]
  /\ base \in [Processors -> BOOLEAN]

\* No panic of acquire(), release() or popcli() is ever reached: no processor
\* waits for a lock it already has, whichever instruction an interrupt hits,
\* and no other processor's stores make holding() wrong for the one inside.
NeverPanics == \A c \in Processors : pc[c] # "panic"

\* Interrupts are on exactly when the code at the bottom of the nesting had
\* them on, no handler runs and no pushcli() is outstanding: nested acquires
\* and releases in any order bring back the state before the first of them,
\* and nothing is interrupted while it holds a lock.
InterruptsExact ==
  /\ SpinTypeOK
  /\ \A c \in Processors :
       /\ IF_[c] <=> base[c] /\ frame[c] = <<>> /\ ncli[c] = 0
       /\ held[c] # {} => ncli[c] > 0

\* Each spinlock is an exclusive lock of processors: it starts as one, and
\* every step is, for every lock, a step of Mutex or leaves that lock alone.
Inside(l) == {c \in Processors : l \in held[c]}
Exclusive(l) == INSTANCE Mutex WITH Procs <- Processors, inside <- Inside(l)
ImplementsMutex ==
  /\ \A l \in Locks : Exclusive(l)!Init
  /\ [][\A l \in Locks : Exclusive(l)!Next \/ UNCHANGED Inside(l)]_spinvars

=============================================================================
