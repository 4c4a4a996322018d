--------------------------- MODULE ProcessorProofs ---------------------------
(***************************************************************************)
(* Proofs about what processors do, for every number of them.              *)
(*                                                                         *)
(* SpinLock, for every number of locks: no panic, exclusive locks, and     *)
(* interrupts restored exactly.                                            *)
(* Scheduler, for every number of processors of each core type and every   *)
(* size of the process table: no process runs on two processors, and       *)
(* E-cores give full quanta.                                               *)
(***************************************************************************)
EXTENDS SpinLock, Scheduler, FiniteSetTheorems, TLAPS

-----------------------------------------------------------------------------
(* Spinlocks. *)

\* Interrupted code was outside every lock and every pushcli().
Frames ==
  \A c \in Processors : frame[c] # <<>> =>
    base[c] /\ frame[c][1].pc = "run" /\ ~frame[c][1].guard /\ frame[c][1].held = {}

\* ncli counts the locks held, the guard, and an acquire() or a release()
\* that is under way with a pushcli() of which the lock is not held.
Halfway(c) == pc[c] \in {"check", "spin", "pop"}
Depth ==
  \A c \in Processors :
    ncli[c] = Cardinality(held[c]) + (IF guard[c] THEN 1 ELSE 0) + (IF Halfway(c) THEN 1 ELSE 0)

\* Nested code finds in intena what to give back to the code below.
Restores == \A c \in Processors : ncli[c] > 0 => intena[c] = (base[c] /\ frame[c] = <<>>)

\* Each lock is held by one processor, or is free.
OneHolder ==
  /\ \A c, d \in Processors : \A l \in held[c] \cap held[d] : c = d
  /\ \A l \in Locks : locked[l] = 1 <=> \E c \in Processors : l \in held[c]

\* Where a processor stands with the lock of its call, and what lk->cpu says.
Stands ==
  \A c \in Processors :
    /\ pc[c] \in {"check", "spin"} => arg[c] \notin held[c]
    /\ pc[c] \in {"won", "clear"} => arg[c] \in held[c]
    /\ \A l \in Locks :
         cpu[l] = c <=> l \in held[c] /\ ~(pc[c] \in {"won", "clear"} /\ arg[c] = l)

SpinIInv == InterruptsExact /\ NeverPanics /\ Frames /\ Depth /\ Restores /\ OneHolder /\ Stands

-----------------------------------------------------------------------------
\* A processor holds finitely many locks.
LEMMA HeldFinite ==
  ASSUME SpinIInv, NEW c \in Processors
  PROVE  /\ held[c] \in SUBSET Locks /\ IsFiniteSet(held[c]) /\ Cardinality(held[c]) \in Nat
         /\ Cardinality(held[c]) = 0 <=> held[c] = {}
<1>1. held[c] \in SUBSET Locks
  BY DEF SpinIInv, InterruptsExact, SpinTypeOK
<1>2. IsFiniteSet(held[c])
  BY <1>1, FS_Subset, SpinLockAssumption
<1>3. QED
  BY <1>1, <1>2, FS_CardinalityType, FS_EmptySet

\* Interrupts are on outside every lock, guard and call only.
LEMMA OutsideOnly ==
  ASSUME SpinIInv, NEW c \in Processors, ncli[c] = 0
  PROVE  held[c] = {} /\ ~guard[c] /\ ~Halfway(c) /\ pc[c] = "run"
<1>1. held[c] = {} /\ ~guard[c] /\ ~Halfway(c)
  BY HeldFinite DEF SpinIInv, Depth
<1>2. pc[c] = "run"
  <2>1. pc[c] \in {"run", "check", "spin", "won", "clear", "pop", "panic"} /\ pc[c] # "panic"
    BY DEF SpinIInv, NeverPanics, InterruptsExact, SpinTypeOK
  <2>2. pc[c] \notin {"won", "clear"}
    BY <1>1 DEF SpinIInv, Stands
  <2>3. QED
    BY <1>1, <2>1, <2>2 DEF Halfway
<1>3. QED
  BY <1>1, <1>2

\* Outside every lock, guard and call, nothing is nested.
LEMMA NothingNested ==
  ASSUME SpinIInv, NEW c \in Processors, held[c] = {}, ~guard[c], pc[c] = "run"
  PROVE  ncli[c] = 0
<1>1. Cardinality(held[c]) = 0
  BY FS_EmptySet
<1>2. ~Halfway(c)
  BY DEF Halfway
<1>3. (IF guard[c] THEN 1 ELSE 0) = 0 /\ (IF Halfway(c) THEN 1 ELSE 0) = 0
  BY <1>2
<1>4. QED
  BY <1>1, <1>3 DEF SpinIInv, Depth

\* What the running code has taken itself is what its processor holds.
LEMMA OwnIsHeld ==
  ASSUME SpinIInv, NEW c \in Processors
  PROVE  Own(c) = held[c]
BY DEF SpinIInv, Frames, Own

-----------------------------------------------------------------------------
\* The invariant holds when the system starts.
LEMMA SpinInitIInv ==
  ASSUME SpinInit
  PROVE  SpinIInv
<1>1. SpinTypeOK
  BY DEF SpinInit, SpinTypeOK
<1>2. Depth
  BY FS_EmptySet DEF SpinInit, Depth, Halfway
<1>3. InterruptsExact /\ NeverPanics /\ Frames /\ Restores /\ OneHolder
  BY <1>1 DEF SpinInit, InterruptsExact, NeverPanics, Frames, Restores, OneHolder
<1>4. Stands
  BY SpinLockAssumption DEF SpinInit, Stands
<1>5. QED
  BY <1>2, <1>3, <1>4 DEF SpinIInv

\* One lemma per action: the invariant survives it.
LEMMA AcquireCallStep ==
  ASSUME SpinIInv, NEW c \in Processors, NEW l \in Locks, AcquireCall(c, l)
  PROVE  SpinIInv'
<1> USE DEF AcquireCall, At, pushcli, lkvars, ctvars
<1>1. l \notin held[c]
  BY OwnIsHeld, HeldFinite, SpinLockAssumption
<1>2. /\ ncli[c] \in Nat /\ ncli'[c] = ncli[c] + 1 /\ pc'[c] = "check" /\ pc[c] = "run"
      /\ ~IF_'[c]
      /\ \A d \in Processors : d # c => /\ ncli'[d] = ncli[d] /\ pc'[d] = pc[d] /\ IF_'[d] = IF_[d]
                                  /\ intena'[d] = intena[d] /\ arg'[d] = arg[d]
  BY DEF SpinIInv, InterruptsExact, SpinTypeOK
<1>3. SpinTypeOK'
  BY DEF SpinIInv, InterruptsExact, SpinTypeOK
<1>4. InterruptsExact'
  BY <1>2, <1>3 DEF SpinIInv, InterruptsExact
<1>5. NeverPanics'
  BY <1>2 DEF SpinIInv, NeverPanics
<1>6. Frames' /\ OneHolder'
  BY DEF SpinIInv, Frames, OneHolder
<1>7. Depth'
  <2>1. ncli'[c] = Cardinality(held[c]) + (IF guard[c] THEN 1 ELSE 0) + 1
    BY <1>2, HeldFinite DEF SpinIInv, Depth, Halfway
  <2>2. QED
    BY <1>2, <2>1 DEF SpinIInv, Depth, Halfway
<1>8. Restores'
  <2>1. intena'[c] = (base[c] /\ frame[c] = <<>>)
    <3>1. CASE ncli[c] = 0
      BY <3>1 DEF SpinIInv, InterruptsExact, SpinTypeOK
    <3>2. CASE ncli[c] > 0
      BY <3>2 DEF SpinIInv, InterruptsExact, SpinTypeOK, Restores
    <3>3. QED
      BY <1>2, <3>1, <3>2
  <2>2. QED
    BY <1>2, <2>1 DEF SpinIInv, Restores
<1>9. Stands'
  BY <1>1, <1>2 DEF SpinIInv, Stands, InterruptsExact, SpinTypeOK
<1>10. QED
  BY <1>4, <1>5, <1>6, <1>7, <1>8, <1>9 DEF SpinIInv

\* The holding() test of acquire() keeps the invariant.
LEMMA AcquireCheckStep ==
  ASSUME SpinIInv, NEW c \in Processors, AcquireCheck(c)
  PROVE  SpinIInv'
<1> USE DEF AcquireCheck, At, lkvars, clivars, ctvars
<1>1. ~holding(c, arg[c])
  BY DEF holding, SpinIInv, Stands, InterruptsExact, SpinTypeOK
<1>2. pc[c] = "check" /\ pc' = [pc EXCEPT ![c] = "spin"]
  BY <1>1
<1>3. SpinTypeOK'
  BY <1>2 DEF SpinIInv, InterruptsExact, SpinTypeOK
<1>4. InterruptsExact' /\ NeverPanics'
  BY <1>2, <1>3 DEF SpinIInv, InterruptsExact, NeverPanics, SpinTypeOK
<1>5. Frames' /\ Restores' /\ OneHolder'
  BY DEF SpinIInv, Frames, Restores, OneHolder
<1>6. Depth'
  BY <1>2 DEF SpinIInv, Depth, Halfway, InterruptsExact, SpinTypeOK
<1>7. Stands'
  BY <1>2 DEF SpinIInv, Stands, InterruptsExact, SpinTypeOK
<1>8. QED
  BY <1>4, <1>5, <1>6, <1>7 DEF SpinIInv

\* The xchg() of acquire() that wins the lock keeps the invariant.
LEMMA AcquireXchgStep ==
  ASSUME SpinIInv, NEW c \in Processors, AcquireXchg(c)
  PROVE  SpinIInv'
<1> USE DEF AcquireXchg, At, clivars
<1>1. /\ arg[c] \in Locks /\ arg[c] \notin held[c] /\ \A d \in Processors : arg[c] \notin held[d]
      /\ held'[c] = held[c] \cup {arg[c]} /\ \A d \in Processors : d # c => held'[d] = held[d]
      /\ pc[c] = "spin" /\ pc'[c] = "won" /\ \A d \in Processors : d # c => pc'[d] = pc[d]
  BY DEF SpinIInv, OneHolder, InterruptsExact, SpinTypeOK
<1>2. SpinTypeOK'
  BY <1>1 DEF SpinIInv, InterruptsExact, SpinTypeOK
<1>3. ncli[c] > 0
  BY <1>1, HeldFinite DEF SpinIInv, Depth, Halfway
<1>4. InterruptsExact' /\ NeverPanics'
  BY <1>1, <1>2, <1>3 DEF SpinIInv, InterruptsExact, NeverPanics
<1>5. Frames' /\ Restores'
  BY DEF SpinIInv, Frames, Restores
<1>6. OneHolder'
  BY <1>1 DEF SpinIInv, OneHolder, InterruptsExact, SpinTypeOK
<1>7. Depth'
  <2>1. Cardinality(held'[c]) = Cardinality(held[c]) + 1
    <3>1. IsFiniteSet(held[c])
      BY HeldFinite
    <3>2. Cardinality(held[c] \cup {arg[c]}) = Cardinality(held[c]) + 1
      BY <1>1, <3>1, FS_AddElement
    <3>3. QED
      BY <1>1, <3>2
  <2>2. ncli'[c] = Cardinality(held'[c]) + (IF guard'[c] THEN 1 ELSE 0) + 0
    BY <1>1, <2>1, HeldFinite DEF SpinIInv, Depth, Halfway
  <2>3. ~Halfway(c)' /\ \A d \in Processors : d # c => Halfway(d)' = Halfway(d)
    BY <1>1 DEF Halfway
  <2>4. UNCHANGED <<ncli, guard>>
    OBVIOUS
  <2>5. \A d \in Processors : d # c =>
          ncli'[d] = Cardinality(held'[d]) + (IF guard'[d] THEN 1 ELSE 0)
                     + (IF Halfway(d)' THEN 1 ELSE 0)
    BY <1>1, <2>3, <2>4 DEF SpinIInv, Depth
  <2>6. QED
    BY <2>2, <2>3, <2>5 DEF Depth
<1>8. Stands'
  BY <1>1 DEF SpinIInv, Stands
<1>9. QED
  BY <1>4, <1>5, <1>6, <1>7, <1>8 DEF SpinIInv

\* The store to lk->cpu in acquire() keeps the invariant.
LEMMA AcquireRecordStep ==
  ASSUME SpinIInv, NEW c \in Processors, AcquireRecord(c)
  PROVE  SpinIInv'
<1> USE DEF AcquireRecord, At, clivars, ctvars
<1>1. /\ arg[c] \in held[c] /\ arg[c] \in Locks /\ cpu'[arg[c]] = c
      /\ \A k \in Locks : k # arg[c] => cpu'[k] = cpu[k]
      /\ pc[c] = "won" /\ pc'[c] = "run" /\ \A d \in Processors : d # c => pc'[d] = pc[d]
  BY DEF SpinIInv, Stands, InterruptsExact, SpinTypeOK
<1>2. SpinTypeOK'
  BY DEF SpinIInv, InterruptsExact, SpinTypeOK
<1>3. InterruptsExact' /\ NeverPanics'
  BY <1>1, <1>2 DEF SpinIInv, InterruptsExact, NeverPanics
<1>4. Frames' /\ Restores' /\ OneHolder'
  BY DEF SpinIInv, Frames, Restores, OneHolder
<1>5. Depth'
  BY <1>1 DEF SpinIInv, Depth, Halfway
<1>6. \A d \in Processors : d # c => arg[c] \notin held[d]
  BY <1>1 DEF SpinIInv, OneHolder
<1>7. Stands'
  BY <1>1, <1>6 DEF SpinIInv, Stands
<1>8. QED
  BY <1>3, <1>4, <1>5, <1>7 DEF SpinIInv

\* The entry of release(), up to clearing lk->cpu, keeps the invariant.
LEMMA ReleaseCallStep ==
  ASSUME SpinIInv, NEW c \in Processors, NEW l \in Locks, ReleaseCall(c, l)
  PROVE  SpinIInv'
<1> USE DEF ReleaseCall, At, clivars, ctvars
<1>1. l \in held[c] /\ (\A d \in Processors : d # c => l \notin held[d]) /\ NoCpu \notin Processors
  BY OwnIsHeld, SpinLockAssumption DEF SpinIInv, OneHolder
<1>2. pc[c] = "run"
  OBVIOUS
<1>3. holding(c, l)
  BY <1>1, <1>2 DEF holding, SpinIInv, Stands, OneHolder
<1>4. /\ pc' = [pc EXCEPT ![c] = "clear"] /\ cpu' = [cpu EXCEPT ![l] = NoCpu]
      /\ arg' = [arg EXCEPT ![c] = l]
  BY <1>3
<1>5. SpinTypeOK'
  BY <1>4 DEF SpinIInv, InterruptsExact, SpinTypeOK
<1>6. InterruptsExact' /\ NeverPanics'
  BY <1>4, <1>5 DEF SpinIInv, InterruptsExact, NeverPanics, SpinTypeOK
<1>7. Frames' /\ Restores' /\ OneHolder'
  BY DEF SpinIInv, Frames, Restores, OneHolder
<1>8. Depth'
  BY <1>2, <1>4 DEF SpinIInv, Depth, Halfway, InterruptsExact, SpinTypeOK
<1>9. Stands'
  BY <1>1, <1>2, <1>4 DEF SpinIInv, Stands, InterruptsExact, SpinTypeOK
<1>10. QED
  BY <1>6, <1>7, <1>8, <1>9 DEF SpinIInv

\* The store that opens the lock keeps the invariant.
LEMMA ReleaseStoreStep ==
  ASSUME SpinIInv, NEW c \in Processors, ReleaseStore(c)
  PROVE  SpinIInv'
<1> USE DEF ReleaseStore, At, clivars
<1>1. /\ arg[c] \in Locks /\ arg[c] \in held[c] /\ \A d \in Processors : d # c => arg[c] \notin held[d]
      /\ held'[c] = held[c] \ {arg[c]} /\ \A d \in Processors : d # c => held'[d] = held[d]
      /\ pc[c] = "clear" /\ pc'[c] = "pop" /\ \A d \in Processors : d # c => pc'[d] = pc[d]
  BY DEF SpinIInv, OneHolder, Stands, InterruptsExact, SpinTypeOK
<1>2. SpinTypeOK'
  BY <1>1 DEF SpinIInv, InterruptsExact, SpinTypeOK
<1>3. InterruptsExact' /\ NeverPanics'
  BY <1>1, <1>2 DEF SpinIInv, InterruptsExact, NeverPanics
<1>4. Frames' /\ Restores'
  BY DEF SpinIInv, Frames, Restores
<1>5. OneHolder'
  BY <1>1 DEF SpinIInv, OneHolder, InterruptsExact, SpinTypeOK
<1>6. Depth'
  <2>1. Cardinality(held'[c]) = Cardinality(held[c]) - 1
    <3>1. IsFiniteSet(held[c])
      BY HeldFinite
    <3>2. Cardinality(held[c] \ {arg[c]}) = Cardinality(held[c]) - 1
      BY <1>1, <3>1, FS_RemoveElement
    <3>3. QED
      BY <1>1, <3>2
  <2>2. ncli'[c] = Cardinality(held'[c]) + (IF guard'[c] THEN 1 ELSE 0) + 1
    BY <1>1, <2>1, HeldFinite DEF SpinIInv, Depth, Halfway
  <2>3. Halfway(c)' /\ \A d \in Processors : d # c => Halfway(d)' = Halfway(d)
    BY <1>1 DEF Halfway
  <2>4. UNCHANGED <<ncli, guard>>
    OBVIOUS
  <2>5. \A d \in Processors : d # c =>
          ncli'[d] = Cardinality(held'[d]) + (IF guard'[d] THEN 1 ELSE 0)
                     + (IF Halfway(d)' THEN 1 ELSE 0)
    BY <1>1, <2>3, <2>4 DEF SpinIInv, Depth
  <2>6. QED
    BY <2>2, <2>3, <2>5 DEF Depth
<1>7. Stands'
  BY <1>1 DEF SpinIInv, Stands
<1>8. QED
  BY <1>3, <1>4, <1>5, <1>6, <1>7 DEF SpinIInv

\* The popcli() that brings back the state before the outermost pushcli().
LEMMA PopcliRestores ==
  ASSUME SpinIInv, NEW c \in Processors, ncli[c] > 0, popcli(c)
  PROVE  /\ ~PopcliPanics(c)
         /\ ncli' = [ncli EXCEPT ![c] = @ - 1] /\ ncli'[c] \in Nat
         /\ IF_' \in [Processors -> BOOLEAN] /\ intena' = intena
         /\ IF_'[c] = (base[c] /\ frame[c] = <<>> /\ ncli'[c] = 0)
         /\ \A d \in Processors : d # c => IF_'[d] = IF_[d] /\ ncli'[d] = ncli[d]
<1>1. ncli[c] \in Nat /\ ~IF_[c]
  BY DEF SpinIInv, InterruptsExact, SpinTypeOK
<1>2. ncli'[c] = ncli[c] - 1 /\ IF_'[c] = (ncli[c] = 1 /\ intena[c])
  BY <1>1 DEF popcli, SpinIInv, InterruptsExact, SpinTypeOK
<1>3. intena[c] = (base[c] /\ frame[c] = <<>>)
  BY DEF SpinIInv, Restores
<1>4. IF_'[c] = (base[c] /\ frame[c] = <<>> /\ ncli'[c] = 0)
  <2>1. ncli[c] = 1 <=> ncli'[c] = 0
    BY <1>1, <1>2
  <2>2. QED
    BY <1>2, <1>3, <2>1, Zenon
<1>5. IF_' \in [Processors -> BOOLEAN]
  BY DEF popcli, SpinIInv, InterruptsExact, SpinTypeOK
<1>6. QED
  BY <1>1, <1>2, <1>4, <1>5 DEF popcli, PopcliPanics, SpinIInv, InterruptsExact, SpinTypeOK

\* The popcli() of release() keeps the invariant.
LEMMA ReleasePopStep ==
  ASSUME SpinIInv, NEW c \in Processors, ReleasePop(c)
  PROVE  SpinIInv'
<1> USE DEF ReleasePop, At, lkvars, ctvars
<1>1. pc[c] = "pop"
  OBVIOUS
<1>2. ncli[c] > 0
  BY <1>1, HeldFinite DEF SpinIInv, Depth, Halfway
<1>3. ~PopcliPanics(c)
  BY <1>2 DEF PopcliPanics, SpinIInv, InterruptsExact, SpinTypeOK
<1>4. popcli(c) /\ pc' = [pc EXCEPT ![c] = "run"]
  BY <1>3
<1>5. /\ ncli' = [ncli EXCEPT ![c] = @ - 1] /\ ncli'[c] \in Nat
      /\ IF_' \in [Processors -> BOOLEAN] /\ intena' = intena
      /\ IF_'[c] = (base[c] /\ frame[c] = <<>> /\ ncli'[c] = 0)
      /\ \A d \in Processors : d # c => IF_'[d] = IF_[d] /\ ncli'[d] = ncli[d]
  BY <1>2, <1>4, PopcliRestores
<1>6. SpinTypeOK'
  BY <1>4, <1>5 DEF SpinIInv, InterruptsExact, SpinTypeOK
<1>7. pc'[c] = "run" /\ \A d \in Processors : d # c => pc'[d] = pc[d]
  BY <1>4 DEF SpinIInv, InterruptsExact, SpinTypeOK
<1>8. ncli'[c] = ncli[c] - 1 /\ ncli[c] \in Nat
  BY <1>5 DEF SpinIInv, InterruptsExact, SpinTypeOK
<1>9. Depth'
  <2>1. ncli'[c] = Cardinality(held[c]) + (IF guard[c] THEN 1 ELSE 0) + 0
    BY <1>1, <1>8, HeldFinite DEF SpinIInv, Depth, Halfway
  <2>2. QED
    BY <1>5, <1>7, <2>1 DEF SpinIInv, Depth, Halfway
<1>10. InterruptsExact'
  <2>1. held[c] # {} => ncli'[c] > 0
    BY <1>1, <1>8, HeldFinite DEF SpinIInv, Depth, Halfway
  <2>2. QED
    BY <1>5, <1>6, <2>1 DEF SpinIInv, InterruptsExact
<1>11. NeverPanics' /\ Frames' /\ OneHolder'
  BY <1>7 DEF SpinIInv, NeverPanics, Frames, OneHolder
<1>12. Restores'
  BY <1>2, <1>5 DEF SpinIInv, Restores
<1>13. Stands'
  BY <1>1, <1>7 DEF SpinIInv, Stands
<1>14. QED
  BY <1>9, <1>10, <1>11, <1>12, <1>13 DEF SpinIInv

\* A pushcli() outside any lock keeps the invariant.
LEMMA PushStep ==
  ASSUME SpinIInv, NEW c \in Processors, Push(c)
  PROVE  SpinIInv'
<1> USE DEF Push, pushcli, lkvars
<1>1. held[c] = {} /\ ~guard[c] /\ ~Halfway(c)
  BY OutsideOnly
<1>2. /\ ncli'[c] = 1 /\ guard'[c] = TRUE /\ IF_'[c] = FALSE /\ intena'[c] = IF_[c]
      /\ \A d \in Processors : d # c => /\ ncli'[d] = ncli[d] /\ guard'[d] = guard[d]
                                  /\ IF_'[d] = IF_[d] /\ intena'[d] = intena[d]
  BY DEF SpinIInv, InterruptsExact, SpinTypeOK
<1>3. SpinTypeOK'
  BY DEF SpinIInv, InterruptsExact, SpinTypeOK
<1>4. InterruptsExact'
  BY <1>1, <1>2, <1>3 DEF SpinIInv, InterruptsExact
<1>5. Frames' /\ NeverPanics' /\ OneHolder'
  BY DEF SpinIInv, Frames, NeverPanics, OneHolder
<1>6. Depth'
  <2>1. Cardinality(held[c]) = 0
    BY <1>1, FS_EmptySet
  <2>2. held' = held /\ pc' = pc
    OBVIOUS
  <2>3. ncli'[c] = Cardinality(held'[c]) + (IF guard'[c] THEN 1 ELSE 0) + (IF Halfway(c)' THEN 1 ELSE 0)
    BY <1>1, <1>2, <2>1, <2>2 DEF Halfway
  <2>4. ASSUME NEW d \in Processors, d # c
        PROVE  ncli'[d] = Cardinality(held'[d]) + (IF guard'[d] THEN 1 ELSE 0) + (IF Halfway(d)' THEN 1 ELSE 0)
    BY <1>2, <2>2, <2>4 DEF SpinIInv, Depth, Halfway
  <2>5. QED
    BY <2>3, <2>4 DEF Depth
<1>7. Restores'
  <2>1. IF_[c] = (base[c] /\ frame[c] = <<>>)
    BY DEF SpinIInv, InterruptsExact, SpinTypeOK
  <2>2. QED
    BY <1>2, <2>1 DEF SpinIInv, Restores
<1>8. Stands'
  BY DEF SpinIInv, Stands
<1>9. QED
  BY <1>4, <1>5, <1>6, <1>7, <1>8 DEF SpinIInv

\* The popcli() that ends it keeps the invariant.
LEMMA PopStep ==
  ASSUME SpinIInv, NEW c \in Processors, Pop(c)
  PROVE  SpinIInv'
<1> USE DEF Pop, At, lkvars
<1>1. held[c] = {} /\ guard[c] /\ pc[c] = "run"
  BY OwnIsHeld
<1>2. ncli[c] = 1
  <2>1. Cardinality(held[c]) = 0
    BY <1>1, FS_EmptySet
  <2>2. QED
    BY <1>1, <2>1 DEF SpinIInv, Depth, Halfway
<1>3. ~PopcliPanics(c)
  BY <1>2 DEF PopcliPanics, SpinIInv, InterruptsExact, SpinTypeOK
<1>4. popcli(c) /\ pc' = [pc EXCEPT ![c] = "run"]
  BY <1>3
<1>5. /\ ncli' = [ncli EXCEPT ![c] = @ - 1] /\ ncli'[c] \in Nat
      /\ IF_' \in [Processors -> BOOLEAN] /\ intena' = intena
      /\ IF_'[c] = (base[c] /\ frame[c] = <<>> /\ ncli'[c] = 0)
      /\ \A d \in Processors : d # c => IF_'[d] = IF_[d] /\ ncli'[d] = ncli[d]
  BY <1>2, <1>4, PopcliRestores
<1>6. SpinTypeOK'
  BY <1>4, <1>5 DEF SpinIInv, InterruptsExact, SpinTypeOK
<1>7. pc' = pc /\ ~guard'[c] /\ \A d \in Processors : d # c => guard'[d] = guard[d]
  BY <1>1, <1>4 DEF SpinIInv, InterruptsExact, SpinTypeOK
<1>8. ncli'[c] = 0
  BY <1>2, <1>5 DEF SpinIInv, InterruptsExact, SpinTypeOK
<1>9. Depth'
  <2>1. Cardinality(held[c]) = 0
    BY <1>1, FS_EmptySet
  <2>2. ~Halfway(c) /\ held'[c] = held[c] /\ \A d \in Processors : Halfway(d)' = Halfway(d)
    BY <1>1, <1>7 DEF Halfway
  <2>3. QED
    BY <1>5, <1>7, <1>8, <2>1, <2>2 DEF SpinIInv, Depth
<1>10. InterruptsExact'
  BY <1>1, <1>5, <1>6 DEF SpinIInv, InterruptsExact
<1>11. NeverPanics' /\ Frames' /\ OneHolder' /\ Stands'
  BY <1>7 DEF SpinIInv, NeverPanics, Frames, OneHolder, Stands
<1>12. Restores'
  BY <1>5, <1>8 DEF SpinIInv, Restores
<1>13. QED
  BY <1>9, <1>10, <1>11, <1>12 DEF SpinIInv

\* An interrupt keeps the invariant.
LEMMA InterruptStep ==
  ASSUME SpinIInv, NEW c \in Processors, Interrupt(c)
  PROVE  SpinIInv'
<1> USE DEF Interrupt, lkvars
<1>1. ncli[c] = 0 /\ base[c] /\ frame[c] = <<>>
  BY DEF SpinIInv, InterruptsExact
<1>2. held[c] = {} /\ ~guard[c] /\ ~Halfway(c) /\ pc[c] = "run"
  BY <1>1, OutsideOnly
<1> DEFINE k == [pc |-> pc[c], arg |-> arg[c], guard |-> guard[c], held |-> held[c]]
<1>3. k \in Contexts /\ k.pc = "run" /\ ~k.guard /\ k.held = {}
  BY <1>2 DEF Contexts, SpinIInv, InterruptsExact, SpinTypeOK
<1>4. frame' = [frame EXCEPT ![c] = <<k>>]
  OBVIOUS
<1> HIDE DEF k
<1>5. <<k>> # <<>> /\ <<k>>[1] = k
  OBVIOUS
<1>6. /\ frame'[c] = <<k>> /\ IF_'[c] = FALSE
      /\ \A d \in Processors : d # c => frame'[d] = frame[d] /\ IF_'[d] = IF_[d]
  BY <1>4 DEF SpinIInv, InterruptsExact, SpinTypeOK
<1>7. pc' = pc /\ guard' = guard
  BY <1>2 DEF SpinIInv, InterruptsExact, SpinTypeOK
<1>8. SpinTypeOK'
  <2>1. frame' \in [Processors -> {<<>>} \cup {<<x>> : x \in Contexts}]
    BY <1>3, <1>4 DEF SpinIInv, InterruptsExact, SpinTypeOK
  <2>2. QED
    BY <1>7, <2>1 DEF SpinIInv, InterruptsExact, SpinTypeOK
<1>9. InterruptsExact'
  BY <1>2, <1>5, <1>6, <1>8, SMTT(20) DEF SpinIInv, InterruptsExact
<1>10. Frames'
  BY <1>1, <1>3, <1>5, <1>6 DEF SpinIInv, Frames
<1>11. NeverPanics' /\ Depth' /\ OneHolder' /\ Stands'
  BY <1>7 DEF SpinIInv, NeverPanics, Depth, Halfway, OneHolder, Stands
<1>12. Restores'
  BY <1>1, <1>6 DEF SpinIInv, Restores
<1>13. QED
  BY <1>9, <1>10, <1>11, <1>12 DEF SpinIInv

\* The return from a handler keeps the invariant.
LEMMA IretStep ==
  ASSUME SpinIInv, NEW c \in Processors, Iret(c)
  PROVE  SpinIInv'
<1> USE DEF Iret, lkvars
<1>1. held[c] = {} /\ ~guard[c] /\ pc[c] = "run"
  BY OwnIsHeld
<1>2. ncli[c] = 0
  BY <1>1, NothingNested
<1>3. PICK k \in Contexts : frame[c] = <<k>>
  BY DEF SpinIInv, InterruptsExact, SpinTypeOK
<1>4. /\ base[c] /\ k.pc = "run" /\ k.guard = FALSE /\ k.arg \in Locks
  <2>1. frame[c] # <<>> /\ frame[c][1] = k
    BY <1>3
  <2>2. k.guard \in BOOLEAN /\ k.arg \in Locks
    BY DEF Contexts
  <2>3. QED
    BY <2>1, <2>2 DEF SpinIInv, Frames
<1>5. pc' = pc /\ guard' = guard
  <2>1. pc' = [pc EXCEPT ![c] = k.pc] /\ guard' = [guard EXCEPT ![c] = k.guard]
    BY <1>3
  <2>2. guard[c] = FALSE
    BY <1>1 DEF SpinIInv, InterruptsExact, SpinTypeOK
  <2>3. QED
    <3>1. pc \in [Processors -> {"run", "check", "spin", "won", "clear", "pop", "panic"}]
          /\ guard \in [Processors -> BOOLEAN]
      BY DEF SpinIInv, InterruptsExact, SpinTypeOK
    <3>2. pc' = pc
      BY <1>1, <1>4, <2>1, <3>1
    <3>3. guard' = guard
      <4>1. k.guard = guard[c]
        BY <1>4, <2>2, Zenon
      <4>2. guard' = [guard EXCEPT ![c] = guard[c]]
        BY <2>1, <4>1, Zenon
      <4>3. QED
        BY <3>1, <4>2
    <3>4. QED
      BY <3>2, <3>3
<1>6. arg' = [arg EXCEPT ![c] = k.arg]
  BY <1>3
<1>7. /\ frame'[c] = <<>> /\ IF_'[c] = TRUE
      /\ \A d \in Processors : d # c => /\ frame'[d] = frame[d] /\ IF_'[d] = IF_[d]
                                  /\ arg'[d] = arg[d]
  BY <1>6 DEF SpinIInv, InterruptsExact, SpinTypeOK
<1>8. SpinTypeOK'
  BY <1>4, <1>5, <1>6 DEF SpinIInv, InterruptsExact, SpinTypeOK
<1>9. InterruptsExact'
  BY <1>1, <1>2, <1>4, <1>7, <1>8 DEF SpinIInv, InterruptsExact
<1>10. Frames' /\ Restores'
  BY <1>2, <1>7 DEF SpinIInv, Frames, Restores
<1>11. NeverPanics' /\ Depth' /\ OneHolder'
  BY <1>5 DEF SpinIInv, NeverPanics, Depth, Halfway, OneHolder
<1>12. Stands'
  BY <1>1, <1>5, <1>7 DEF SpinIInv, Stands
<1>13. QED
  BY <1>9, <1>10, <1>11, <1>12 DEF SpinIInv

\* The sti() of scheduler() keeps the invariant.
LEMMA StiStep ==
  ASSUME SpinIInv, NEW c \in Processors, Sti(c)
  PROVE  SpinIInv'
<1> USE DEF Sti, lkvars
<1>1. ncli[c] = 0
  BY NothingNested
<1>2. SpinTypeOK'
  BY DEF SpinIInv, InterruptsExact, SpinTypeOK
<1>3. /\ IF_'[c] = TRUE /\ base'[c] = TRUE
      /\ \A d \in Processors : d # c => IF_'[d] = IF_[d] /\ base'[d] = base[d]
  BY DEF SpinIInv, InterruptsExact, SpinTypeOK
<1>4. InterruptsExact' /\ Frames' /\ Restores'
  BY <1>1, <1>2, <1>3 DEF SpinIInv, InterruptsExact, Frames, Restores
<1>5. NeverPanics' /\ Depth' /\ OneHolder' /\ Stands'
  BY DEF SpinIInv, NeverPanics, Depth, Halfway, OneHolder, Stands
<1>6. QED
  BY <1>4, <1>5 DEF SpinIInv

-----------------------------------------------------------------------------
\* Every step, and every stutter, keeps the invariant.
LEMMA SpinStepIInv ==
  ASSUME SpinIInv, [SpinNext]_spinvars
  PROVE  SpinIInv'
<1>1. ASSUME NEW c \in Processors, Step(c) PROVE SpinIInv'
  BY <1>1, AcquireCallStep, ReleaseCallStep, AcquireCheckStep, AcquireXchgStep,
     AcquireRecordStep, ReleaseStoreStep, ReleasePopStep, PushStep, PopStep DEF Step
<1>2. ASSUME NEW c \in Processors, Interrupt(c) \/ Iret(c) \/ Sti(c) PROVE SpinIInv'
  BY <1>2, InterruptStep, IretStep, StiStep
<1>3. CASE UNCHANGED spinvars
  BY <1>3 DEF spinvars, lkvars, clivars, ctvars, SpinIInv, InterruptsExact, SpinTypeOK, NeverPanics, Frames,
              Depth, Halfway, Restores, OneHolder, Stands
<1>4. QED
  BY <1>1, <1>2, <1>3 DEF SpinNext

\* The invariant holds in every reachable state.
LEMMA SpinInvariance == SpinSpec => []SpinIInv
<1>1. SpinInit => SpinIInv
  BY SpinInitIInv
<1>2. SpinIInv /\ [SpinNext]_spinvars => SpinIInv'
  BY SpinStepIInv
<1>3. QED
  BY <1>1, <1>2, PTL DEF SpinSpec

\* One lock in one step: the only ones that move a processor in or out are
\* the xchg() that wins and the store that clears.
LEMMA SpinStepRefines ==
  ASSUME SpinIInv, [SpinNext]_spinvars, NEW l \in Locks
  PROVE  Exclusive(l)!Next \/ UNCHANGED Inside(l)
<1>1. ASSUME NEW c \in Processors, AcquireXchg(c)
      PROVE  Exclusive(l)!Next \/ UNCHANGED Inside(l)
  <2>1. held' = [held EXCEPT ![c] = @ \cup {arg[c]}] /\ \A d \in Processors : arg[c] \notin held[d]
    <3>1. arg[c] \in Locks /\ locked[arg[c]] = 0
      BY <1>1 DEF AcquireXchg, SpinIInv, InterruptsExact, SpinTypeOK
    <3>2. \A d \in Processors : arg[c] \notin held[d]
      BY <3>1 DEF SpinIInv, OneHolder
    <3>3. QED
      BY <1>1, <3>2 DEF AcquireXchg
  <2>2. CASE l = arg[c]
    <3>1. Inside(l) = {} /\ Inside(l)' = {c}
      BY <2>1, <2>2 DEF Inside, SpinIInv, InterruptsExact, SpinTypeOK
    <3>2. QED
      BY <3>1 DEF Exclusive!Next, Exclusive!Enter
  <2>3. CASE l # arg[c]
    BY <2>1, <2>3 DEF Inside, SpinIInv, InterruptsExact, SpinTypeOK
  <2>4. QED
    BY <2>2, <2>3
<1>2. ASSUME NEW c \in Processors, ReleaseStore(c)
      PROVE  Exclusive(l)!Next \/ UNCHANGED Inside(l)
  <2>1. /\ held' = [held EXCEPT ![c] = @ \ {arg[c]}] /\ arg[c] \in held[c]
        /\ \A d \in Processors : d # c => arg[c] \notin held[d]
    BY <1>2 DEF ReleaseStore, At, SpinIInv, OneHolder, Stands, InterruptsExact, SpinTypeOK
  <2>2. CASE l = arg[c]
    <3>1. Inside(l) = {c} /\ Inside(l)' = {}
      BY <2>1, <2>2 DEF Inside, SpinIInv, InterruptsExact, SpinTypeOK
    <3>2. QED
      BY <3>1 DEF Exclusive!Next, Exclusive!Leave
  <2>3. CASE l # arg[c]
    BY <2>1, <2>3 DEF Inside, SpinIInv, InterruptsExact, SpinTypeOK
  <2>4. QED
    BY <2>2, <2>3
<1>3. CASE UNCHANGED held
  BY <1>3 DEF Inside
<1>4. QED
  BY <1>1, <1>2, <1>3 DEF SpinNext, Step, AcquireCall, ReleaseCall, AcquireCheck, AcquireRecord,
     ReleasePop, Push, Pop, Interrupt, Iret, Sti, spinvars, ctvars

-----------------------------------------------------------------------------
\* spinlock.c: no panic of acquire(), release() or popcli() is reached.
THEOREM PanicsNever == SpinSpec => []NeverPanics
<1>1. SpinIInv => NeverPanics
  BY DEF SpinIInv
<1>2. QED
  BY <1>1, SpinInvariance, PTL

\* spinlock.c: pushcli() and popcli() nest, and bring the interrupts back.
THEOREM InterruptsRestored == SpinSpec => []InterruptsExact
<1>1. SpinIInv => InterruptsExact
  BY DEF SpinIInv
<1>2. QED
  BY <1>1, SpinInvariance, PTL

\* spinlock.c: each spinlock is an exclusive lock of processors.
THEOREM SpinRefinement == SpinSpec => ImplementsMutex
<1>1. SpinInit => \A l \in Locks : Exclusive(l)!Init
  BY DEF SpinInit, Inside, Exclusive!Init
<1>2. SpinIInv /\ [SpinNext]_spinvars => [\A l \in Locks : Exclusive(l)!Next \/ UNCHANGED Inside(l)]_spinvars
  BY SpinStepRefines
<1>3. QED
  BY <1>1, <1>2, SpinInvariance, PTL DEF SpinSpec, ImplementsMutex

-----------------------------------------------------------------------------
(* The scheduler. *)

\* The count of a process on a processor stays below the end of its quantum.
QuantumLeft == \A s \in Slots : state[s] = "RUNNING" => tick_count[s] <= 2

\* The inductive invariant.
SchedIInv == SchedTypeOK /\ OnOneCpu /\ QuantumLeft

USE SchedulerAssumption DEF Slots

\* The invariant holds when the system starts.
LEMMA SchedInitIInv == SchedInit => SchedIInv
  BY DEF SchedInit, SchedIInv, SchedTypeOK, OnOneCpu, QuantumLeft

-----------------------------------------------------------------------------
\* What a processor finds when it picks: the states st and counts tc, in which
\* nothing runs on it.
Vacant(c, st, tc) ==
  /\ st \in [Slots -> {"UNUSED", "SLEEPING", "RUNNABLE", "RUNNING", "ZOMBIE"}]
  /\ tc \in [Slots -> 0..3]
  /\ \A s \in Slots :
       /\ st[s] = "RUNNING" <=> \E d \in CPUs : d # c /\ proc[d] = s
       /\ st[s] = "RUNNING" => tc[s] <= 2

\* scheduler() dispatching a RUNNABLE entry keeps the parts of the invariant.
LEMMA DispatchStep ==
  ASSUME SchedIInv, NEW c \in CPUs, NEW st, NEW tc, Vacant(c, st, tc),
         NEW s \in Slots, st[s] = "RUNNABLE", Dispatch(c, st, tc, s)
  PROVE  /\ state' \in [Slots -> {"UNUSED", "SLEEPING", "RUNNABLE", "RUNNING", "ZOMBIE"}]
         /\ tick_count' \in [Slots -> 0..3]
         /\ proc' \in [CPUs -> Slots \cup {None}]
         /\ OnOneCpu' /\ QuantumLeft'
<1>1. /\ state' = [st EXCEPT ![s] = "RUNNING"]
      /\ tick_count' = [tc EXCEPT ![s] = 0]
      /\ proc' = [proc EXCEPT ![c] = s]
  BY DEF Dispatch
<1>2. proc \in [CPUs -> Slots \cup {None}]
  BY DEF SchedIInv, SchedTypeOK
<1>3. /\ state' \in [Slots -> {"UNUSED", "SLEEPING", "RUNNABLE", "RUNNING", "ZOMBIE"}]
      /\ tick_count' \in [Slots -> 0..3]
      /\ proc' \in [CPUs -> Slots \cup {None}]
  BY <1>1, <1>2 DEF Vacant
<1>4. ASSUME NEW d \in CPUs, d # c PROVE proc'[d] = proc[d] /\ proc[d] # s
  BY <1>1, <1>2, <1>4 DEF Vacant
<1>5. proc'[c] = s /\ state'[s] = "RUNNING" /\ tick_count'[s] = 0
  BY <1>1, <1>2 DEF Vacant
<1>6. ASSUME NEW t \in Slots, t # s
      PROVE  state'[t] = st[t] /\ tick_count'[t] = tc[t]
  BY <1>1, <1>6 DEF Vacant
<1>7. OnOneCpu'
  BY <1>4, <1>5, <1>6 DEF OnOneCpu, Vacant, SchedIInv
<1>8. QuantumLeft'
  BY <1>5, <1>6 DEF QuantumLeft, Vacant
<1>9. QED
  BY <1>3, <1>7, <1>8

\* A pass of scheduler() that dispatches nobody keeps the parts of the invariant.
LEMMA IdleStep ==
  ASSUME SchedIInv, NEW c \in CPUs, NEW st, NEW tc, Vacant(c, st, tc), Idle(c, st, tc)
  PROVE  /\ state' \in [Slots -> {"UNUSED", "SLEEPING", "RUNNABLE", "RUNNING", "ZOMBIE"}]
         /\ tick_count' \in [Slots -> 0..3]
         /\ proc' \in [CPUs -> Slots \cup {None}]
         /\ OnOneCpu' /\ QuantumLeft'
<1>1. state' = st /\ tick_count' = tc /\ proc' = [proc EXCEPT ![c] = None]
  BY DEF Idle
<1>2. proc \in [CPUs -> Slots \cup {None}]
  BY DEF SchedIInv, SchedTypeOK
<1>3. \A d \in CPUs : proc'[d] = IF d = c THEN None ELSE proc[d]
  BY <1>1, <1>2
<1>4. OnOneCpu'
  BY <1>1, <1>3 DEF OnOneCpu, Vacant, SchedIInv
<1>5. QED
  BY <1>1, <1>2, <1>4 DEF QuantumLeft, Vacant

\* Scan keeps the invariant.
LEMMA ScanStep ==
  ASSUME SchedIInv, NEW c \in CPUs, NEW st, NEW tc, Vacant(c, st, tc), NEW i,
         ScanFrom(c, st, tc, i), UNCHANGED pid, nextpid' \in Nat
  PROVE  SchedIInv'
<1>1. CASE Idle(c, st, tc)
  BY <1>1, IdleStep DEF SchedIInv, SchedTypeOK
<1>2. ASSUME NEW s \in EPicks(st), Dispatch(c, st, tc, s) PROVE SchedIInv'
  BY <1>2, DispatchStep DEF SchedIInv, SchedTypeOK, EPicks
<1>3. QED
  BY <1>1, <1>2 DEF ScanFrom

\* A process that gives its processor up leaves it vacant.
LEMMA LeavingVacates ==
  ASSUME SchedIInv, NEW c \in CPUs, proc[c] # None,
         NEW new \in {"RUNNABLE", "SLEEPING", "ZOMBIE"},
         NEW tc \in [Slots -> 0..3],
         \A s \in Slots : s # proc[c] => tc[s] = tick_count[s]
  PROVE  Vacant(c, [state EXCEPT ![proc[c]] = new], tc)
<1>1. proc[c] \in Slots
  BY DEF SchedIInv, SchedTypeOK
<1>2. \A d \in CPUs : d # c => proc[d] # proc[c]
  BY <1>1 DEF SchedIInv, OnOneCpu
<1>3. QED
  BY <1>1, <1>2 DEF SchedIInv, SchedTypeOK, OnOneCpu, QuantumLeft, Vacant

\* sched() back to the processor's scheduler keeps the invariant.
LEMMA SchedStep ==
  ASSUME SchedIInv, NEW c \in CPUs, proc[c] # None,
         NEW new \in {"RUNNABLE", "SLEEPING", "ZOMBIE"},
         NEW tc \in [Slots -> 0..3],
         \A s \in Slots : s # proc[c] => tc[s] = tick_count[s],
         Sched(c, new, tc), UNCHANGED <<pid, nextpid>>
  PROVE  SchedIInv'
<1> DEFINE st == [state EXCEPT ![proc[c]] = new]
<1>1. Vacant(c, st, tc)
  BY LeavingVacates
<1>2. nextpid' \in Nat /\ pid' = pid
  BY DEF SchedIInv, SchedTypeOK
<1> HIDE DEF st
<1>3. CASE ScanFrom(c, st, tc, proc[c] + 1)
  BY <1>1, <1>2, <1>3, ScanStep
<1>4. CASE Idle(c, st, tc)
  BY <1>1, <1>2, <1>4, IdleStep DEF SchedIInv, SchedTypeOK
<1>5. QED
  BY <1>3, <1>4 DEF Sched, st

\* StartPass keeps the invariant.
LEMMA StartPassStep ==
  ASSUME SchedIInv, NEW c \in CPUs, StartPass(c)
  PROVE  SchedIInv'
<1>1. proc[c] = None /\ UNCHANGED <<pid, nextpid>>
  BY DEF StartPass
<1>2. Vacant(c, state, tick_count)
  BY <1>1 DEF SchedIInv, SchedTypeOK, OnOneCpu, QuantumLeft, Vacant
<1>3. CASE ScanFrom(c, state, tick_count, 1)
  BY <1>1, <1>2, <1>3, ScanStep DEF SchedIInv, SchedTypeOK
<1>4. ASSUME NEW s \in PPicks(state), Dispatch(c, state, tick_count, s) PROVE SchedIInv'
  BY <1>1, <1>2, <1>4, DispatchStep DEF SchedIInv, SchedTypeOK, PPicks
<1>5. QED
  BY <1>3, <1>4 DEF StartPass

\* The counts after a tick.
LEMMA TickCounts ==
  ASSUME SchedIInv, NEW c \in CPUs, proc[c] # None
  PROVE  /\ proc[c] \in Slots /\ tick_count[proc[c]] \in 0..2
         /\ Ticked(c) \in [Slots -> 0..3]
         /\ Ticked(c)[proc[c]] = tick_count[proc[c]] + 1
         /\ \A s \in Slots : s # proc[c] => Ticked(c)[s] = tick_count[s]
<1>1. proc[c] \in Slots /\ tick_count \in [Slots -> 0..3]
  BY DEF SchedIInv, SchedTypeOK
<1>2. state[proc[c]] = "RUNNING"
  BY <1>1 DEF SchedIInv, OnOneCpu
<1>3. tick_count[proc[c]] \in 0..2
  BY <1>1, <1>2 DEF SchedIInv, QuantumLeft
<1>4. QED
  BY <1>1, <1>3 DEF Ticked

\* Tick keeps the invariant.
LEMMA TickStep ==
  ASSUME SchedIInv, NEW c \in CPUs, Tick(c)
  PROVE  SchedIInv'
<1>1. proc[c] # None /\ UNCHANGED <<pid, nextpid>>
  BY DEF Tick
<1>2. CASE Sched(c, "RUNNABLE", Ticked(c))
  BY <1>1, <1>2, TickCounts, SchedStep
<1>3. CASE Ticked(c)[proc[c]] < 3 /\ tick_count' = Ticked(c) /\ UNCHANGED <<state, proc>>
  <2>1. tick_count' \in [Slots -> 0..3]
    BY <1>1, <1>3, TickCounts
  <2>2. QuantumLeft'
    BY <1>1, <1>3, TickCounts DEF SchedIInv, QuantumLeft
  <2>3. QED
    BY <1>1, <1>3, <2>1, <2>2 DEF SchedIInv, SchedTypeOK, OnOneCpu
<1>4. QED
  BY <1>2, <1>3 DEF Tick

\* Leave keeps the invariant.
LEMMA LeaveStep ==
  ASSUME SchedIInv, NEW c \in CPUs, Block(c) \/ Exit(c)
  PROVE  SchedIInv'
<1>1. tick_count \in [Slots -> 0..3]
  BY DEF SchedIInv, SchedTypeOK
<1>2. QED
  BY <1>1, SchedStep DEF Block, Exit

\* fork, wakeup and wait change only entries that no processor runs.
LEMMA TableStep ==
  ASSUME SchedIInv, (\E c \in CPUs : Fork(c)) \/ (\E s \in Slots : Wake(s) \/ Reap(s))
  PROVE  SchedIInv'
<1>1. UNCHANGED <<tick_count, proc>>
  BY DEF Fork, Wake, Reap
<1>2. \A s \in Slots : state'[s] = "RUNNING" <=> state[s] = "RUNNING"
  BY DEF SchedIInv, SchedTypeOK, Fork, Wake, Reap
<1>3. /\ state' \in [Slots -> {"UNUSED", "SLEEPING", "RUNNABLE", "RUNNING", "ZOMBIE"}]
      /\ pid' \in [Slots -> Nat] /\ nextpid' \in Nat
  BY SMTT(20) DEF SchedIInv, SchedTypeOK, Fork, Wake, Reap
<1>4. QED
  BY <1>1, <1>2, <1>3 DEF SchedIInv, SchedTypeOK, OnOneCpu, QuantumLeft

\* Every step, and every stutter, keeps the invariant.
LEMMA SchedNextIInv == SchedIInv /\ [SchedNext]_schedvars => SchedIInv'
<1> SUFFICES ASSUME SchedIInv, [SchedNext]_schedvars PROVE SchedIInv'
  OBVIOUS
<1>1. CASE UNCHANGED schedvars
  BY <1>1 DEF schedvars, SchedIInv, SchedTypeOK, OnOneCpu, QuantumLeft
<1>2. QED
  BY <1>1, StartPassStep, TickStep, LeaveStep, TableStep DEF SchedNext

\* The invariant holds in every reachable state.
THEOREM SchedInvariance == SchedSpec => []SchedIInv
<1>1. QED
  BY SchedInitIInv, SchedNextIInv, PTL DEF SchedSpec

-----------------------------------------------------------------------------
\* scheduler(), sched() and trap() never let two processors run one process.
THEOREM OneProcessor == SchedSpec => [](SchedTypeOK /\ OnOneCpu)
<1>1. SchedIInv => SchedTypeOK /\ OnOneCpu
  BY DEF SchedIInv
<1>2. QED
  BY <1>1, SchedInvariance, PTL

-----------------------------------------------------------------------------
\* Giving one processor up changes no other one, and the scan goes on behind
\* the process that left.
LEMMA SchedLocal ==
  ASSUME SchedIInv, NEW c \in CPUs, proc[c] # None, NEW new, NEW tc, Sched(c, new, tc)
  PROVE  /\ \A d \in CPUs : d # c => proc'[d] = proc[d]
         /\ state'[proc[c]] = new
<1>1. proc[c] \in Slots /\ proc \in [CPUs -> Slots \cup {None}]
  BY DEF SchedIInv, SchedTypeOK
<1> DEFINE st == [state EXCEPT ![proc[c]] = new]
<1>2. DOMAIN st = Slots /\ st[proc[c]] = new
  BY <1>1 DEF SchedIInv, SchedTypeOK
<1>3. CASE Idle(c, st, tc)
  BY <1>1, <1>2, <1>3 DEF Idle
<1>4. ASSUME NEW s \in EPicks(st), s >= proc[c] + 1, Dispatch(c, st, tc, s)
      PROVE  /\ \A d \in CPUs : d # c => proc'[d] = proc[d]
             /\ state'[proc[c]] = new
  <2>1. s # proc[c]
    BY <1>1, <1>4 DEF EPicks
  <2>2. QED
    BY <1>1, <1>2, <1>4, <2>1 DEF Dispatch
<1>5. QED
  BY <1>3, <1>4 DEF Sched, ScanFrom

\* A RUNNABLE or RUNNING process leaves an E-core only with its third tick.
LEMMA QuantumStep ==
  ASSUME SchedIInv, [SchedNext]_schedvars, NEW c \in ECores, proc[c] # None,
         state'[proc[c]] \in {"RUNNABLE", "RUNNING"}, proc'[c] # proc[c]
  PROVE  tick_count[proc[c]] = 2
<1>1. c \in CPUs
  BY DEF CPUs
<1>2. ASSUME NEW d \in CPUs, StartPass(d) PROVE FALSE
  <2>1. proc[d] = None /\ proc \in [CPUs -> Slots \cup {None}]
    BY <1>2 DEF StartPass, SchedIInv, SchedTypeOK
  <2>2. proc'[c] = proc[c]
    BY <1>1, <1>2, <2>1 DEF StartPass, ScanFrom, Idle, Dispatch
  <2>3. QED
    BY <2>2
<1>3. ASSUME NEW d \in CPUs, Block(d) \/ Exit(d) PROVE FALSE
  <2>1. proc[d] # None /\ (Sched(d, "SLEEPING", tick_count) \/ Sched(d, "ZOMBIE", tick_count))
    BY <1>3 DEF Block, Exit
  <2>2. c = d
    BY <1>1, <2>1, SchedLocal
  <2>3. state'[proc[c]] \in {"SLEEPING", "ZOMBIE"}
    BY <2>1, <2>2, SchedLocal
  <2>4. QED
    BY <2>3
<1>4. ASSUME NEW d \in CPUs, Tick(d) PROVE tick_count[proc[c]] = 2
  <2>1. proc[d] # None
    BY <1>4 DEF Tick
  <2>2. CASE d = c
    <3>1. ~(Ticked(c)[proc[c]] < 3)
      BY <1>4, <2>2 DEF Tick
    <3>2. QED
      BY <1>1, <2>1, <2>2, <3>1, TickCounts
  <2>3. CASE d # c
    <3>1. Sched(d, "RUNNABLE", Ticked(d))
      BY <1>4 DEF Tick
    <3>2. QED
      BY <1>1, <2>1, <2>3, <3>1, SchedLocal
  <2>4. QED
    BY <2>2, <2>3
<1>5. UNCHANGED proc => FALSE
  OBVIOUS
<1>6. QED
  BY <1>2, <1>3, <1>4, <1>5 DEF SchedNext, schedvars, Fork, Wake, Reap

\* trap() on an E-core takes a process off only with its third tick.
THEOREM QuantaFull == SchedSpec => FullQuantum
<1>1. SchedIInv /\ [SchedNext]_schedvars =>
        [ \A c \in ECores :
            /\ proc[c] # None
            /\ state[proc[c]] = "RUNNING"
            /\ state'[proc[c]] \in {"RUNNABLE", "RUNNING"} /\ proc'[c] # proc[c]
            => tick_count[proc[c]] = 2 ]_schedvars
  BY QuantumStep
<1>2. QED
  BY <1>1, SchedInvariance, PTL DEF SchedSpec, FullQuantum

=============================================================================
