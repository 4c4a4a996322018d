---------------------------- MODULE BuffersProofs ----------------------------
(***************************************************************************)
(* Proofs about Buffers for every number of processes, buffers and blocks: *)
(* counts, owners and the queue are exact, and whatever is recycled,       *)
(* queued or written back, the cache is a BlockStore.                      *)
(***************************************************************************)
EXTENDS Buffers, FiniteSetTheorems, TLAPS

\* A process inside a call has a buffer, which it has not got from bread()
\* yet or not any more, and a buffer that somebody uses caches a block.
Placed ==
  /\ \A p \in Procs : (at[p] = NoBuf <=> pc[p] = "runs") /\ at[p] \notin held[p]
  /\ \A p \in Procs, b \in Bufs : p \in Users(b) => blockno[b] \in Blocks

\* What the flags say: a buffer that is valid and not dirty is what the disk
\* has, unless the disk may fail to read it.
Coherent ==
  /\ \A b \in Bufs : dirty[b] => valid[b]
  /\ \A p \in Procs, b \in Bufs : b \in held[p] => valid[b]
  /\ \A p \in Procs, b \in Bufs : pc[p] = "tests" /\ at[p] = b => valid[b] /\ ~dirty[b]
  /\ \A b \in Bufs :
       valid[b] /\ ~dirty[b] /\ blockno[b] \in Blocks \ Flaky => data[b] = disk[blockno[b]]

IInv == CacheExact /\ Placed /\ Coherent

-----------------------------------------------------------------------------
\* The users of a buffer are finitely many, so refcnt can count them.
LEMMA UsersFinite ==
  ASSUME NEW b
  PROVE  IsFiniteSet(Users(b)) /\ IsFiniteSet(Users(b)')
<1>1. Users(b) \in SUBSET Procs /\ Users(b)' \in SUBSET Procs
  BY DEF Users
<1>2. QED
  BY <1>1, FS_Subset, BuffersAssumption

\* A process that is inside a call has a buffer.
LEMMA InsideHasBuffer ==
  ASSUME IInv, NEW p \in Procs, pc[p] # "runs"
  PROVE  /\ at[p] \in Bufs /\ at[p] \notin held[p] /\ blockno[at[p]] \in Blocks
         /\ p \in Users(at[p])
<1>1. at[p] \in Bufs /\ at[p] \notin held[p]
  BY DEF IInv, CacheExact, TypeOK, Placed
<1>2. QED
  BY <1>1 DEF IInv, Placed, Users

\* Nobody uses a buffer whose count is zero, hence nobody has it.
LEMMA Unused ==
  ASSUME IInv, NEW b \in Bufs, refcnt[b] = 0
  PROVE  Users(b) = {} /\ owner[b] = NoOne
<1>1. Users(b) = {}
  BY UsersFinite, FS_EmptySet DEF IInv, CacheExact, CountsExact
<1>2. QED
  BY <1>1 DEF IInv, CacheExact, TypeOK, OwnersExact, Users

\* A buffer that a process has is used by it.
LEMMA OwnerUses ==
  ASSUME IInv, NEW p \in Procs, NEW b \in Bufs, owner[b] = p
  PROVE  p \in Users(b) /\ blockno[b] \in Blocks
BY DEF IInv, CacheExact, OwnersExact, Placed, Users

\* Steps that move no process between buffers leave the counts alone.
LEMMA SameUsers ==
  ASSUME IInv, refcnt' = refcnt, \A b \in Bufs : Users(b)' = Users(b)
  PROVE  CountsExact'
BY DEF IInv, CacheExact, CountsExact

-----------------------------------------------------------------------------
\* The invariant holds when the system starts.
LEMMA InitIInv ==
  ASSUME Init
  PROVE  IInv
<1>1. lru \in [1..Cardinality(Bufs) -> Bufs] /\ Range(lru) = Bufs
  <2>1. PICK f : f \in Bijection(1..Cardinality(Bufs), Bufs)
    BY FS_CardinalityType, BuffersAssumption DEF ExistsBijection
  <2>2. f \in [1..Cardinality(Bufs) -> Bufs] /\ Range(f) = Bufs
    BY <2>1 DEF Bijection, Injection, Surjection, Range
  <2>3. QED
    BY <2>2 DEF Init
<1>2. TypeOK
  BY <1>1, BuffersAssumption DEF Init, TypeOK
<1>3. \A b \in Bufs : Users(b) = {}
  BY BuffersAssumption DEF Init, Users
<1>4. CountsExact
  BY <1>3, FS_EmptySet DEF Init, CountsExact
<1>5. OneBufferPerBlock /\ OwnersExact
  BY BuffersAssumption DEF Init, OneBufferPerBlock, OwnersExact
<1>6. QueueExact
  BY DEF Init, QueueExact, Range
<1>7. Placed
  BY <1>3 DEF Init, Placed
<1>8. Coherent
  BY DEF Init, Coherent
<1>9. QED
  BY <1>2, <1>4, <1>5, <1>6, <1>7, <1>8 DEF IInv, CacheExact

-----------------------------------------------------------------------------
\* One lemma per action: the invariant survives it.
LEMMA HitStep ==
  ASSUME IInv, NEW p \in Procs, NEW k \in Blocks, Hit(p, k)
  PROVE  IInv'
<1> USE DEF Hit, Asks, At, Goto
<1>1. PICK b \in Bufs :
        /\ blockno[b] = k
        /\ refcnt' = [refcnt EXCEPT ![b] = @ + 1]
        /\ pc' = [pc EXCEPT ![p] = "locks"] /\ at' = [at EXCEPT ![p] = b]
  OBVIOUS
<1>2. at[p] = NoBuf /\ b \notin held[p] /\ NoBuf \notin Bufs
  BY <1>1, BuffersAssumption DEF IInv, Placed
<1>3. p \notin Users(b) /\ Users(b)' = Users(b) \cup {p}
  BY <1>1, <1>2 DEF IInv, CacheExact, TypeOK, Users
<1>4. \A c \in Bufs : c # b => Users(c)' = Users(c)
  BY <1>1, <1>2 DEF IInv, CacheExact, TypeOK, Users
<1>5. TypeOK'
  BY <1>1 DEF IInv, CacheExact, TypeOK
<1>6. CountsExact'
  <2>1. Cardinality(Users(b)') = Cardinality(Users(b)) + 1
    BY <1>3, UsersFinite, FS_AddElement
  <2>2. refcnt'[b] = Cardinality(Users(b)')
    BY <1>1, <2>1 DEF IInv, CacheExact, CountsExact, TypeOK
  <2>3. \A c \in Bufs : c # b => refcnt'[c] = Cardinality(Users(c)')
    BY <1>1, <1>4 DEF IInv, CacheExact, CountsExact, TypeOK
  <2>4. QED
    BY <2>2, <2>3 DEF CountsExact
<1>7. OneBufferPerBlock'
  BY DEF IInv, CacheExact, OneBufferPerBlock
<1>8. OwnersExact'
  BY <1>1, <1>2 DEF IInv, CacheExact, TypeOK, OwnersExact
<1>9. QueueExact'
  BY <1>1, <1>2 DEF IInv, CacheExact, TypeOK, QueueExact, Command
<1>10. Placed'
  BY <1>1, <1>2, <1>3, <1>4 DEF IInv, CacheExact, TypeOK, Placed
<1>11. Coherent'
  BY <1>1 DEF IInv, CacheExact, TypeOK, Coherent
<1>12. QED
  BY <1>5, <1>6, <1>7, <1>8, <1>9, <1>10, <1>11 DEF IInv, CacheExact

\* bget() recycling a buffer keeps the invariant.
LEMMA RecycleStep ==
  ASSUME IInv, NEW p \in Procs, NEW k \in Blocks, Recycle(p, k)
  PROVE  IInv'
<1> USE DEF Recycle, Asks, At, Goto
<1>1. PICK b \in Bufs :
        /\ Recyclable(b)
        /\ blockno' = [blockno EXCEPT ![b] = k]
        /\ valid' = [valid EXCEPT ![b] = FALSE]
        /\ dirty' = [dirty EXCEPT ![b] = FALSE]
        /\ refcnt' = [refcnt EXCEPT ![b] = 1]
        /\ pc' = [pc EXCEPT ![p] = "locks"] /\ at' = [at EXCEPT ![p] = b]
  BY DEF IInv, CacheExact, TypeOK
<1>2. at[p] = NoBuf /\ NoBuf \notin Bufs
  BY BuffersAssumption DEF IInv, Placed
<1>3. Users(b) = {} /\ owner[b] = NoOne
  BY <1>1, Unused DEF Recyclable
<1>4. Users(b)' = {p}
  BY <1>1, <1>2, <1>3 DEF IInv, CacheExact, TypeOK, Users
<1>5. \A c \in Bufs : c # b => Users(c)' = Users(c)
  BY <1>1, <1>2 DEF IInv, CacheExact, TypeOK, Users
<1>6. TypeOK'
  BY <1>1 DEF IInv, CacheExact, TypeOK
<1>7. CountsExact'
  <2>1. refcnt'[b] = Cardinality(Users(b)')
    BY <1>1, <1>4, FS_Singleton DEF IInv, CacheExact, TypeOK
  <2>2. \A c \in Bufs : c # b => refcnt'[c] = Cardinality(Users(c)')
    BY <1>1, <1>5 DEF IInv, CacheExact, CountsExact, TypeOK
  <2>3. QED
    BY <2>1, <2>2 DEF CountsExact
<1>8. OneBufferPerBlock'
  BY <1>1 DEF IInv, CacheExact, OneBufferPerBlock, TypeOK
<1>9. OwnersExact'
  BY <1>1, <1>2 DEF IInv, CacheExact, TypeOK, OwnersExact
<1>10. \A i \in DOMAIN queue : queue[i] # b
  <2>1. b \notin Range(queue)
    BY <1>3 DEF IInv, CacheExact, QueueExact, Users
  <2>2. QED
    BY <2>1 DEF Range
<1>11. QueueExact'
  <2>1. queue # <<>> => Head(queue) = queue[1] /\ 1 \in DOMAIN queue /\ Head(queue) \in Bufs
    BY DEF IInv, CacheExact, TypeOK
  <2>2. queue # <<>> => Command(Head(queue))' = Command(Head(queue))
    BY <1>1, <1>10, <2>1 DEF IInv, CacheExact, TypeOK, Command
  <2>3. QED
    BY <1>1, <1>2, <2>2 DEF IInv, CacheExact, TypeOK, QueueExact
<1>12. Placed'
  BY <1>1, <1>2, <1>4, <1>5, <1>3 DEF IInv, CacheExact, TypeOK, Placed, Users
<1>13. Coherent'
  BY <1>1, <1>2, <1>3 DEF IInv, CacheExact, TypeOK, Coherent, Users
<1>14. QED
  BY <1>6, <1>7, <1>8, <1>9, <1>11, <1>12, <1>13 DEF IInv, CacheExact

\* The panic of bget() keeps the invariant.
LEMMA NoBuffersStep ==
  ASSUME IInv, NEW p \in Procs, NEW k \in Blocks, NoBuffers(p, k)
  PROVE  IInv'
<1>1. UNCHANGED <<lru, cache, owner, queue, drive, disk, pc, at, held>>
  BY DEF NoBuffers
<1>2. QED
  BY <1>1 DEF cache, IInv, CacheExact, TypeOK, OneBufferPerBlock, CountsExact, OwnersExact,
              QueueExact, Users, Command, Placed, Coherent

\* acquiresleep() of the buffer keeps the invariant.
LEMMA LockStep ==
  ASSUME IInv, NEW p \in Procs, Lock(p)
  PROVE  IInv'
<1> USE DEF Lock, At, Goto, cache
<1>1. PICK b \in Bufs : /\ b = at[p] /\ b \notin held[p] /\ p \in Users(b)
                       /\ NoBuf \notin Bufs /\ NoOne \notin Procs
  BY InsideHasBuffer, BuffersAssumption
<1>2. \A c \in Bufs : Users(c)' = Users(c)
  BY <1>1 DEF IInv, CacheExact, TypeOK, Users
<1>3. TypeOK'
  BY <1>1 DEF IInv, CacheExact, TypeOK
<1>4. CountsExact'
  BY <1>2, SameUsers
<1>5. OneBufferPerBlock'
  BY DEF IInv, CacheExact, OneBufferPerBlock
<1>6. OwnersExact'
  BY <1>1 DEF IInv, CacheExact, TypeOK, OwnersExact
<1>7. QueueExact'
  BY <1>1 DEF IInv, CacheExact, TypeOK, QueueExact, Command
<1>8. Placed'
  BY <1>1, <1>2 DEF IInv, CacheExact, TypeOK, Placed
<1>9. Coherent'
  BY <1>1 DEF IInv, CacheExact, TypeOK, Coherent
<1>10. QED
  BY <1>3, <1>4, <1>5, <1>6, <1>7, <1>8, <1>9 DEF IInv, CacheExact

\* iderw() appending a request to idequeue keeps the invariant.
LEMMA EnqueueStep ==
  ASSUME IInv, NEW p \in Procs, Enqueue(p)
  PROVE  IInv'
<1> USE DEF Enqueue, At, Goto, cache
<1>1. PICK b \in Bufs : /\ b = at[p] /\ b \notin held[p] /\ p \in Users(b)
                       /\ NoBuf \notin Bufs /\ NoOne \notin Procs
  BY InsideHasBuffer, BuffersAssumption
<1>2. owner[b] = p
  BY <1>1 DEF IInv, CacheExact, OwnersExact
<1>3. \A c \in Bufs : Users(c)' = Users(c)
  BY <1>1 DEF IInv, CacheExact, TypeOK, Users
<1>4. TypeOK'
  BY <1>1 DEF IInv, CacheExact, TypeOK
<1>5. CountsExact'
  BY <1>3, SameUsers
<1>6. OneBufferPerBlock'
  BY DEF IInv, CacheExact, OneBufferPerBlock
<1>7. OwnersExact'
  BY <1>1 DEF IInv, CacheExact, TypeOK, OwnersExact
<1>8. \A i \in DOMAIN queue : queue[i] # b
  <2>1. \A q \in Procs : ~(at[q] = b /\ pc[q] = "sleeps")
    BY <1>1, <1>2 DEF IInv, CacheExact, OwnersExact
  <2>2. b \notin Range(queue)
    BY <2>1 DEF IInv, CacheExact, QueueExact
  <2>3. QED
    BY <2>2 DEF Range
<1>9. QueueExact'
  <2>1. /\ queue \in Seq(Bufs) /\ queue' = Append(queue, b)
        /\ DOMAIN queue = 1..Len(queue) /\ DOMAIN queue' = 1..(Len(queue) + 1)
        /\ Len(queue) \in Nat
    BY <1>1 DEF IInv, CacheExact, TypeOK
  <2>2. /\ \A i \in DOMAIN queue : queue'[i] = queue[i]
        /\ queue'[Len(queue) + 1] = b
    BY <2>1
  <2>3. \A i, j \in DOMAIN queue' : queue'[i] = queue'[j] => i = j
    BY <2>1, <2>2, <1>8 DEF IInv, CacheExact, QueueExact
  <2>4. Range(queue') = Range(queue) \cup {b}
    BY <2>1, <2>2 DEF Range
  <2>5. \A c \in Bufs :
          c \in Range(queue') <=> \E q \in Procs : at'[q] = c /\ pc'[q] = "sleeps"
    BY <1>1, <2>4 DEF IInv, CacheExact, TypeOK, QueueExact
  <2>6. drive' = IF queue' = <<>> THEN NoCommand ELSE Command(Head(queue))'
    <3>1. CASE queue = <<>>
      <4>1. queue' # <<>> /\ Head(queue') = b
        BY <2>1, <3>1
      <4>2. drive' = Command(b)'
        BY <1>1, <3>1 DEF Command
      <4>3. QED
        BY <4>1, <4>2 DEF Command
    <3>2. CASE queue # <<>>
      <4>1. queue' # <<>> /\ Head(queue') = Head(queue)
        BY <2>1, <3>2
      <4>2. QED
        BY <4>1, <3>2 DEF IInv, CacheExact, QueueExact, Command
    <3>3. QED
      BY <3>1, <3>2
  <2>7. QED
    BY <2>3, <2>5, <2>6 DEF QueueExact
<1>10. Placed'
  BY <1>1, <1>3 DEF IInv, CacheExact, TypeOK, Placed
<1>11. Coherent'
  BY <1>1 DEF IInv, CacheExact, TypeOK, Coherent
<1>12. QED
  BY <1>4, <1>5, <1>6, <1>7, <1>9, <1>10, <1>11 DEF IInv, CacheExact

\* iderw()'s test of B_VALID and B_DIRTY after a wakeup keeps the invariant.
LEMMA TestStep ==
  ASSUME IInv, NEW p \in Procs, Test(p)
  PROVE  IInv'
<1> USE DEF Test, At, Goto, cache
<1>1. PICK b \in Bufs : /\ b = at[p] /\ b \notin held[p] /\ p \in Users(b)
                       /\ NoBuf \notin Bufs /\ NoOne \notin Procs
  BY InsideHasBuffer, BuffersAssumption
<1>2. /\ valid[b] /\ ~dirty[b]
      /\ pc' = [pc EXCEPT ![p] = "runs"] /\ at' = [at EXCEPT ![p] = NoBuf]
      /\ held' = [held EXCEPT ![p] = @ \cup {b}]
  BY <1>1 DEF IInv, Coherent
<1>3. \A c \in Bufs : Users(c)' = Users(c)
  BY <1>1, <1>2 DEF IInv, CacheExact, TypeOK, Users
<1>4. TypeOK'
  BY <1>1, <1>2 DEF IInv, CacheExact, TypeOK
<1>5. CountsExact'
  BY <1>3, SameUsers
<1>6. OneBufferPerBlock'
  BY DEF IInv, CacheExact, OneBufferPerBlock
<1>7. OwnersExact'
  BY <1>1, <1>2 DEF IInv, CacheExact, TypeOK, OwnersExact
<1>8. QueueExact'
  BY <1>1, <1>2 DEF IInv, CacheExact, TypeOK, QueueExact, Command
<1>9. Placed'
  BY <1>1, <1>2, <1>3 DEF IInv, CacheExact, TypeOK, Placed
<1>10. Coherent'
  BY <1>1, <1>2 DEF IInv, CacheExact, TypeOK, Coherent
<1>11. QED
  BY <1>4, <1>5, <1>6, <1>7, <1>8, <1>9, <1>10 DEF IInv, CacheExact

\* A buffer that a running process has is not in the queue, so nothing that
\* its process does to it concerns the drive.
LEMMA HeldNotQueued ==
  ASSUME IInv, NEW p \in Procs, NEW b \in held[p]
  PROVE  /\ b \in Bufs /\ owner[b] = p /\ NoOne # p /\ blockno[b] \in Blocks
         /\ \A q \in Procs : q # p => b \notin held[q]
         /\ \A q \in Procs : at[q] = b => pc[q] \in {"locks", "drops"}
         /\ queue # <<>> => Head(queue) # b
<1>1. b \in Bufs /\ owner[b] = p
  BY DEF IInv, CacheExact, TypeOK, OwnersExact
<1>2. \A q \in Procs : q # p => b \notin held[q]
  BY <1>1 DEF IInv, CacheExact, OwnersExact
<1>3. \A q \in Procs : at[q] = b => pc[q] \in {"locks", "drops"}
  BY <1>1, BuffersAssumption DEF IInv, CacheExact, TypeOK, OwnersExact, Placed
<1>4. b \notin Range(queue)
  BY <1>1, <1>3 DEF IInv, CacheExact, QueueExact
<1>5. queue # <<>> => Head(queue) = queue[1] /\ 1 \in DOMAIN queue
  BY DEF IInv, CacheExact, TypeOK
<1>6. queue # <<>> => Head(queue) # b
  BY <1>4, <1>5 DEF Range
<1>7. QED
  BY <1>1, <1>2, <1>3, <1>6, OwnerUses, BuffersAssumption

\* A change of the data of a buffer by its holder keeps the invariant.
LEMMA ChangeStep ==
  ASSUME IInv, NEW p \in Procs, NEW b \in Bufs, Change(p, b)
  PROVE  IInv'
<1> USE DEF Change, At
<1>1. PICK v \in Values : data' = [data EXCEPT ![b] = v]
  OBVIOUS
<1>2. /\ owner[b] = p /\ valid[b] /\ (queue # <<>> => Head(queue) # b)
      /\ \A q \in Procs : at[q] = b => pc[q] \in {"locks", "drops"}
  BY HeldNotQueued DEF IInv, Coherent
<1>3. \A c \in Bufs : Users(c)' = Users(c)
  BY DEF Users
<1>4. TypeOK'
  BY <1>1 DEF IInv, CacheExact, TypeOK
<1>5. CountsExact'
  BY <1>3, SameUsers
<1>6. OneBufferPerBlock' /\ OwnersExact'
  BY DEF IInv, CacheExact, OneBufferPerBlock, OwnersExact
<1>7. QueueExact'
  BY <1>1, <1>2 DEF IInv, CacheExact, TypeOK, QueueExact, Command
<1>8. Placed'
  BY <1>3 DEF IInv, Placed
<1>9. Coherent'
  <2>1. \A c \in Bufs : c # b => data'[c] = data[c] /\ dirty'[c] = dirty[c]
    BY <1>1 DEF IInv, CacheExact, TypeOK
  <2>2. dirty'[b]
    BY DEF IInv, CacheExact, TypeOK
  <2>3. QED
    BY <1>2, <2>1, <2>2 DEF IInv, Coherent
<1>10. QED
  BY <1>4, <1>5, <1>6, <1>7, <1>8, <1>9 DEF IInv, CacheExact

\* bwrite() keeps the invariant.
LEMMA WriteStep ==
  ASSUME IInv, NEW p \in Procs, NEW b \in Bufs, Write(p, b)
  PROVE  IInv'
<1> USE DEF Write, At, Goto
<1>1. PICK v \in Values : data' = [data EXCEPT ![b] = v]
  OBVIOUS
<1>2. /\ owner[b] = p /\ valid[b] /\ (queue # <<>> => Head(queue) # b)
      /\ \A q \in Procs : at[q] = b => pc[q] \in {"locks", "drops"}
      /\ at[p] = NoBuf /\ NoBuf \notin Bufs /\ p \in Users(b)
      /\ pc' = [pc EXCEPT ![p] = "starts"] /\ at' = [at EXCEPT ![p] = b]
  BY HeldNotQueued, OwnerUses, BuffersAssumption DEF IInv, Coherent, Placed
<1>3. \A c \in Bufs : Users(c)' = Users(c)
  BY <1>2 DEF IInv, CacheExact, TypeOK, Users
<1>4. TypeOK'
  BY <1>1, <1>2 DEF IInv, CacheExact, TypeOK
<1>5. CountsExact'
  BY <1>3, SameUsers
<1>6. OneBufferPerBlock'
  BY DEF IInv, CacheExact, OneBufferPerBlock
<1>7. OwnersExact'
  BY <1>2 DEF IInv, CacheExact, TypeOK, OwnersExact
<1>8. \A c \in Bufs : c # b => data'[c] = data[c] /\ dirty'[c] = dirty[c]
  BY <1>1 DEF IInv, CacheExact, TypeOK
<1>9. QueueExact'
  <2>1. queue # <<>> => Head(queue) \in Bufs
    BY DEF IInv, CacheExact, TypeOK
  <2>2. queue # <<>> => Command(Head(queue))' = Command(Head(queue))
    BY <1>2, <1>8, <2>1 DEF Command
  <2>3. \A q \in Procs, c \in Bufs :
          (at'[q] = c /\ pc'[q] = "sleeps") <=> (at[q] = c /\ pc[q] = "sleeps")
    BY <1>2 DEF IInv, CacheExact, TypeOK
  <2>4. QED
    BY <2>2, <2>3 DEF IInv, CacheExact, QueueExact
<1>10. Placed'
  BY <1>2, <1>3 DEF IInv, CacheExact, TypeOK, Placed
<1>11. Coherent'
  <2>1. dirty'[b]
    BY DEF IInv, CacheExact, TypeOK
  <2>2. \A q \in Procs : held'[q] \subseteq held[q]
    BY DEF IInv, CacheExact, TypeOK
  <2>3. \A q \in Procs, c \in Bufs :
          pc'[q] = "tests" /\ at'[q] = c => pc[q] = "tests" /\ at[q] = c /\ c # b
    <3>1. at \in [Procs -> Bufs \cup {NoBuf}] /\ DOMAIN pc = Procs
      BY DEF IInv, CacheExact, TypeOK
    <3> HIDE DEF Write
    <3>2. QED
      BY <1>2, <3>1
  <2>4. QED
    BY <1>2, <1>8, <2>1, <2>2, <2>3 DEF IInv, Coherent
<1>12. QED
  BY <1>4, <1>5, <1>6, <1>7, <1>9, <1>10, <1>11 DEF IInv, CacheExact

\* The releasesleep() of brelse() keeps the invariant.
LEMMA UnlockStep ==
  ASSUME IInv, NEW p \in Procs, NEW b \in Bufs, Unlock(p, b)
  PROVE  IInv'
<1> USE DEF Unlock, At, Goto, cache
<1>1. /\ owner[b] = p /\ NoOne \notin Procs
      /\ \A q \in Procs : q # p => b \notin held[q]
      /\ \A q \in Procs : at[q] = b => pc[q] \in {"locks", "drops"}
      /\ at[p] = NoBuf /\ NoBuf \notin Bufs /\ p \in Users(b)
      /\ pc' = [pc EXCEPT ![p] = "drops"] /\ at' = [at EXCEPT ![p] = b]
  BY HeldNotQueued, OwnerUses, BuffersAssumption DEF IInv, Placed
<1>2. \A c \in Bufs : Users(c)' = Users(c)
  BY <1>1 DEF IInv, CacheExact, TypeOK, Users
<1>3. TypeOK'
  BY <1>1 DEF IInv, CacheExact, TypeOK
<1>4. CountsExact'
  BY <1>2, SameUsers
<1>5. OneBufferPerBlock'
  BY DEF IInv, CacheExact, OneBufferPerBlock
<1>6. OwnersExact'
  BY <1>1 DEF IInv, CacheExact, TypeOK, OwnersExact
<1>7. QueueExact'
  BY <1>1 DEF IInv, CacheExact, TypeOK, QueueExact, Command
<1>8. Placed'
  BY <1>1, <1>2 DEF IInv, CacheExact, TypeOK, Placed
<1>9. Coherent'
  BY <1>1 DEF IInv, CacheExact, TypeOK, Coherent
<1>10. QED
  BY <1>3, <1>4, <1>5, <1>6, <1>7, <1>8, <1>9 DEF IInv, CacheExact

\* Moving a buffer to the front of the list loses none.
LEMMA ToFrontKeeps ==
  ASSUME TypeOK, NEW k \in DOMAIN lru
  PROVE  /\ ToFront(lru, k) \in [1..Cardinality(Bufs) -> Bufs]
         /\ Range(ToFront(lru, k)) = Bufs
<1> DEFINE n == Cardinality(Bufs)
           f == ToFront(lru, k)
           From(i) == IF i = 1 THEN k ELSE IF i <= k THEN i - 1 ELSE i
<1>1. n \in Nat /\ lru \in [1..n -> Bufs] /\ DOMAIN lru = 1..n /\ Range(lru) = Bufs
  BY FS_CardinalityType, BuffersAssumption DEF TypeOK
<1> HIDE DEF n
<1>2. f = [i \in 1..n |-> lru[From(i)]] /\ \A i \in 1..n : From(i) \in 1..n
  BY <1>1 DEF ToFront
<1>3. f \in [1..n -> Bufs] /\ DOMAIN f = 1..n
  BY <1>1, <1>2
<1>4. \A j \in 1..n : \E i \in 1..n : From(i) = j
  <2> TAKE j \in 1..n
  <2>1. From(IF j = k THEN 1 ELSE IF j < k THEN j + 1 ELSE j) = j
    BY <1>1
  <2>2. (IF j = k THEN 1 ELSE IF j < k THEN j + 1 ELSE j) \in 1..n
    BY <1>1
  <2>3. QED
    BY <2>1, <2>2
<1>5. \A j \in 1..n : \E i \in 1..n : f[i] = lru[j]
  BY <1>2, <1>4
<1> HIDE DEF f
<1>6. Range(f) \subseteq Bufs
  BY <1>3 DEF Range
<1>7. Range(lru) \subseteq Range(f)
  BY <1>1, <1>3, <1>5 DEF Range
<1>8. QED
  BY <1>1, <1>3, <1>6, <1>7 DEF f, n

\* The refcnt-- of brelse() keeps the invariant.
LEMMA DropStep ==
  ASSUME IInv, NEW p \in Procs, Drop(p)
  PROVE  IInv'
<1> USE DEF Drop, At, Goto
<1>1. PICK b \in Bufs : /\ b = at[p] /\ b \notin held[p] /\ p \in Users(b)
                       /\ NoBuf \notin Bufs /\ NoOne \notin Procs
  BY InsideHasBuffer, BuffersAssumption
<1>2. Users(b)' = Users(b) \ {p}
  BY <1>1 DEF IInv, CacheExact, TypeOK, Users
<1>3. \A c \in Bufs : c # b => Users(c)' = Users(c)
  BY <1>1 DEF IInv, CacheExact, TypeOK, Users
<1>4. refcnt'[b] = Cardinality(Users(b)') /\ refcnt[b] - 1 \in Nat
  <2>1. Cardinality(Users(b)') = Cardinality(Users(b)) - 1
    BY <1>1, <1>2, UsersFinite, FS_RemoveElement
  <2>2. Cardinality(Users(b)') \in Nat
    BY UsersFinite, FS_CardinalityType
  <2>3. QED
    BY <1>1, <2>1, <2>2 DEF IInv, CacheExact, CountsExact, TypeOK
<1>5. lru' \in [1..Cardinality(Bufs) -> Bufs] /\ Range(lru') = Bufs
  <2>1. TypeOK
    BY DEF IInv, CacheExact
  <2>2. CASE lru' = lru
    BY <2>1, <2>2 DEF TypeOK
  <2>3. CASE \E k \in DOMAIN lru : lru' = ToFront(lru, k)
    BY <2>1, <2>3, ToFrontKeeps
  <2>4. QED
    BY <2>2, <2>3
<1>6. TypeOK'
  BY <1>1, <1>4, <1>5 DEF IInv, CacheExact, TypeOK
<1>7. CountsExact'
  <2>1. \A c \in Bufs : c # b => refcnt'[c] = Cardinality(Users(c)')
    BY <1>1, <1>3 DEF IInv, CacheExact, CountsExact, TypeOK
  <2>2. QED
    BY <1>4, <2>1 DEF CountsExact
<1>8. OneBufferPerBlock'
  BY DEF IInv, CacheExact, OneBufferPerBlock
<1>9. OwnersExact'
  BY <1>1 DEF IInv, CacheExact, TypeOK, OwnersExact
<1>10. QueueExact'
  BY <1>1 DEF IInv, CacheExact, TypeOK, QueueExact, Command
<1>11. Placed'
  <2>1. /\ at' = [at EXCEPT ![p] = NoBuf] /\ pc' = [pc EXCEPT ![p] = "runs"]
        /\ UNCHANGED <<held, blockno>>
    OBVIOUS
  <2>2. DOMAIN at = Procs /\ DOMAIN pc = Procs /\ \A q \in Procs : held[q] \subseteq Bufs
    BY DEF IInv, CacheExact, TypeOK
  <2>3. \A q \in Procs, c \in Bufs : q \in Users(c)' => q \in Users(c)
    BY <1>2, <1>3
  <2> HIDE DEF Drop, Goto
  <2>4. \A q \in Procs : (at'[q] = NoBuf <=> pc'[q] = "runs") /\ at'[q] \notin held'[q]
    BY <1>1, <2>1, <2>2 DEF IInv, Placed
  <2>5. QED
    BY <2>1, <2>3, <2>4 DEF IInv, Placed
<1>12. Coherent'
  BY <1>1 DEF IInv, CacheExact, TypeOK, Coherent
<1>13. QED
  BY <1>6, <1>7, <1>8, <1>9, <1>10, <1>11, <1>12 DEF IInv, CacheExact

\* What the interrupt does: the buffer at the head of the queue becomes valid
\* and clean, and if it was dirty the disk has its bytes now.
LEMMA InterruptEffect ==
  ASSUME IInv, Interrupt
  PROVE  \E b \in Bufs :
    /\ queue # <<>> /\ b = Head(queue) /\ blockno[b] \in Blocks
    /\ \E p \in Procs : at[p] = b /\ pc[p] = "sleeps" /\ owner[b] = p
    /\ valid' = [valid EXCEPT ![b] = TRUE] /\ dirty' = [dirty EXCEPT ![b] = FALSE]
    /\ \/ /\ dirty[b] /\ data' = data /\ disk' = [disk EXCEPT ![blockno[b]] = data[b]]
       \/ /\ ~dirty[b] /\ disk' = disk
          /\ \/ data' = [data EXCEPT ![b] = disk[blockno[b]]]
             \/ data' = data /\ blockno[b] \in Flaky
<1> DEFINE b == Head(queue)
<1>1. queue # <<>> /\ drive = Command(b)
  BY DEF Interrupt, IInv, CacheExact, QueueExact
<1>2. b \in Bufs /\ b = queue[1] /\ 1 \in DOMAIN queue
  BY <1>1 DEF IInv, CacheExact, TypeOK
<1>3. b \in Range(queue)
  BY <1>2 DEF Range
<1>4. PICK p \in Procs : at[p] = b /\ pc[p] = "sleeps"
  BY <1>2, <1>3 DEF IInv, CacheExact, QueueExact
<1>5. owner[b] = p /\ blockno[b] \in Blocks
  BY <1>2, <1>4, OwnerUses DEF IInv, CacheExact, OwnersExact
<1>6. (drive.cmd = "write" <=> dirty[b]) /\ drive.data = data[b]
  BY <1>1, <1>2 DEF Command, IInv, CacheExact, TypeOK
<1>7. valid' = [valid EXCEPT ![b] = TRUE] /\ dirty' = [dirty EXCEPT ![b] = FALSE]
  BY DEF Interrupt
<1>8. CASE dirty[b]
  <2>1. data' = data /\ disk' = [disk EXCEPT ![blockno[b]] = data[b]]
    BY <1>6, <1>8 DEF Interrupt
  <2>2. QED
    BY <1>1, <1>2, <1>4, <1>5, <1>7, <1>8, <2>1
<1>9. CASE ~dirty[b]
  <2>1. /\ disk' = disk
        /\ \/ data' = [data EXCEPT ![b] = disk[blockno[b]]]
           \/ data' = data /\ blockno[b] \in Flaky
    BY <1>6, <1>9 DEF Interrupt
  <2>2. QED
    BY <1>1, <1>2, <1>4, <1>5, <1>7, <1>9, <2>1
<1>10. QED
  BY <1>8, <1>9

\* ideintr() keeps the invariant.
LEMMA InterruptStep ==
  ASSUME IInv, Interrupt
  PROVE  IInv'
<1>1. PICK b \in Bufs :
        /\ queue # <<>> /\ b = Head(queue) /\ blockno[b] \in Blocks
        /\ \E p \in Procs : at[p] = b /\ pc[p] = "sleeps" /\ owner[b] = p
        /\ valid' = [valid EXCEPT ![b] = TRUE] /\ dirty' = [dirty EXCEPT ![b] = FALSE]
        /\ \/ /\ dirty[b] /\ data' = data /\ disk' = [disk EXCEPT ![blockno[b]] = data[b]]
           \/ /\ ~dirty[b] /\ disk' = disk
              /\ \/ data' = [data EXCEPT ![b] = disk[blockno[b]]]
                 \/ data' = data /\ blockno[b] \in Flaky
  BY InterruptEffect
<1>2. /\ UNCHANGED <<lru, blockno, refcnt, owner, at, held>>
      /\ queue' = Tail(queue)
      /\ pc' = [q \in Procs |-> IF pc[q] = "sleeps" /\ at[q] = b THEN "tests" ELSE pc[q]]
      /\ drive' = IF queue' = <<>> THEN NoCommand ELSE Command(Head(queue'))
  BY <1>1 DEF Interrupt, Woken
<1>3. \A c \in Bufs : Users(c)' = Users(c)
  BY <1>2 DEF Users
<1>4. TypeOK'
  <2>1. queue' \in Seq(Bufs)
    BY <1>1, <1>2 DEF IInv, CacheExact, TypeOK
  <2>2. data' \in [Bufs -> Values]
    <3>1. data \in [Bufs -> Values] /\ disk[blockno[b]] \in Values
      BY <1>1 DEF IInv, CacheExact, TypeOK
    <3>2. CASE data' = data
      BY <3>1, <3>2
    <3>3. CASE data' = [data EXCEPT ![b] = disk[blockno[b]]]
      BY <3>1, <3>3
    <3>4. QED
      BY <1>1, <3>2, <3>3
  <2>3. disk' \in [Blocks -> Values]
    <3>1. disk \in [Blocks -> Values] /\ data[b] \in Values
      BY DEF IInv, CacheExact, TypeOK
    <3>2. CASE disk' = disk
      BY <3>1, <3>2
    <3>3. CASE disk' = [disk EXCEPT ![blockno[b]] = data[b]]
      BY <3>1, <3>3
    <3>4. QED
      BY <1>1, <3>2, <3>3
  <2>4. pc' \in [Procs -> {"runs", "locks", "starts", "sleeps", "tests", "drops"}]
    BY <1>2 DEF IInv, CacheExact, TypeOK
  <2>5. valid' \in [Bufs -> BOOLEAN] /\ dirty' \in [Bufs -> BOOLEAN]
    BY <1>1 DEF IInv, CacheExact, TypeOK
  <2>6. QED
    BY <1>2, <2>1, <2>2, <2>3, <2>4, <2>5 DEF IInv, CacheExact, TypeOK
<1>5. CountsExact'
  BY <1>2, <1>3, SameUsers
<1>6. OneBufferPerBlock'
  BY <1>2 DEF IInv, CacheExact, OneBufferPerBlock
<1>7. OwnersExact'
  BY <1>2 DEF IInv, CacheExact, TypeOK, OwnersExact
<1>8. \A c \in Bufs : c # b => /\ data'[c] = data[c] /\ dirty'[c] = dirty[c]
                               /\ valid'[c] = valid[c]
  BY <1>1 DEF IInv, CacheExact, TypeOK
<1>9. QueueExact'
  <2>1. /\ queue \in Seq(Bufs) /\ Len(queue) \in Nat /\ Len(queue) > 0 /\ b = queue[1]
        /\ DOMAIN queue = 1..Len(queue) /\ DOMAIN queue' = 1..(Len(queue) - 1)
        /\ \A i \in DOMAIN queue' : queue'[i] = queue[i + 1] /\ i + 1 \in DOMAIN queue
    BY <1>1, <1>2 DEF IInv, CacheExact, TypeOK
  <2>2. \A i, j \in DOMAIN queue' : queue'[i] = queue'[j] => i = j
    BY <2>1 DEF IInv, CacheExact, QueueExact
  <2>3. \A i \in DOMAIN queue' : queue'[i] # b
    BY <2>1 DEF IInv, CacheExact, QueueExact
  <2>4. Range(queue') = Range(queue) \ {b}
    <3>1. Range(queue') \subseteq Range(queue) \ {b}
      BY <2>1, <2>3 DEF Range
    <3>2. \A i \in DOMAIN queue : queue[i] # b => i - 1 \in DOMAIN queue' /\ queue'[i - 1] = queue[i]
      BY <2>1
    <3>3. Range(queue) \ {b} \subseteq Range(queue')
      BY <2>1, <3>2 DEF Range
    <3>4. QED
      BY <3>1, <3>3
  <2>5. \A c \in Bufs :
          c \in Range(queue') <=> \E q \in Procs : at'[q] = c /\ pc'[q] = "sleeps"
    BY <1>2, <2>4 DEF IInv, CacheExact, TypeOK, QueueExact
  <2>6. queue' # <<>> => Head(queue') \in Bufs /\ Head(queue') # b
    <3>1. queue' \in Seq(Bufs)
      BY <1>4 DEF TypeOK
    <3>2. queue' # <<>> => Head(queue') = queue'[1] /\ 1 \in DOMAIN queue' /\ queue'[1] \in Bufs
      BY <3>1
    <3>3. QED
      BY <2>3, <3>2
  <2>7. queue' # <<>> => Command(Head(queue))' = Command(Head(queue'))
    BY <1>8, <2>6 DEF Command
  <2>8. QED
    BY <1>2, <2>2, <2>5, <2>7 DEF QueueExact
<1>10. Placed'
  BY <1>2, <1>3 DEF IInv, CacheExact, TypeOK, Placed
<1>11. Coherent'
  <2>1. \A c \in Bufs : dirty'[c] => valid'[c]
    BY <1>1 DEF IInv, CacheExact, TypeOK, Coherent
  <2>2. \A q \in Procs, c \in Bufs : c \in held'[q] => valid'[c]
    BY <1>1, <1>2 DEF IInv, CacheExact, TypeOK, Coherent
  <2>3. \A q \in Procs, c \in Bufs : pc'[q] = "tests" /\ at'[q] = c => valid'[c] /\ ~dirty'[c]
    BY <1>1, <1>2 DEF IInv, CacheExact, TypeOK, Coherent
  <2>4. valid'[b] /\ ~dirty'[b] /\ blockno'[b] \in Blocks \ Flaky => data'[b] = disk'[blockno'[b]]
    BY <1>1, <1>2 DEF IInv, CacheExact, TypeOK
  <2>5. \A c \in Bufs :
          c # b /\ blockno[c] \in Blocks => blockno[c] # blockno[b] /\ disk'[blockno[c]] = disk[blockno[c]]
    BY <1>1, BuffersAssumption DEF IInv, CacheExact, TypeOK, OneBufferPerBlock
  <2>6. QED
    BY <1>2, <1>8, <2>1, <2>2, <2>3, <2>4, <2>5 DEF IInv, Coherent
<1>12. QED
  BY <1>4, <1>5, <1>6, <1>7, <1>9, <1>10, <1>11 DEF IInv, CacheExact

-----------------------------------------------------------------------------
\* Every step, and every stutter, keeps the invariant.
LEMMA StepIInv ==
  ASSUME IInv, [Next]_vars
  PROVE  IInv'
<1>1. CASE Interrupt
  BY <1>1, InterruptStep
<1>2. ASSUME NEW p \in Procs, Step(p) PROVE IInv'
  BY <1>2, LockStep, EnqueueStep, TestStep, DropStep DEF Step
<1>3. ASSUME NEW p \in Procs, NEW k \in Blocks, Hit(p, k) \/ Recycle(p, k) \/ NoBuffers(p, k)
      PROVE  IInv'
  BY <1>3, HitStep, RecycleStep, NoBuffersStep
<1>4. ASSUME NEW p \in Procs, NEW b \in Bufs, Change(p, b) \/ Write(p, b) \/ Unlock(p, b)
      PROVE  IInv'
  BY <1>4, ChangeStep, WriteStep, UnlockStep
<1>5. CASE UNCHANGED vars
  BY <1>5 DEF vars, cache, IInv, CacheExact, TypeOK, OneBufferPerBlock, CountsExact,
              OwnersExact, QueueExact, Users, Command, Placed, Coherent
<1>6. QED
  BY <1>1, <1>2, <1>3, <1>4, <1>5 DEF Next

\* The invariant holds in every reachable state.
LEMMA Invariance == Spec => []IInv
<1>1. Init => IInv
  BY InitIInv
<1>2. IInv /\ [Next]_vars => IInv'
  BY StepIInv
<1>3. QED
  BY <1>1, <1>2, PTL DEF Spec

-----------------------------------------------------------------------------
\* What the refinement mapping says of a block with a buffer, and of one without.
View ==
  /\ Content \in [Blocks -> Values] /\ Holder \in [Blocks -> Procs \cup {NoOne}]
  /\ \A b \in Bufs : blockno[b] \in Blocks =>
       /\ Content[blockno[b]] = IF valid[b] THEN data[b] ELSE disk[blockno[b]]
       /\ Holder[blockno[b]] = owner[b]
  /\ \A k \in Blocks : (\A b \in Bufs : blockno[b] # k) =>
       Content[k] = disk[k] /\ Holder[k] = NoOne

\* In every state of the invariant the view of the abstract store is well formed.
LEMMA ViewHolds == IInv => View
<1> SUFFICES ASSUME IInv PROVE View
  OBVIOUS
<1>1. ASSUME NEW b \in Bufs, blockno[b] \in Blocks
      PROVE  /\ Content[blockno[b]] = IF valid[b] THEN data[b] ELSE disk[blockno[b]]
             /\ Holder[blockno[b]] = owner[b]
  <2>1. \A c \in Bufs : blockno[c] = blockno[b] => c = b
    BY <1>1, BuffersAssumption DEF IInv, CacheExact, OneBufferPerBlock
  <2>2. \A c \in Bufs : Caches(c, blockno[b]) <=> c = b /\ valid[b]
    BY <2>1 DEF Caches, IInv, Coherent
  <2>3. Content[blockno[b]] = IF valid[b] THEN data[b] ELSE disk[blockno[b]]
    BY <1>1, <2>2 DEF Content
  <2>4. \A c \in Bufs : Locks(c, blockno[b]) <=> c = b /\ owner[b] # NoOne
    BY <2>1 DEF Locks
  <2>5. Holder[blockno[b]] = owner[b]
    BY <1>1, <2>4 DEF Holder
  <2>6. QED
    BY <2>3, <2>5
<1>2. ASSUME NEW k \in Blocks, \A b \in Bufs : blockno[b] # k
      PROVE  Content[k] = disk[k] /\ Holder[k] = NoOne
  BY <1>2 DEF Content, Holder, Caches, Locks
<1>3. \A k \in Blocks : Content[k] \in Values /\ Holder[k] \in Procs \cup {NoOne}
  <2> TAKE k \in Blocks
  <2>1. CASE \A b \in Bufs : blockno[b] # k
    BY <1>2, <2>1 DEF IInv, CacheExact, TypeOK
  <2>2. ASSUME NEW b \in Bufs, blockno[b] = k
        PROVE  Content[k] \in Values /\ Holder[k] \in Procs \cup {NoOne}
    <3>1. /\ data[b] \in Values /\ disk[k] \in Values /\ owner[b] \in Procs \cup {NoOne}
      BY DEF IInv, CacheExact, TypeOK
    <3>2. Content[k] = (IF valid[b] THEN data[b] ELSE disk[k]) /\ Holder[k] = owner[b]
      BY <1>1, <2>2
    <3>3. QED
      BY <3>1, <3>2
  <2>3. QED
    BY <2>1, <2>2
<1>4. /\ Content = [k \in Blocks |-> Content[k]]
      /\ Holder = [k \in Blocks |-> Holder[k]]
  BY DEF Content, Holder
<1>5. Content \in [Blocks -> Values] /\ Holder \in [Blocks -> Procs \cup {NoOne}]
  BY <1>3, <1>4
<1>6. QED
  BY <1>1, <1>2, <1>5 DEF View

\* So it is in the next state.
LEMMA ViewHoldsNext == IInv' => View'
BY ViewHolds, PTL

\* The mapped content changes at one block only.
LEMMA OneContent ==
  ASSUME View, View', NEW k \in Blocks, \A j \in Blocks : j # k => Content'[j] = Content[j]
  PROVE  Content' = [Content EXCEPT ![k] = Content'[k]] /\ Content'[k] \in Values
BY DEF View

\* A step that leaves the other blocks alone is described by what it does to one.
LEMMA OneHolder ==
  ASSUME View, View', NEW k \in Blocks, \A j \in Blocks : j # k => Holder'[j] = Holder[j]
  PROVE  Holder' = [Holder EXCEPT ![k] = Holder'[k]]
BY DEF View

\* The content that is the same for every block is the same.
LEMMA SameContent ==
  ASSUME View, View', \A k \in Blocks : Content'[k] = Content[k]
  PROVE  Content' = Content
BY DEF View

\* So are the holders.
LEMMA SameHolder ==
  ASSUME View, View', \A k \in Blocks : Holder'[k] = Holder[k]
  PROVE  Holder' = Holder
BY DEF View

-----------------------------------------------------------------------------
\* One lemma per action that the store sees: which step of the store it is.
LEMMA LockTakes ==
  ASSUME IInv, View, View', NEW p \in Procs, Lock(p)
  PROVE  Store!Next
<1>1. PICK b \in Bufs : b = at[p] /\ blockno[b] \in Blocks
  BY InsideHasBuffer DEF Lock, At
<1> DEFINE k == blockno[b]
<1>2. Holder[k] = NoOne /\ Holder'[k] = p
  BY <1>1 DEF Lock, View, cache, IInv, CacheExact, TypeOK
<1>3. ASSUME NEW j \in Blocks, j # k PROVE Holder'[j] = Holder[j]
  <2>1. CASE \A c \in Bufs : blockno[c] # j
    BY <2>1 DEF Lock, View, cache
  <2>2. ASSUME NEW c \in Bufs, blockno[c] = j PROVE Holder'[j] = Holder[j]
    BY <1>1, <1>3, <2>2 DEF Lock, View, cache, IInv, CacheExact, TypeOK
  <2>3. QED
    BY <2>1, <2>2
<1>4. Holder' = [Holder EXCEPT ![k] = p]
  BY <1>1, <1>2, <1>3, OneHolder
<1>5. Content' = Content
  BY DEF Lock, Content, Caches, cache
<1>6. QED
  BY <1>1, <1>2, <1>4, <1>5 DEF Store!Next, Store!Take

\* brelse() gives up the block, and nothing else changes for the abstract store.
LEMMA UnlockLeaves ==
  ASSUME IInv, View, View', NEW p \in Procs, NEW b \in Bufs, Unlock(p, b)
  PROVE  Store!Next
<1> DEFINE k == blockno[b]
<1>1. owner[b] = p /\ k \in Blocks
  BY HeldNotQueued DEF Unlock
<1>2. Holder[k] = p /\ Holder'[k] = NoOne
  BY <1>1 DEF Unlock, View, cache, IInv, CacheExact, TypeOK
<1>3. ASSUME NEW j \in Blocks, j # k PROVE Holder'[j] = Holder[j]
  <2>1. CASE \A c \in Bufs : blockno[c] # j
    BY <2>1 DEF Unlock, View, cache
  <2>2. ASSUME NEW c \in Bufs, blockno[c] = j PROVE Holder'[j] = Holder[j]
    BY <1>1, <1>3, <2>2 DEF Unlock, View, cache, IInv, CacheExact, TypeOK
  <2>3. QED
    BY <2>1, <2>2
<1>4. Holder' = [Holder EXCEPT ![k] = NoOne]
  BY <1>1, <1>2, <1>3, OneHolder
<1>5. Content' = Content
  BY DEF Unlock, Content, Caches, cache
<1>6. QED
  BY <1>1, <1>2, <1>4, <1>5 DEF Store!Next, Store!Leave

\* Change and Write put new bytes into a buffer that their process has.
LEMMA NewBytesChange ==
  ASSUME IInv, View, View', NEW p \in Procs, NEW b \in held[p],
         \E v \in Values : data' = [data EXCEPT ![b] = v],
         UNCHANGED <<blockno, valid, owner, disk>>
  PROVE  Store!Next
<1> DEFINE k == blockno[b]
<1>1. b \in Bufs /\ owner[b] = p /\ k \in Blocks
  BY HeldNotQueued
<1>2. Holder[k] = p
  BY <1>1 DEF View
<1>3. ASSUME NEW j \in Blocks, j # k PROVE Content'[j] = Content[j]
  <2>1. CASE \A c \in Bufs : blockno[c] # j
    BY <2>1 DEF View
  <2>2. ASSUME NEW c \in Bufs, blockno[c] = j PROVE Content'[j] = Content[j]
    <3>1. c # b /\ data'[c] = data[c]
      BY <1>3, <2>2 DEF IInv, CacheExact, TypeOK
    <3>2. QED
      BY <2>2, <3>1 DEF View
  <2>3. QED
    BY <2>1, <2>2
<1>4. Content' = [Content EXCEPT ![k] = Content'[k]] /\ Content'[k] \in Values
  BY <1>1, <1>3, OneContent
<1>5. Holder' = Holder
  BY DEF Holder, Locks
<1>6. QED
  BY <1>1, <1>2, <1>4, <1>5 DEF Store!Next, Store!Change

\* Recycling a buffer is not seen, unless the disk did not have its bytes.
LEMMA RecycleHidden ==
  ASSUME IInv, View, View', NEW p \in Procs, NEW k \in Blocks, Recycle(p, k)
  PROVE  Store!Next \/ UNCHANGED <<Content, Holder>>
<1>1. PICK b \in Bufs :
        /\ Recyclable(b)
        /\ blockno' = [blockno EXCEPT ![b] = k]
        /\ valid' = [valid EXCEPT ![b] = FALSE]
  BY DEF Recycle, IInv, CacheExact, TypeOK
<1>2. /\ \A c \in Bufs : blockno[c] # k
      /\ UNCHANGED <<data, owner, disk>>
  BY DEF Recycle
<1>3. ~dirty[b] /\ owner[b] = NoOne
  BY <1>1, Unused DEF Recyclable
<1>4. \A c \in Bufs : c # b => blockno'[c] = blockno[c] /\ valid'[c] = valid[c]
  BY <1>1 DEF IInv, CacheExact, TypeOK
<1>5. blockno'[b] = k /\ ~valid'[b]
  BY <1>1 DEF IInv, CacheExact, TypeOK
<1>6. Content[k] = disk[k] /\ Holder[k] = NoOne /\ Content'[k] = disk[k] /\ Holder'[k] = NoOne
  BY <1>2, <1>3, <1>5 DEF View
<1>7. ASSUME NEW j \in Blocks, j # k, j # blockno[b]
      PROVE  Content'[j] = Content[j] /\ Holder'[j] = Holder[j]
  <2>1. CASE \A c \in Bufs : blockno[c] # j
    <3>1. \A c \in Bufs : blockno'[c] # j
      BY <1>4, <1>5, <1>7, <2>1
    <3>2. QED
      BY <1>2, <2>1, <3>1 DEF View
  <2>2. ASSUME NEW c \in Bufs, blockno[c] = j
        PROVE  Content'[j] = Content[j] /\ Holder'[j] = Holder[j]
    BY <1>2, <1>4, <1>7, <2>2 DEF View
  <2>3. QED
    BY <2>1, <2>2
<1>8. ASSUME blockno[b] \in Blocks
      PROVE  /\ Holder'[blockno[b]] = Holder[blockno[b]]
             /\ blockno[b] \notin Flaky => Content'[blockno[b]] = Content[blockno[b]]
  <2>1. \A c \in Bufs : blockno'[c] # blockno[b]
    BY <1>2, <1>4, <1>5, <1>8, BuffersAssumption DEF IInv, CacheExact, OneBufferPerBlock
  <2>2. Content'[blockno[b]] = disk[blockno[b]] /\ Holder'[blockno[b]] = NoOne
    BY <1>2, <1>8, <2>1 DEF View
  <2>3. Holder[blockno[b]] = NoOne
    BY <1>3, <1>8 DEF View
  <2>4. blockno[b] \notin Flaky => Content[blockno[b]] = disk[blockno[b]]
    BY <1>3, <1>8 DEF View, IInv, Coherent
  <2>5. QED
    BY <2>2, <2>3, <2>4
<1>9. Holder' = Holder
  BY <1>6, <1>7, <1>8, SameHolder
<1>10. CASE blockno[b] \in Flaky
  <2>1. blockno[b] \in Blocks
    BY <1>10, BuffersAssumption
  <2>2. /\ Content' = [Content EXCEPT ![blockno[b]] = Content'[blockno[b]]]
        /\ Content'[blockno[b]] \in Values
    BY <1>6, <1>7, <2>1, OneContent
  <2>3. QED
    BY <1>9, <1>10, <2>1, <2>2 DEF Store!Next, Store!Spoil
<1>11. CASE blockno[b] \notin Flaky
  <2>1. Content' = Content
    BY <1>6, <1>7, <1>8, <1>11, SameContent
  <2>2. QED
    BY <1>9, <2>1
<1>12. QED
  BY <1>10, <1>11

\* What the drive does is not seen, unless it failed to read the block.
LEMMA InterruptHidden ==
  ASSUME IInv, View, View', Interrupt
  PROVE  Store!Next \/ UNCHANGED <<Content, Holder>>
<1>1. PICK b \in Bufs :
        /\ blockno[b] \in Blocks
        /\ valid' = [valid EXCEPT ![b] = TRUE]
        /\ \/ /\ dirty[b] /\ data' = data /\ disk' = [disk EXCEPT ![blockno[b]] = data[b]]
           \/ /\ ~dirty[b] /\ disk' = disk
              /\ \/ data' = [data EXCEPT ![b] = disk[blockno[b]]]
                 \/ data' = data /\ blockno[b] \in Flaky
  BY InterruptEffect
<1> DEFINE k == blockno[b]
<1>2. UNCHANGED <<blockno, owner>>
  BY DEF Interrupt
<1>3. Holder' = Holder
  BY <1>2 DEF Holder, Locks
<1>4. \A c \in Bufs : c # b => data'[c] = data[c] /\ valid'[c] = valid[c]
  BY <1>1 DEF IInv, CacheExact, TypeOK
<1>5. \A j \in Blocks : j # k => disk'[j] = disk[j]
  BY <1>1 DEF IInv, CacheExact, TypeOK
<1>6. ASSUME NEW j \in Blocks, j # k PROVE Content'[j] = Content[j]
  <2>1. CASE \A c \in Bufs : blockno[c] # j
    BY <1>2, <1>5, <1>6, <2>1 DEF View
  <2>2. ASSUME NEW c \in Bufs, blockno[c] = j PROVE Content'[j] = Content[j]
    BY <1>2, <1>4, <1>5, <1>6, <2>2 DEF View
  <2>3. QED
    BY <2>1, <2>2
<1>7. k \notin Flaky => Content'[k] = Content[k]
  <2>1. Content'[k] = data'[b]
    BY <1>1, <1>2 DEF View, IInv, CacheExact, TypeOK
  <2>2. CASE dirty[b]
    BY <1>1, <2>1, <2>2 DEF View, IInv, Coherent
  <2>3. CASE ~dirty[b] /\ k \notin Flaky
    <3>1. data'[b] = disk[k]
      BY <1>1, <2>3 DEF IInv, CacheExact, TypeOK
    <3>2. Content[k] = disk[k]
      BY <1>1, <2>3 DEF View, IInv, Coherent
    <3>3. QED
      BY <2>1, <3>1, <3>2
  <2>4. QED
    BY <2>2, <2>3
<1>8. CASE k \in Flaky
  <2>1. Content' = [Content EXCEPT ![k] = Content'[k]] /\ Content'[k] \in Values
    BY <1>1, <1>6, OneContent
  <2>2. QED
    BY <1>1, <1>3, <1>8, <2>1 DEF Store!Next, Store!Spoil
<1>9. CASE k \notin Flaky
  BY <1>3, <1>6, <1>7, <1>9, SameContent
<1>10. QED
  BY <1>8, <1>9

\* Every other step leaves the mapped variables alone.
LEMMA OtherHidden ==
  ASSUME UNCHANGED <<blockno, valid, dirty, data, disk, owner>>
  PROVE  UNCHANGED <<Content, Holder>>
BY DEF Content, Holder, Caches, Locks

\* Every step is a step of BlockStore or hidden from it.
LEMMA StepRefines == IInv /\ IInv' /\ [Next]_vars => [Store!Next]_<<Content, Holder>>
<1> SUFFICES ASSUME IInv, IInv', [Next]_vars
             PROVE  Store!Next \/ UNCHANGED <<Content, Holder>>
  OBVIOUS
<1>1. View /\ View'
  BY ViewHolds, ViewHoldsNext
<1>2. CASE Interrupt
  BY <1>1, <1>2, InterruptHidden
<1>3. ASSUME NEW p \in Procs, Step(p)
      PROVE  Store!Next \/ UNCHANGED <<Content, Holder>>
  <2>1. CASE Lock(p)
    BY <1>1, <2>1, LockTakes
  <2>2. CASE Enqueue(p) \/ Test(p) \/ Drop(p)
    BY <2>2, OtherHidden DEF Enqueue, Test, Drop, cache
  <2>3. QED
    BY <1>3, <2>1, <2>2 DEF Step
<1>4. ASSUME NEW p \in Procs, NEW k \in Blocks, Hit(p, k) \/ Recycle(p, k) \/ NoBuffers(p, k)
      PROVE  Store!Next \/ UNCHANGED <<Content, Holder>>
  <2>1. CASE Recycle(p, k)
    BY <1>1, <2>1, RecycleHidden
  <2>2. CASE Hit(p, k) \/ NoBuffers(p, k)
    BY <2>2, OtherHidden DEF Hit, NoBuffers, cache
  <2>3. QED
    BY <1>4, <2>1, <2>2
<1>5. ASSUME NEW p \in Procs, NEW b \in Bufs, Change(p, b) \/ Write(p, b) \/ Unlock(p, b)
      PROVE  Store!Next \/ UNCHANGED <<Content, Holder>>
  <2>1. CASE Unlock(p, b)
    BY <1>1, <2>1, UnlockLeaves
  <2>2. CASE Change(p, b) \/ Write(p, b)
    <3>1. /\ b \in held[p] /\ \E v \in Values : data' = [data EXCEPT ![b] = v]
          /\ UNCHANGED <<blockno, valid, owner, disk>>
      BY <2>2 DEF Change, Write
    <3>2. QED
      BY <1>1, <3>1, NewBytesChange
  <2>3. QED
    BY <1>5, <2>1, <2>2
<1>6. CASE UNCHANGED vars
  BY <1>6, OtherHidden DEF vars, cache
<1>7. QED
  BY <1>2, <1>3, <1>4, <1>5, <1>6 DEF Next

-----------------------------------------------------------------------------
\* bio.c, ide.c: no block is in two buffers, and reference counts, owners and
\* the driver's queue say exactly who is where.
THEOREM CacheIsExact == Spec => []CacheExact
<1>1. IInv => CacheExact
  BY DEF IInv
<1>2. QED
  BY <1>1, Invariance, PTL

\* bio.c: the cache implements a store in which every block has one content
\* and at most one process that looks at it.
THEOREM Refinement == Spec => ImplementsBlockStore
<1>1. Init => Store!Init
  <2> SUFFICES ASSUME Init PROVE Store!Init
    OBVIOUS
  <2>1. View /\ \A b \in Bufs : blockno[b] \notin Blocks
    BY InitIInv, ViewHolds, BuffersAssumption DEF Init
  <2>2. \A k \in Blocks : Holder[k] = NoOne
    BY <2>1 DEF View
  <2>3. Holder = [k \in Blocks |-> NoOne]
    BY <2>1, <2>2 DEF View
  <2>4. QED
    BY <2>1, <2>3 DEF Store!Init, View
<1>2. IInv /\ IInv' /\ [Next]_vars => [Store!Next]_<<Content, Holder>>
  BY StepRefines
<1>3. QED
  BY <1>1, <1>2, Invariance, PTL DEF Spec, ImplementsBlockStore, Store!Spec

=============================================================================
