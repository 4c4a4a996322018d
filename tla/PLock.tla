------------------------------- MODULE PLock -------------------------------
(***************************************************************************)
(* The priority lock of LAB4/codes/plock.c: waiters queue on a linked list *)
(* of nodes taken from a pool, and plock_release() hands the lock over to  *)
(* the waiter of the highest priority without opening it.                  *)
(*                                                                         *)
(* One action is one critical section of pl->lk.  Unlike the loops of the  *)
(* other blocking primitives, plock_acquire() does not test anything when  *)
(* its sleep() returns: whatever woke it, it frees its node and goes on as *)
(* the owner.  The list is kept as the pointers of the code, because a     *)
(* node that is freed while it is still linked is cleared and reused.      *)
(*                                                                         *)
(* Clients are the disciplined ones of plocktest.c: a process releases     *)
(* only what it holds.                                                     *)
(***************************************************************************)
EXTENDS KernelSleep, Integers

CONSTANTS
  NumNodes,     \* the size of node_pool (NPROC in the code)
  Priorities    \* the arguments of plock_acquire(); the system call takes any int

ASSUME PLockAssumption ==
  NumNodes \in Nat /\ Priorities \subseteq Int

Null == 0
Nodes == 1..NumNodes

VARIABLES
  plocked,       \* pl->locked
  head,         \* pl->head
  active, proc, priority, next,   \* the fields of node_pool[n]
  node,         \* the local n of a process waiting in plock_acquire(), or Null
  owners,       \* the processes that acquired the lock and did not release it
  outcome       \* "ok", or how a plock_release() went out of control:
                \* "spinning" round a circular list with pl->lk held, or
                \* "wild" after it followed a null pointer

pool == <<active, proc, priority, next>>
plockvars == <<plocked, head, pool, node, owners, calls, outcome>>
plvars == <<plockvars, kvars>>

PInit ==
  /\ KInit
  /\ plocked = 0
  /\ head = Null
  /\ active = [n \in Nodes |-> 0]
  /\ proc = [n \in Nodes |-> NoChan]
  /\ priority = [n \in Nodes |-> 0]
  /\ next = [n \in Nodes |-> Null]
  /\ node = [p \in Procs |-> Null]
  /\ owners = {}
  /\ outcome = "ok"

-----------------------------------------------------------------------------
\* A process enters plock_acquire(); trap() would have sent a killed one to
\* exit().
Calls(p) ==
  /\ outcome = "ok"
  /\ Runs(p) /\ node[p] = Null /\ p \notin owners /\ ~killed[p]
  /\ CountCall(p)

\* Mutant: no test of locked, and a count instead of a flag.
AcquireFree_NoTest(p) ==
  /\ Calls(p)
  /\ plocked' = plocked + 1
  /\ owners' = owners \cup {p}
  /\ UNCHANGED <<head, pool, node, outcome, kvars>>

AcquireFree(p) ==
  /\ Calls(p)
  /\ plocked = 0
  /\ plocked' = 1
  /\ owners' = owners \cup {p}
  /\ UNCHANGED <<head, pool, node, outcome, kvars>>

\* alloc_node() takes the first node of the pool that is not active.
FirstFree(n) ==
  /\ active[n] = 0
  /\ \A m \in Nodes : m < n => active[m] = 1

\* The new node goes to the front of the list and the process sleeps on it.
Enqueue(p, pr, n) ==
  /\ Calls(p)
  /\ plocked # 0
  /\ FirstFree(n)
  /\ active' = [active EXCEPT ![n] = 1]
  /\ proc' = [proc EXCEPT ![n] = p]
  /\ priority' = [priority EXCEPT ![n] = pr]
  /\ next' = [next EXCEPT ![n] = head]
  /\ head' = n
  /\ node' = [node EXCEPT ![p] = n]
  /\ SleepOn(p, n)
  /\ UNCHANGED <<plocked, owners, outcome>>

\* Mutant: plock_acquire() returns without free_node().
ReturnFromSleep_NoFree(p) ==
  /\ outcome = "ok"
  /\ Runs(p) /\ node[p] # Null
  /\ node' = [node EXCEPT ![p] = Null]
  /\ owners' = owners \cup {p}
  /\ LeaveSleep(p)
  /\ UNCHANGED <<plocked, head, pool, calls, outcome>>

\* sleep() returns, after a hand-over or after a kill(): free_node(n), and
\* the process goes on with the lock.
ReturnFromSleep(p) ==
  /\ outcome = "ok"
  /\ Runs(p) /\ node[p] # Null
  /\ active' = [active EXCEPT ![node[p]] = 0]
  /\ proc' = [proc EXCEPT ![node[p]] = NoChan]
  /\ next' = [next EXCEPT ![node[p]] = Null]
  /\ node' = [node EXCEPT ![p] = Null]
  /\ owners' = owners \cup {p}
  /\ LeaveSleep(p)
  /\ UNCHANGED <<plocked, head, priority, calls, outcome>>

-----------------------------------------------------------------------------
\* The nodes that the loop of plock_release() visits, in order: it starts at
\* pl->head and follows next.
Visited[k \in 0..NumNodes] ==
  IF k = 0 THEN head
  ELSE IF Visited[k-1] = Null THEN Null ELSE next[Visited[k-1]]

Positions == {k \in 0..NumNodes : Visited[k] # Null}

\* More hops than there are nodes: the list runs into itself.
Circular == NumNodes \in Positions

\* Mutant: the most recent waiter instead of the one of the highest priority.
IsMax_First(k) == k = 0 /\ k \in Positions

\* The first node of the highest priority; max_prio starts at -1, so the loop
\* never picks a node of a negative priority.
IsMax(k) ==
  /\ k \in Positions
  /\ priority[Visited[k]] > -1
  /\ \A j \in Positions :
       /\ priority[Visited[j]] <= priority[Visited[k]]
       /\ j < k => priority[Visited[j]] < priority[Visited[k]]

CallsPRelease(p) ==
  /\ outcome = "ok"
  /\ Runs(p) /\ p \in owners /\ ~killed[p]
  /\ owners' = owners \ {p}
  /\ UNCHANGED <<active, proc, priority, node, calls, chan, killed>>

ReleaseFree(p) ==
  /\ CallsPRelease(p)
  /\ head = Null
  /\ plocked' = 0
  /\ UNCHANGED <<head, next, outcome, pstate>>

\* Mutant: the node stays on the list.
Unlink_Keeps(k) == UNCHANGED <<head, next>>

\* max_prev is null when the node is the first one.
Unlink(k) ==
  IF k = 0
  THEN head' = next[Visited[k]] /\ UNCHANGED next
  ELSE /\ next' = [next EXCEPT ![Visited[k-1]] = next[Visited[k]]]
       /\ UNCHANGED head

\* Mutants: the hand-over also opens the lock; it wakes nobody.
ReleaseHandOver_Opens(p, k) ==
  /\ CallsPRelease(p)
  /\ ~Circular
  /\ IsMax(k)
  /\ Unlink(k)
  /\ pstate' = Woken(Visited[k])
  /\ plocked' = 0
  /\ UNCHANGED outcome

ReleaseHandOver_NoWakeup(p, k) ==
  /\ CallsPRelease(p)
  /\ ~Circular
  /\ IsMax(k)
  /\ Unlink(k)
  /\ UNCHANGED <<plocked, outcome, pstate>>

\* The chosen node is unlinked and its process woken; locked stays set.
ReleaseHandOver(p, k) ==
  /\ CallsPRelease(p)
  /\ ~Circular
  /\ IsMax(k)
  /\ Unlink(k)
  /\ pstate' = Woken(Visited[k])
  /\ UNCHANGED <<plocked, outcome>>

\* while(curr != 0) never ends, and pl->lk is never released.
ReleaseSpins(p) ==
  /\ CallsPRelease(p)
  /\ Circular
  /\ outcome' = "spinning"
  /\ UNCHANGED <<plocked, head, next, pstate>>

\* No node was picked: the code reads max_node->next through a null pointer
\* and leaves whatever it finds there in pl->head.  The model stops here.
ReleaseWild(p) ==
  /\ CallsPRelease(p)
  /\ head # Null
  /\ ~Circular
  /\ \A k \in Positions : ~IsMax(k)
  /\ outcome' = "wild"
  /\ UNCHANGED <<plocked, head, next, pstate>>

-----------------------------------------------------------------------------
PKillProc(p) == Kill(p) /\ UNCHANGED plockvars

\* The system call returns, and trap() finds the process killed.
PExitProc(p) ==
  /\ node[p] = Null
  /\ Exit(p)
  /\ UNCHANGED plockvars

PAcquire(p) ==
  \/ AcquireFree(p)
  \/ \E pr \in Priorities, n \in Nodes : Enqueue(p, pr, n)

PRelease(p) ==
  \/ ReleaseFree(p)
  \/ \E k \in 0..NumNodes : ReleaseHandOver(p, k)
  \/ ReleaseSpins(p)
  \/ ReleaseWild(p)

PStep(p) == PAcquire(p) \/ ReturnFromSleep(p) \/ PRelease(p) \/ PExitProc(p)

PNext == \E p \in Procs : PStep(p) \/ PKillProc(p)

\* A process that is woken runs, and one inside the lock eventually leaves.
PProgress(p) == ReturnFromSleep(p) \/ PRelease(p)

PSpec == PInit /\ [][PNext]_plvars
PFairSpec == PSpec /\ \A p \in Procs : WF_plvars(PProgress(p))

-----------------------------------------------------------------------------
PTypeOK ==
  /\ KTypeOK({NoChan} \cup Nodes)
  /\ plocked \in {0, 1}
  /\ head \in Nodes \cup {Null}
  /\ active \in [Nodes -> {0, 1}]
  /\ proc \in [Nodes -> Procs \cup {NoChan}]
  /\ priority \in [Nodes -> Int]
  /\ next \in [Nodes -> Nodes \cup {Null}]
  /\ node \in [Procs -> Nodes \cup {Null}]
  /\ owners \subseteq Procs
  /\ outcome \in {"ok", "spinning", "wild"}

Sleepers == {p \in Procs : Sleeps(p)}

\* The processes plock_release() chose that have not returned from sleep().
Granted == {p \in Procs : Runs(p) /\ node[p] # Null}

\* Each process waiting in plock_acquire() has a node of the pool to itself,
\* marked active and naming it, and no other node is active.  It holds even
\* when kill() leaves freed nodes linked and alloc_node() hands them out again.
NodesOwned ==
  /\ PTypeOK
  /\ \A p \in Procs : node[p] # Null =>
       active[node[p]] = 1 /\ proc[node[p]] = p
  /\ \A n \in Nodes : active[n] = 1 => proc[n] \in Procs /\ node[proc[n]] = n

\* Nobody has been killed, so far.
NoneKilled == \A p \in Procs : ~killed[p]

\* While nobody is killed, the list that plock_release() searches holds the
\* nodes of exactly the sleeping processes: nobody is forgotten, and no freed
\* node stays linked.  locked counts the one process that is inside or chosen
\* to be: the lock is never lost and never shared.
QueueExact ==
  NoneKilled =>
    /\ ~Circular
    /\ {Visited[k] : k \in Positions} = {node[p] : p \in Sleepers}
    /\ \A p \in Sleepers : chan[p] = node[p]
    /\ outcome = "ok" => Cardinality(owners \cup Granted) = plocked

\* Lock hand-over: a release with a waiter of priority 0 or more wakes exactly
\* one waiter, and none of the others asked with a higher priority.
HandOverToHighest ==
  [][ /\ NoneKilled
      /\ ~(owners \subseteq owners')
      /\ \E q \in Sleepers : priority[node[q]] >= 0
      => \E w \in Sleepers :
           /\ Sleepers' = Sleepers \ {w}
           /\ \A q \in Sleepers : priority[node[q]] <= priority[node[w]]
    ]_plvars

\* At most one process is inside the lock.
MutualExclusion == \A p, q \in owners : p = q

\* While nobody is killed, the priority lock is an exclusive lock.
PExclusive == INSTANCE Mutex WITH inside <- owners
ExclusiveUntilKill ==
  PExclusive!Init /\ [][NoneKilled => PExclusive!Next \/ UNCHANGED owners]_plvars

\* Every plock_acquire() returns when each process calls it a bounded number
\* of times, as long as nobody is killed and no release goes out of control.
PEveryCallReturns ==
  \A p \in Procs : node[p] # Null ~> node[p] = Null \/ ~NoneKilled \/ outcome # "ok"

=============================================================================
