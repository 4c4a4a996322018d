--------------------------- MODULE ResourcesProofs ---------------------------
(***************************************************************************)
(* Proofs about Resources for every number of processes, pages, files and  *)
(* descriptors, every size of a pipe that divides the range of its         *)
(* counters, and any number of calls: reference counts and ends of pipes   *)
(* are exact, every page of memory has one owner, and who sleeps on a pipe *)
(* has a reason to.                                                        *)
(*                                                                         *)
(* Shaped says where calls can be and what they hold there.  FilesInv,     *)
(* PagesCounted with Broken, and PipesInv are inductive on top of it, in   *)
(* this order.                                                             *)
(***************************************************************************)
EXTENDS Resources, ProofLemmas

FiniteParts == {S \in SUBSET Nat : IsFiniteSet(S)}
Spaces == [dir : Nat, ktabs : Nat, utabs : FiniteParts, pages : FiniteParts]
Counters == 0..CounterSize - 1
PipeRecords ==
  [there : BOOLEAN, readopen : BOOLEAN, writeopen : BOOLEAN, nread : Counters,
   nwrite : Counters, data : [0..PIPESIZE - 1 -> Counters]]
Ends == {"read", "write"}
Items == [file : Pipes, end : Ends \cup {"none"}]
Jobs ==
  [call : {"none", "fork", "exec", "sbrk", "grep", "open", "pipe"},
   pc : {"user", "stack", "table", "page", "map", "searches", "second", "buffer", "installs",
         "reads", "nread", "writes", "nwrite", "exits"},
   child : Procs \cup {0}, goal : 0..MaxSize, new : Spaces, mem : Nat,
   made : Seq(Files), todo : Seq(Items), file : Files \cup {0}, n : Nat, missed : BOOLEAN]

ResTyped ==
  /\ free \in Nat
  /\ state \in [Procs -> {"unused", "embryo", "live", "zombie"}]
  /\ parent \in [Procs -> Procs \cup {0}] /\ killed \in [Procs -> BOOLEAN]
  /\ kstack \in [Procs -> {0, 1}] /\ space \in [Procs -> Spaces]
  /\ size \in [Procs -> 0..MaxSize]
  /\ ofile \in [Procs -> [Fds -> Files \cup {0}]]
  /\ ref \in [Files -> Int] /\ kind \in [Files -> Ends \cup {"none", "inode"}]
  /\ pipe \in [Files -> Pipes \cup {0}] /\ pipes \in [Pipes -> PipeRecords]
  /\ job \in [Procs -> Jobs] /\ calls \in Nat /\ panicked \in BOOLEAN

NoFds == [fd \in Fds |-> 0]

\* What a call holds, by where it is.
JobFits(j) ==
  /\ j.call = "fork" => j.pc \in {"stack", "table", "page", "map"} /\ j.child \in Procs
  /\ j.call = "sbrk" => j.new = NoSpace
  /\ j.call = "open" => j.pc = "installs"
  /\ j.pc = "stack" => j.call = "fork"
  /\ j.pc = "table" => j.call \in {"fork", "exec"}
  /\ j.pc \in {"page", "map"} => j.call \in {"fork", "exec", "sbrk"}
  /\ j.pc \notin {"table", "page", "map"} => j.new = NoSpace
  /\ j.mem = IF j.pc \in {"map", "searches"} THEN 1 ELSE 0
  /\ Len(j.made) = CASE j.pc = "second" -> 1
                     [] j.pc = "buffer" -> 2
                     [] j.pc = "installs" -> IF j.call = "open" THEN 1 ELSE 2
                     [] OTHER -> 0
  /\ j.todo # <<>> => j.pc \in {"user", "exits"}
  /\ \A i \in DOMAIN j.todo : j.todo[i].end = "none" => j.todo[i].file \in Files

\* An entry of the process table, by its state.
EntryFits(p) ==
  /\ state[p] # "live" => job[p] = User
  /\ state[p] # "live" \/ job[p].pc = "exits" => ofile[p] = NoFds
  /\ state[p] \in {"unused", "embryo"} => space[p] = NoSpace
  /\ state[p] = "unused" => kstack[p] = 0
  /\ state[p] = "live" /\ 0 \in space[p].pages => 0..size[p] - 1 \subseteq space[p].pages

CallFits(p) ==
  /\ job[p].pc = "map" => Missing(p) # {}
  /\ job[p].call = "fork" =>
       /\ state[job[p].child] = "embryo" /\ job[p].goal = size[p]
       /\ job[p].pc = "stack" => kstack[job[p].child] = 0
       /\ \A q \in Procs \ {p} : job[q].call = "fork" => job[q].child # job[p].child

Shaped ==
  /\ ResTyped
  /\ \A p \in Procs : JobFits(job[p]) /\ EntryFits(p) /\ CallFits(p)

-----------------------------------------------------------------------------
IsOpen(k, end) == IF end = "read" THEN pipes[k].readopen ELSE pipes[k].writeopen
EndOf(f, k, end) == kind[f] = end /\ pipe[f] = k
Closing(p, k, end) == job[p].todo # <<>> /\ Head(job[p].todo) = [file |-> k, end |-> end]

CountsExact == \A f \in Files : ref[f] = SumFunctionOnSet([p \in Procs |-> Uses(p, f)], Procs)

KindsExact ==
  \A f \in Files :
    (kind[f] # "none" => ref[f] > 0) /\ (kind[f] \in Ends => pipe[f] \in Pipes)

\* An open end belongs to one file, or to one call that is about to close it.
EndFits(k, end) ==
  /\ IsOpen(k, end) <=> \/ \E f \in Files : EndOf(f, k, end)
                       \/ \E p \in Procs : Closing(p, k, end)
  /\ \A f, g \in Files : EndOf(f, k, end) /\ EndOf(g, k, end) => f = g
  /\ \A f \in Files, p \in Procs : ~(EndOf(f, k, end) /\ Closing(p, k, end))
  /\ \A p, q \in Procs : Closing(p, k, end) /\ Closing(q, k, end) => p = q

EndsExact ==
  /\ \A k \in Pipes : pipes[k].there <=> (pipes[k].readopen \/ pipes[k].writeopen)
  /\ \A k \in Pipes, end \in Ends : EndFits(k, end)
  /\ \A p \in Procs : \A i \in DOMAIN job[p].todo \ {1} : job[p].todo[i].end = "none"

\* A file that no descriptor has yet, of a call that has still to say what it is.
Fresh(j) == j.pc \in {"second", "buffer"} \/ j.call = "open"
FreshFiles ==
  \A p \in Procs : Fresh(job[p]) =>
    \A i \in DOMAIN job[p].made : ref[job[p].made[i]] = 1 /\ kind[job[p].made[i]] = "none"

Reading(j) == j.pc \in {"reads", "nread"}
Writing(j) == j.pc \in {"writes", "nwrite"}
HoldsEnd(p, f, end) == f \in Files /\ kind[f] = end /\ \E fd \in Fds : ofile[p][fd] = f
UsersHold ==
  \A p \in Procs : /\ Reading(job[p]) => HoldsEnd(p, job[p].file, "read")
                   /\ Writing(job[p]) => HoldsEnd(p, job[p].file, "write")

FilesInv == CountsExact /\ KindsExact /\ EndsExact /\ FreshFiles /\ UsersHold

-----------------------------------------------------------------------------
(* Shapes: where the calls are and what they hold. *)

\* The sets of processes, files, pipes and descriptors are finite sets of numbers.
LEMMA Basics ==
  /\ IsFiniteSet(Procs) /\ Procs \subseteq Nat \ {0} /\ 1 \in Procs /\ 2 \in Procs
  /\ Files \subseteq Pipes /\ Pipes \subseteq Nat \ {0} /\ Fds \subseteq Nat
  /\ IsFiniteSet(Files) /\ IsFiniteSet(Pipes) /\ IsFiniteSet(Fds)
  /\ 1 \in Files /\ 2 \in Files /\ 0 \in Fds /\ 1 \in Fds
<1>1. /\ IsFiniteSet(Procs) /\ Cardinality(Procs) \in Nat /\ Cardinality(Procs) >= 2
      /\ Procs = 1..Cardinality(Procs)
  BY ResourcesAssumption, FS_CardinalityType DEF ResourcesAssumption
<1>2. Procs \subseteq Nat \ {0} /\ 1 \in Procs /\ 2 \in Procs
  <2> DEFINE n == Cardinality(Procs)
  <2>1. n \in Nat /\ n >= 2 /\ Procs = 1..n
    BY <1>1
  <2> HIDE DEF n
  <2>2. QED
    BY <2>1
<1>3. NFILE \in Nat /\ NFILE >= 2 /\ NOFILE \in Nat /\ NOFILE >= 2
  BY ResourcesAssumption DEF ResourcesAssumption
<1>4. /\ Files \subseteq Pipes /\ Pipes \subseteq Nat \ {0} /\ Fds \subseteq Nat
      /\ 1 \in Files /\ 2 \in Files /\ 0 \in Fds /\ 1 \in Fds
  <2> DEFINE n == Cardinality(Procs)
  <2>1. n \in Nat /\ Pipes = 1..NFILE + n
    BY <1>1 DEF Pipes
  <2> HIDE DEF n
  <2>2. QED
    BY <2>1, <1>3 DEF Files, Fds
<1>5. IsFiniteSet(Files) /\ IsFiniteSet(Pipes) /\ IsFiniteSet(Fds)
  <2>1. NFILE + Cardinality(Procs) \in Int /\ NFILE \in Int /\ NOFILE - 1 \in Int
        /\ 0 \in Int /\ 1 \in Int
    BY <1>1, <1>3
  <2>2. QED
    BY <2>1, FS_Interval DEF Files, Pipes, Fds
<1>6. QED
  BY <1>1, <1>2, <1>4, <1>5

\* A process in user code holds nothing.
LEMMA UserFits ==
  User \in Jobs /\ JobFits(User) /\ NoSpace \in Spaces
<1>1. NoSpace \in Spaces
  BY FS_EmptySet DEF NoSpace, Spaces, FiniteParts
<1>2. /\ <<>> \in Seq(Files) /\ <<>> \in Seq(Items)
      /\ 0 \in 0..MaxSize
  BY ResourcesAssumption DEF ResourcesAssumption
<1>3. User \in Jobs
  BY <1>1, <1>2 DEF User, Jobs
<1>4. JobFits(User)
  BY DEF JobFits, User
<1>5. QED
  BY <1>1, <1>3, <1>4

\* The pages of a page table are counted by a natural number.
LEMMA PagesType ==
  ASSUME NEW s \in Spaces
  PROVE  /\ Pages(s) \in Nat /\ Pages(NoSpace) = 0
         /\ Cardinality(s.utabs) \in Nat /\ Cardinality(s.pages) \in Nat
<1>1. Cardinality(s.utabs) \in Nat /\ Cardinality(s.pages) \in Nat
  BY FS_CardinalityType DEF Spaces, FiniteParts
<1>2. QED
  BY <1>1, FS_EmptySet DEF Pages, Spaces, NoSpace

\* A process woken, or told that it missed something, by another's step.
Woken(j) == IF j.pc = "nread" THEN "reads" ELSE "writes"
Alike(j, k) ==
  \/ k = j
  \/ j.pc \in {"nread", "nwrite"} /\ \E l \in {Woken(j), j.pc}, b \in BOOLEAN :
       k = [j EXCEPT !.pc = l, !.missed = b]

\* A process woken by another is in the same call, with the same things.
LEMMA AlikeFits ==
  ASSUME NEW j \in Jobs, JobFits(j), NEW k, Alike(j, k)
  PROVE  /\ k \in Jobs /\ JobFits(k)
         /\ k.call = j.call /\ k.child = j.child /\ k.goal = j.goal /\ k.new = j.new
         /\ k.mem = j.mem /\ k.made = j.made /\ k.todo = j.todo /\ k.file = j.file
         /\ k.pc = j.pc \/ (j.pc \in {"nread", "nwrite"} /\ k.pc \in {"reads", "writes"})
         /\ (Fresh(k) <=> Fresh(j)) /\ (Reading(k) <=> Reading(j)) /\ (Writing(k) <=> Writing(j))
<1>1. CASE k = j
  BY <1>1
<1>2. CASE j.pc \in {"nread", "nwrite"} /\ k # j
  <2>1. PICK l \in {Woken(j), j.pc}, b \in BOOLEAN :
           k = [j EXCEPT !.pc = l, !.missed = b]
    BY <1>2 DEF Alike
  <2>2. /\ k \in Jobs
        /\ k.call = j.call /\ k.child = j.child /\ k.goal = j.goal /\ k.new = j.new
        /\ k.mem = j.mem /\ k.made = j.made /\ k.todo = j.todo /\ k.file = j.file /\ k.pc = l
    BY <2>1, <1>2 DEF Jobs, Woken
  <2>3. JobFits(k)
    BY <2>2, <1>2 DEF JobFits, Woken
  <2>4. QED
    BY <1>2, <2>2, <2>3 DEF Woken, Fresh, Reading, Writing
<1>3. QED
  BY <1>1, <1>2 DEF Alike

\* A step of p that leaves the entries of the others alone.
LEMMA OwnStep ==
  ASSUME Shaped, ResTyped', NEW p \in Procs, UNCHANGED <<state, kstack>>,
         \A q \in Procs \ {p} :
           /\ Alike(job[q], job'[q]) /\ space'[q] = space[q] /\ size'[q] = size[q]
           /\ ofile'[q] = ofile[q],
         JobFits(job'[p]), EntryFits(p)', job'[p].pc = "map" => (Missing(p) # {})',
         job'[p].call = "fork" =>
           job[p].call = "fork" /\ job'[p].child = job[p].child /\ job'[p].goal = size'[p]
             /\ job'[p].pc # "stack"
  PROVE  Shaped'
<1>1. \A q \in Procs : JobFits(job'[q])
  BY AlikeFits DEF Shaped, ResTyped
<1>2. ASSUME NEW q \in Procs PROVE EntryFits(q)'
  <2>1. CASE q = p
    BY <2>1
  <2>2. CASE q # p
    <3>1. EntryFits(q) /\ Alike(job[q], job'[q]) /\ job[q] \in Jobs /\ JobFits(job[q])
      BY <2>2 DEF Shaped, ResTyped
    <3>2. /\ job[q] = User => job'[q] = User
          /\ job'[q].pc = "exits" => job[q].pc = "exits"
      <4>1. job[q] = User => job[q].pc = "user"
        BY DEF User
      <4>2. job'[q].pc = job[q].pc \/ job'[q].pc \in {"reads", "writes"}
        BY <3>1, AlikeFits
      <4>3. QED
        BY <3>1, <4>1, <4>2 DEF Alike
    <3>3. QED
      BY <2>2, <3>1, <3>2 DEF EntryFits
  <2>3. QED
    BY <2>1, <2>2
<1>3. \A q \in Procs : job'[q].call = "fork" =>
        job[q].call = "fork" /\ job'[q].child = job[q].child
  BY AlikeFits DEF Shaped, ResTyped
<1>4. ASSUME NEW q \in Procs PROVE CallFits(q)'
  <2>1. job'[q].pc = "map" => (Missing(q) # {})'
    <3>1. CASE q = p
      BY <3>1
    <3>2. CASE q # p
      <4>1. /\ CallFits(q) /\ Alike(job[q], job'[q]) /\ job[q] \in Jobs /\ JobFits(job[q])
            /\ space'[q] = space[q] /\ size'[q] = size[q]
        BY <3>2 DEF Shaped, ResTyped
      <4>2. job'[q].call = job[q].call /\ job'[q].goal = job[q].goal /\ job'[q].new = job[q].new
            /\ (job'[q].pc = "map" => job[q].pc = "map")
        BY <4>1, AlikeFits
      <4>3. QED
        BY <4>1, <4>2 DEF CallFits, Missing, Target
    <3>3. QED
      BY <3>1, <3>2
  <2>2. ASSUME job'[q].call = "fork"
        PROVE  /\ state'[job'[q].child] = "embryo" /\ job'[q].goal = size'[q]
               /\ job'[q].pc = "stack" => kstack'[job'[q].child] = 0
               /\ \A x \in Procs \ {q} : job'[x].call = "fork" => job'[x].child # job'[q].child
    <3>1. job[q].call = "fork" /\ job'[q].child = job[q].child /\ CallFits(q)
      BY <2>2, <1>3 DEF Shaped
    <3>2. job'[q].goal = size'[q] /\ (job'[q].pc = "stack" => job[q].pc = "stack")
      <4>1. CASE q = p
        BY <2>2, <4>1
      <4>2. CASE q # p
        <5>1. Alike(job[q], job'[q]) /\ job[q] \in Jobs /\ JobFits(job[q]) /\ size'[q] = size[q]
          BY <4>2 DEF Shaped, ResTyped
        <5>2. QED
          BY <5>1, <3>1, AlikeFits DEF CallFits
      <4>3. QED
        BY <4>1, <4>2
    <3>3. QED
      BY <3>1, <3>2, <1>3 DEF CallFits
  <2>3. QED
    BY <2>1, <2>2 DEF CallFits
<1>5. QED
  BY <1>1, <1>2, <1>4 DEF Shaped

\* A step that moves p alone.
LEMMA GotoSteps ==
  ASSUME Shaped, NEW p \in Procs, NEW j \in Jobs, Goto(p, j)
  PROVE  /\ job' \in [Procs -> Jobs] /\ job'[p] = j
         /\ \A q \in Procs \ {p} : job'[q] = job[q] /\ Alike(job[q], job'[q])
  BY DEF Goto, Shaped, ResTyped, Alike

\* A wakeup() moves p and those that sleep on the channel.
LEMMA WakeupSteps ==
  ASSUME Shaped, NEW p \in Procs, NEW j \in Jobs, NEW k, NEW l \in {"nread", "nwrite"},
         Wakeup(p, j, k, l)
  PROVE  /\ job' \in [Procs -> Jobs] /\ job'[p] = j
         /\ \A q \in Procs \ {p} : Alike(job[q], job'[q])
<1>1. job \in [Procs -> Jobs] /\ \A q \in Procs : JobFits(job[q])
  BY DEF Shaped, ResTyped
<1>2. ASSUME NEW q \in Procs \ {p} PROVE Alike(job[q], job'[q])
  BY DEF Wakeup, Sleeps, Alike, Woken
<1>3. job'[p] = j
  BY DEF Wakeup
<1>4. \A q \in Procs : job'[q] \in Jobs
  BY <1>1, <1>2, <1>3, AlikeFits
<1>5. job' = [q \in Procs |-> job'[q]]
  BY DEF Wakeup
<1>6. QED
  BY <1>2, <1>3, <1>4, <1>5

\* A process that enters a system call was in user code, with nothing left to close.
LEMMA CallShaped ==
  ASSUME Shaped, NEW p \in Procs, Call(p)
  PROVE  calls' \in Nat /\ state[p] = "live" /\ job[p].pc = "user" /\ job[p].todo = <<>>
  BY DEF Call, At, Shaped, ResTyped

\* A step of a running process that leaves the memory alone.
LEMMA CallStep ==
  ASSUME Shaped, ResTyped', NEW p \in Procs, state[p] = "live",
         UNCHANGED <<state, kstack, space, size>>,
         JobFits(job'[p]), job'[p].pc # "map", job'[p].call # "fork",
         job'[p].pc = "exits" => ofile'[p] = NoFds,
         \A q \in Procs \ {p} : Alike(job[q], job'[q]) /\ ofile'[q] = ofile[q]
  PROVE  Shaped'
<1>1. EntryFits(p)'
  BY DEF Shaped, EntryFits
<1>2. QED
  BY <1>1, OwnStep

\* Shaped survives: exec() starts.
LEMMA ExecShaped ==
  ASSUME Shaped, NEW p \in Procs, NEW n \in 0..MaxSize, Exec(p, n)
  PROVE  Shaped'
<1> DEFINE j == [User EXCEPT !.call = "exec", !.pc = "table", !.goal = n]
<1>1. j \in Jobs /\ JobFits(j) /\ j.pc = "table" /\ j.call = "exec"
  <2>1. User \in Jobs
    BY UserFits
  <2>2. j \in Jobs
    BY <2>1 DEF Jobs
  <2>3. /\ j.pc = "table" /\ j.call = "exec"
        /\ j.new = User.new /\ j.mem = User.mem /\ j.made = User.made /\ j.todo = User.todo
    BY <2>1 DEF Jobs
  <2>4. User.new = NoSpace /\ User.mem = 0 /\ User.made = <<>> /\ User.todo = <<>>
    BY DEF User
  <2>5. JobFits(j)
    <3> HIDE DEF j
    <3>1. QED
      BY <2>3, <2>4 DEF JobFits
  <2>6. QED
    BY <2>2, <2>3, <2>5
<1>2. Goto(p, j) /\ UNCHANGED <<free, procs, memory, files, pipes, panicked>> /\ Call(p)
  BY DEF Exec
<1> HIDE DEF j
<1>3. /\ job' \in [Procs -> Jobs] /\ job'[p] = j
      /\ \A q \in Procs \ {p} : Alike(job[q], job'[q])
  BY <1>1, <1>2, GotoSteps
<1>4. calls' \in Nat /\ state[p] = "live"
  BY <1>2, CallShaped
<1>5. ResTyped'
  BY <1>2, <1>3, <1>4 DEF Shaped, ResTyped, procs, memory, files
<1>6. QED
  BY <1>1, <1>2, <1>3, <1>4, <1>5, CallStep DEF procs, memory, files

\* What a process in user mode has in hand.
LEMMA UserEmpty ==
  /\ User \in Jobs /\ User.new = NoSpace /\ User.mem = 0
  /\ User.made = <<>> /\ User.todo = <<>> /\ Len(<<>>) = 0 /\ DOMAIN <<>> = {}
<1>1. User \in Jobs
  BY UserFits
<1>2. User.new = NoSpace /\ User.mem = 0 /\ User.made = <<>> /\ User.todo = <<>>
  BY DEF User
<1>3. Len(<<>>) = 0 /\ DOMAIN <<>> = {}
  OBVIOUS
<1>4. QED
  BY <1>1, <1>2, <1>3

\* Shaped survives: sbrk() starts.
LEMMA GrowShaped ==
  ASSUME Shaped, NEW p \in Procs, NEW n \in 0..MaxSize, Grow(p, n)
  PROVE  Shaped'
<1> DEFINE j == [User EXCEPT !.call = "sbrk", !.pc = "page", !.goal = n]
<1>1. j \in Jobs /\ JobFits(j) /\ j.pc = "page" /\ j.call = "sbrk"
  <2>1. j \in Jobs
    BY UserEmpty, ResourcesAssumption DEF Jobs, ResourcesAssumption
  <2>2. /\ j.pc = "page" /\ j.call = "sbrk" /\ j.new = User.new /\ j.mem = User.mem
        /\ j.made = User.made /\ j.todo = User.todo
    BY UserEmpty DEF Jobs
  <2> HIDE DEF j
  <2>3. /\ j.new = NoSpace /\ j.mem = 0 /\ j.made = <<>> /\ j.todo = <<>>
    BY <2>2, UserEmpty
  <2>4. JobFits(j)
    BY <2>2, <2>3, UserEmpty DEF JobFits
  <2>5. QED
    BY <2>1, <2>2, <2>4
<1>2. Goto(p, j) /\ UNCHANGED <<free, procs, memory, files, pipes, panicked>> /\ Call(p)
  BY DEF Grow
<1> HIDE DEF j
<1>3. /\ job' \in [Procs -> Jobs] /\ job'[p] = j
      /\ \A q \in Procs \ {p} : Alike(job[q], job'[q])
  BY <1>1, <1>2, GotoSteps
<1>4. calls' \in Nat /\ state[p] = "live"
  BY <1>2, CallShaped
<1>5. ResTyped'
  BY <1>2, <1>3, <1>4 DEF Shaped, ResTyped, procs, memory, files
<1>6. QED
  BY <1>1, <1>2, <1>3, <1>4, <1>5, CallStep DEF procs, memory, files

\* Shaped survives: grep_syscall() takes its page.
LEMMA GrepShaped ==
  ASSUME Shaped, NEW p \in Procs, Grep(p)
  PROVE  Shaped'
<1> DEFINE j == [User EXCEPT !.call = "grep", !.pc = "searches", !.mem = 1]
<1>1. j \in Jobs /\ JobFits(j) /\ j.pc = "searches" /\ j.call = "grep"
  <2>1. j \in Jobs
    BY UserEmpty, ResourcesAssumption DEF Jobs, ResourcesAssumption
  <2>2. /\ j.pc = "searches" /\ j.call = "grep" /\ j.new = User.new /\ j.mem = 1
        /\ j.made = User.made /\ j.todo = User.todo
    BY UserEmpty DEF Jobs
  <2> HIDE DEF j
  <2>3. /\ j.new = NoSpace /\ j.mem = 1 /\ j.made = <<>> /\ j.todo = <<>>
    BY <2>2, UserEmpty
  <2>4. JobFits(j)
    BY <2>2, <2>3, UserEmpty DEF JobFits
  <2>5. QED
    BY <2>1, <2>2, <2>4
<1>2. Goto(p, j) /\ UNCHANGED <<procs, memory, files, pipes, panicked>> /\ Call(p) /\ kalloc(1)
  BY DEF Grep
<1> HIDE DEF j
<1>3. /\ job' \in [Procs -> Jobs] /\ job'[p] = j
      /\ \A q \in Procs \ {p} : Alike(job[q], job'[q])
  BY <1>1, <1>2, GotoSteps
<1>4. calls' \in Nat /\ state[p] = "live"
  BY <1>2, CallShaped
<1>5. free' \in Nat
  BY <1>2 DEF kalloc, Shaped, ResTyped
<1>6. ResTyped'
  BY <1>2, <1>3, <1>4, <1>5 DEF Shaped, ResTyped, procs, memory, files
<1>7. QED
  BY <1>1, <1>2, <1>3, <1>4, <1>6, CallStep DEF procs, memory, files

\* Shaped survives: grep_syscall() gives its page back.
LEMMA GrepDoneShaped ==
  ASSUME Shaped, NEW p \in Procs, GrepDone(p)
  PROVE  Shaped'
<1>1. /\ Goto(p, User) /\ UNCHANGED <<procs, memory, files, pipes, calls, panicked>>
      /\ At(p, "searches") /\ kfree(job[p].mem)
  BY DEF GrepDone, Return
<1>2. /\ job' \in [Procs -> Jobs] /\ job'[p] = User
      /\ \A q \in Procs \ {p} : Alike(job[q], job'[q])
  BY <1>1, GotoSteps, UserFits
<1>3. free' \in Nat
  BY <1>1 DEF kfree, Shaped, ResTyped, Jobs
<1>4. ResTyped'
  BY <1>1, <1>2, <1>3 DEF Shaped, ResTyped, procs, memory, files
<1>5. User.pc = "user" /\ User.call = "none" /\ JobFits(User) /\ state[p] = "live"
  BY <1>1, UserFits DEF User, At
<1>6. QED
  BY <1>1, <1>2, <1>4, <1>5, CallStep DEF procs, memory, files

\* Shaped survives: sbrk() gives pages back.
LEMMA ShrinkShaped ==
  ASSUME Shaped, NEW p \in Procs, NEW n \in 0..MaxSize, Shrink(p, n)
  PROVE  Shaped'
<1> DEFINE gone == {i \in space[p].pages : i >= n}
           s == [space[p] EXCEPT !.pages = @ \ gone]
<1>1. /\ Call(p) /\ n < size[p] /\ kfree(Cardinality(gone))
      /\ space' = [space EXCEPT ![p] = s]
      /\ size' = [size EXCEPT ![p] = IF n = 0 THEN @ ELSE n]
      /\ UNCHANGED <<procs, kstack, files, pipes, job, panicked>>
  BY DEF Shrink
<1>2. /\ space[p] \in Spaces /\ space[p].pages \in SUBSET Nat /\ IsFiniteSet(space[p].pages)
      /\ size[p] \in 0..MaxSize /\ size \in [Procs -> 0..MaxSize] /\ space \in [Procs -> Spaces]
  BY DEF Shaped, ResTyped, Spaces, FiniteParts
<1>3. /\ IsFiniteSet(gone) /\ Cardinality(gone) \in Nat
      /\ IsFiniteSet(space[p].pages \ gone)
  BY <1>2, FS_Subset, FS_CardinalityType
<1>4. s \in Spaces /\ s.pages = space[p].pages \ gone
  BY <1>2, <1>3 DEF Spaces, FiniteParts
<1>5. free' \in Nat
  BY <1>1, <1>3 DEF kfree, Shaped, ResTyped
<1>6. calls' \in Nat /\ state[p] = "live" /\ job[p].pc = "user"
  BY <1>1, CallShaped
<1>7. /\ space' \in [Procs -> Spaces] /\ size' \in [Procs -> 0..MaxSize]
      /\ space'[p] = s /\ size'[p] = IF n = 0 THEN size[p] ELSE n
      /\ \A q \in Procs \ {p} : space'[q] = space[q] /\ size'[q] = size[q]
  <2> HIDE DEF s
  <2> QED BY <1>1, <1>2, <1>4
<1>8. ResTyped'
  BY <1>1, <1>5, <1>6, <1>7 DEF Shaped, ResTyped, procs, files
<1>9. EntryFits(p)'
  <2>1. EntryFits(p)
    BY DEF Shaped
  <2>2. 0 \in s.pages => 0..n - 1 \subseteq s.pages /\ n # 0
    <3>1. 0 \in s.pages => 0 \in space[p].pages /\ n # 0
      BY <1>4
    <3>2. 0 \in s.pages => 0..size[p] - 1 \subseteq space[p].pages
      BY <2>1, <3>1, <1>6 DEF EntryFits
    <3>3. \A i \in 0..n - 1 : i \in 0..size[p] - 1 /\ i \notin gone
      BY <1>1, <1>2
    <3>4. QED
      BY <3>1, <3>2, <3>3, <1>4
  <2>3. QED
    BY <2>1, <2>2, <1>1, <1>6, <1>7 DEF EntryFits, procs, files
<1>10. JobFits(job[p]) /\ job'[p] = job[p] /\ CallFits(p)
  BY <1>1 DEF Shaped
<1>11. job[p].call # "fork"
  BY <1>6, <1>10 DEF JobFits
<1>12. QED
  <2>1. \A q \in Procs \ {p} : Alike(job[q], job'[q]) /\ ofile'[q] = ofile[q]
    BY <1>1 DEF Alike, files
  <2>2. UNCHANGED <<state, kstack>>
    BY <1>1 DEF procs
  <2>3. QED
    BY <2>1, <2>2, <1>6, <1>7, <1>8, <1>9, <1>10, <1>11, OwnStep

\* What a call that gives up returns, case by case.
LEMMA TakenType ==
  ASSUME Shaped, NEW p \in Procs, job[p].call \in {"fork", "exec", "sbrk"}
  PROVE  /\ Taken(p) \in Nat
         /\ Taken(p) = job[p].mem +
              (IF job[p].call = "sbrk" THEN Cardinality({i \in space[p].pages : i >= size[p]})
               ELSE IF job[p].call = "fork" THEN Pages(job[p].new) + kstack[job[p].child]
               ELSE Pages(job[p].new))
<1>1. /\ job[p] \in Jobs /\ job[p].new \in Spaces /\ job[p].mem \in Nat /\ JobFits(job[p])
      /\ space[p] \in Spaces /\ space[p].pages \in SUBSET Nat /\ IsFiniteSet(space[p].pages)
  BY DEF Shaped, ResTyped, Jobs, Spaces, FiniteParts
<1>2. Pages(job[p].new) \in Nat
  BY <1>1, PagesType
<1>3. Cardinality({i \in space[p].pages : i >= size[p]}) \in Nat
  <2> DEFINE gone == {i \in space[p].pages : i >= size[p]}
  <2>1. IsFiniteSet(gone)
    BY <1>1, FS_Subset
  <2>2. QED
    BY <2>1, FS_CardinalityType
<1>4. job[p].call = "fork" => kstack[job[p].child] \in Nat
  <2>1. job[p].call = "fork" => job[p].child \in Procs
    BY <1>1 DEF JobFits
  <2>2. kstack \in [Procs -> {0, 1}]
    BY DEF Shaped, ResTyped
  <2>3. QED
    BY <2>1, <2>2
<1>5. QED
  BY <1>1, <1>2, <1>3, <1>4 DEF Taken, Unmapped

\* Shaped survives: a call gives up.
LEMMA GiveUpShaped ==
  ASSUME Shaped, NEW p \in Procs, state[p] = "live", job[p].call \in {"fork", "exec", "sbrk"},
         GiveUp(p), UNCHANGED <<parent, killed, size, files, pipes, calls, panicked>>
  PROVE  Shaped'
<1> DEFINE c == job[p].child
           s == [space[p] EXCEPT !.pages = {i \in @ : i < size[p]}]
<1>1. /\ kfree(Taken(p)) /\ Goto(p, User)
      /\ kstack' = IF job[p].call = "fork" THEN [kstack EXCEPT ![c] = 0] ELSE kstack
      /\ state' = IF job[p].call = "fork" THEN [state EXCEPT ![c] = "unused"] ELSE state
      /\ space' = IF job[p].call = "sbrk" THEN [space EXCEPT ![p] = s] ELSE space
  BY DEF GiveUp, Return
<1>2. free' \in Nat
  <2>1. Taken(p) \in Nat /\ free \in Nat
    BY TakenType DEF Shaped, ResTyped
  <2>2. QED
    BY <1>1, <2>1 DEF kfree
<1>3. /\ job' \in [Procs -> Jobs] /\ job'[p] = User
      /\ \A q \in Procs \ {p} : job'[q] = job[q] /\ Alike(job[q], job'[q])
  BY <1>1, UserFits, GotoSteps
<1>4. /\ space[p] \in Spaces /\ space[p].pages \in SUBSET Nat /\ IsFiniteSet(space[p].pages)
      /\ kstack \in [Procs -> {0, 1}] /\ space \in [Procs -> Spaces] /\ JobFits(job[p])
      /\ CallFits(p) /\ EntryFits(p)
      /\ state \in [Procs -> {"unused", "embryo", "live", "zombie"}]
  BY DEF Shaped, ResTyped, Spaces, FiniteParts
<1>5. s \in Spaces /\ s.pages = {i \in space[p].pages : i < size[p]}
  <2>1. IsFiniteSet({i \in space[p].pages : i < size[p]})
    BY <1>4, FS_Subset
  <2>2. QED
    BY <1>4, <2>1 DEF Spaces, FiniteParts
<1>6. User.pc = "user" /\ User.call = "none" /\ JobFits(User)
  BY UserFits DEF User
<1>7. CASE job[p].call = "fork"
  <2>1. c \in Procs /\ c # p /\ state[c] = "embryo" /\ EntryFits(c)
    BY <1>4, <1>7 DEF JobFits, CallFits, Shaped
  <2>2. /\ state' = [state EXCEPT ![c] = "unused"] /\ kstack' = [kstack EXCEPT ![c] = 0]
        /\ space' = space
    BY <1>1, <1>7
  <2> HIDE DEF c, s
  <2>3. ResTyped'
    BY <1>2, <1>3, <1>4, <2>1, <2>2 DEF Shaped, ResTyped, files
  <2>4. ASSUME NEW q \in Procs PROVE JobFits(job'[q]) /\ EntryFits(q)'
    <3>1. EntryFits(q) /\ JobFits(job[q])
      BY DEF Shaped
    <3>2. QED
      BY <3>1, <1>3, <1>4, <1>6, <2>1, <2>2 DEF EntryFits, files
  <2>5. ASSUME NEW q \in Procs PROVE CallFits(q)'
    <3>1. CASE q = p
      BY <3>1, <1>3, <1>6 DEF CallFits
    <3>2. CASE q # p
      <4>1. CallFits(q) /\ job'[q] = job[q] /\ UNCHANGED <<space, size>> /\ JobFits(job[q])
        BY <3>2, <1>3, <2>2 DEF Shaped
      <4>2. job[q].call = "fork" => job[q].child \in Procs /\ job[q].child # c
        BY <1>4, <1>7, <3>2, <4>1 DEF CallFits, c, JobFits
      <4>3. \A x \in Procs : job'[x].call = "fork" => job'[x] = job[x]
        BY <1>3, <1>6
      <4>4. QED
        BY <4>1, <4>2, <4>3, <2>2, <1>4 DEF CallFits, Missing, Target
    <3>3. QED
      BY <3>1, <3>2
  <2>6. QED
    BY <2>3, <2>4, <2>5 DEF Shaped
<1>8. CASE job[p].call # "fork"
  <2>1. UNCHANGED <<state, kstack>>
    BY <1>1, <1>8
  <2>2. /\ space' \in [Procs -> Spaces] /\ \A q \in Procs \ {p} : space'[q] = space[q]
        /\ space'[p].pages = space[p].pages
             \/ space'[p].pages = {i \in space[p].pages : i < size[p]}
    <3> HIDE DEF s
    <3> QED BY <1>1, <1>4, <1>5
  <2> HIDE DEF s, c
  <2>3. ResTyped'
    BY <1>2, <1>3, <2>1, <2>2 DEF Shaped, ResTyped, files
  <2>4. EntryFits(p)'
    <3>1. ASSUME 0 \in space'[p].pages PROVE 0..size[p] - 1 \subseteq space'[p].pages
      <4>1. 0 \in space[p].pages
        BY <3>1, <2>2
      <4>2. 0..size[p] - 1 \subseteq space[p].pages
        BY <4>1, <1>4 DEF EntryFits
      <4>3. \A i \in 0..size[p] - 1 : i < size[p]
        BY DEF Shaped, ResTyped
      <4>4. QED
        BY <4>2, <4>3, <2>2
    <3>2. QED
      BY <3>1, <2>1, <1>3, <1>6 DEF EntryFits
  <2>5. QED
    BY <1>3, <1>6, <2>1, <2>2, <2>3, <2>4, OwnStep DEF files
<1>9. QED
  BY <1>7, <1>8

\* Shaped survives: allocproc() allocates a kernel stack.
LEMMA StackShaped ==
  ASSUME Shaped, NEW p \in Procs, Stack(p)
  PROVE  Shaped'
<1>1. /\ At(p, "stack") /\ UNCHANGED <<parent, killed, size, files, pipes, calls, panicked>>
      /\ state[p] = "live" /\ job[p].pc = "stack"
  BY DEF Stack, At
<1>2. JobFits(job[p]) /\ CallFits(p) /\ EntryFits(p)
  BY DEF Shaped
<1>3. job[p].call = "fork" /\ job[p].child \in Procs
  BY <1>1, <1>2 DEF JobFits
<1>4. CASE GiveUp(p)
  BY <1>1, <1>3, <1>4, GiveUpShaped
<1>5. CASE /\ kalloc(1)
           /\ kstack' = [kstack EXCEPT ![job[p].child] = 1]
           /\ Goto(p, [job[p] EXCEPT !.pc = "table"])
           /\ UNCHANGED <<state, space>>
  <2> DEFINE c == job[p].child
             j == [job[p] EXCEPT !.pc = "table"]
  <2>1. /\ j \in Jobs /\ JobFits(j) /\ j.pc = "table" /\ j.call = "fork" /\ j.child = c
        /\ j.goal = job[p].goal
    <3>1. job[p] \in Jobs
      BY DEF Shaped, ResTyped
    <3>2. QED
      BY <3>1, <1>1, <1>2, <1>3 DEF Jobs, JobFits
  <2> HIDE DEF j
  <2>2. /\ job' \in [Procs -> Jobs] /\ job'[p] = j
        /\ \A q \in Procs \ {p} : job'[q] = job[q] /\ Alike(job[q], job'[q])
    BY <1>5, <2>1, GotoSteps DEF j
  <2>3. c \in Procs /\ c # p /\ state[c] = "embryo" /\ kstack \in [Procs -> {0, 1}]
    BY <1>1, <1>2, <1>3 DEF CallFits, Shaped, ResTyped
  <2>4. kstack' = [kstack EXCEPT ![c] = 1] /\ UNCHANGED <<state, space, size, ofile>> /\ free' \in Nat
    BY <1>1, <1>5 DEF kalloc, Shaped, ResTyped, files
  <2>5. CallFits(p) /\ job[p].goal = size[p]
        /\ \A q \in Procs \ {p} : job[q].call = "fork" => job[q].child # c
    BY <1>2, <1>3 DEF CallFits
  <2> HIDE DEF c
  <2>6. ResTyped'
    BY <1>1, <2>2, <2>3, <2>4 DEF Shaped, ResTyped, files
  <2>7. ASSUME NEW q \in Procs PROVE JobFits(job'[q]) /\ EntryFits(q)'
    <3>1. EntryFits(q) /\ JobFits(job[q])
      BY DEF Shaped
    <3>2. QED
      BY <3>1, <1>1, <2>1, <2>2, <2>3, <2>4 DEF EntryFits
  <2>8. ASSUME NEW q \in Procs PROVE CallFits(q)'
    <3>1. \A x \in Procs : /\ job'[x].call = job[x].call /\ job'[x].child = job[x].child
                           /\ job'[x].goal = job[x].goal
      BY <2>1, <2>2, <1>3 DEF c
    <3>2. CallFits(q) /\ JobFits(job[q])
      BY DEF Shaped
    <3>3. CASE q = p
      BY <3>1, <3>2, <3>3, <2>1, <2>2, <2>3, <2>4, <2>5 DEF CallFits
    <3>4. CASE q # p
      <4>1. job[q].call = "fork" => job[q].child # c /\ job[q].child \in Procs
        BY <3>2, <3>4, <2>5 DEF JobFits
      <4>2. job'[q] = job[q]
        BY <3>4, <2>2
      <4>3. QED
        BY <4>1, <4>2, <3>1, <3>2, <2>3, <2>4 DEF CallFits, Missing, Target
    <3>5. QED
      BY <3>3, <3>4
  <2>9. QED
    BY <2>6, <2>7, <2>8 DEF Shaped
<1>6. QED
  BY <1>4, <1>5 DEF Stack

\* Shaped survives: setupkvm() takes a page.
LEMMA SetupKvmShaped ==
  ASSUME Shaped, NEW p \in Procs, SetupKvm(p)
  PROVE  Shaped'
<1> DEFINE s == job[p].new
           t == IF s.dir = 0 THEN [s EXCEPT !.dir = 1] ELSE [s EXCEPT !.ktabs = @ + 1]
           j == [job[p] EXCEPT !.new = t, !.pc = IF t.ktabs = KernelTables THEN "page" ELSE @]
<1>1. /\ state[p] = "live" /\ job[p].pc = "table"
      /\ UNCHANGED <<parent, killed, size, files, pipes, calls, panicked>>
      /\ \/ GiveUp(p)
         \/ kalloc(1) /\ Goto(p, j) /\ UNCHANGED <<state, kstack, space>>
  BY DEF SetupKvm, At
<1>2. JobFits(job[p]) /\ CallFits(p) /\ EntryFits(p) /\ job[p] \in Jobs /\ s \in Spaces
  BY DEF Shaped, ResTyped, Jobs
<1>3. job[p].call \in {"fork", "exec"}
  BY <1>1, <1>2 DEF JobFits
<1>4. CASE GiveUp(p)
  BY <1>1, <1>3, <1>4, GiveUpShaped
<1>5. CASE kalloc(1) /\ Goto(p, j) /\ UNCHANGED <<state, kstack, space>>
  <2>1. t \in Spaces
    BY <1>2 DEF Spaces
  <2> HIDE DEF t
  <2>2. /\ j \in Jobs /\ j.call = job[p].call /\ j.child = job[p].child /\ j.goal = job[p].goal
        /\ j.pc \in {"table", "page"} /\ j.mem = job[p].mem /\ j.made = job[p].made
        /\ j.todo = job[p].todo
    BY <1>1, <1>2, <2>1 DEF Jobs
  <2> HIDE DEF j
  <2>3. JobFits(j)
    BY <2>2, <1>1, <1>2, <1>3 DEF JobFits
  <2>4. /\ job' \in [Procs -> Jobs] /\ job'[p] = j
        /\ \A q \in Procs \ {p} : job'[q] = job[q] /\ Alike(job[q], job'[q])
    BY <1>5, <2>2, GotoSteps
  <2>5. free' \in Nat
    BY <1>5 DEF kalloc, Shaped, ResTyped
  <2>6. ResTyped'
    BY <1>1, <1>5, <2>4, <2>5 DEF Shaped, ResTyped, files
  <2>7. EntryFits(p)'
    BY <1>1, <1>2, <1>5, <2>2, <2>4 DEF EntryFits, files
  <2>8. job'[p].call = "fork" => job'[p].goal = size'[p]
    BY <1>1, <1>2, <2>2, <2>4 DEF CallFits
  <2>9. QED
    BY <1>1, <1>5, <2>2, <2>3, <2>4, <2>6, <2>7, <2>8, OwnStep DEF files
<1>6. QED
  BY <1>1, <1>4, <1>5

\* The next page of copyuvm() or allocuvm() is one of those still to be mapped.
LEMMA MissingType ==
  ASSUME Shaped, NEW p \in Procs
  PROVE  /\ Missing(p) \in SUBSET (0..MaxSize) /\ size[p] \in Nat /\ job[p].goal \in Nat
         /\ Missing(p) # {} => Min(Missing(p)) \in Missing(p)
         /\ Target(p) \in Spaces
<1>1. job[p].goal \in 0..MaxSize /\ size[p] \in 0..MaxSize /\ MaxSize \in Nat
  BY ResourcesAssumption DEF Shaped, ResTyped, Jobs, ResourcesAssumption
<1>2. Missing(p) \in SUBSET (0..MaxSize)
  <2> DEFINE from == IF job[p].call = "sbrk" THEN size[p] ELSE 0
  <2>1. from \in 0..MaxSize
    BY <1>1
  <2>2. Missing(p) \in SUBSET (from..job[p].goal - 1)
    BY DEF Missing
  <2> HIDE DEF from
  <2>3. QED
    BY <1>1, <2>1, <2>2
<1>3. ASSUME Missing(p) # {} PROVE Min(Missing(p)) \in Missing(p)
  <2>1. MaxSize \in Int /\ 0 \in Int
    BY <1>1
  <2>2. QED
    BY <2>1, <1>2, <1>3, Lowest
<1>4. Target(p) \in Spaces
  BY DEF Target, Shaped, ResTyped, Jobs
<1>5. QED
  BY <1>1, <1>2, <1>3, <1>4

\* Shaped survives: copyuvm() or allocuvm() takes a page.
LEMMA NextPageShaped ==
  ASSUME Shaped, NEW p \in Procs, NextPage(p)
  PROVE  Shaped'
<1> DEFINE j == [job[p] EXCEPT !.pc = "map", !.mem = 1]
<1>1. /\ state[p] = "live" /\ job[p].pc = "page" /\ Missing(p) # {}
      /\ UNCHANGED <<parent, killed, size, files, pipes, calls>>
      /\ \/ panicked' = TRUE /\ UNCHANGED <<free, state, kstack, space, job>>
         \/ GiveUp(p) /\ UNCHANGED panicked
         \/ kalloc(1) /\ Goto(p, j) /\ UNCHANGED <<state, kstack, space, panicked>>
  BY DEF NextPage, At
<1>2. JobFits(job[p]) /\ CallFits(p) /\ EntryFits(p) /\ job[p] \in Jobs
  BY DEF Shaped, ResTyped
<1>3. job[p].call \in {"fork", "exec", "sbrk"}
  BY <1>1, <1>2 DEF JobFits
<1>4. CASE GiveUp(p) /\ UNCHANGED panicked
  BY <1>1, <1>3, <1>4, GiveUpShaped
<1>5. CASE panicked' = TRUE /\ UNCHANGED <<free, state, kstack, space, job>>
  <2>1. ResTyped'
    BY <1>1, <1>5 DEF Shaped, ResTyped, files
  <2>2. \A q \in Procs : JobFits(job[q])' /\ EntryFits(q)' /\ CallFits(q)'
    BY <1>1, <1>5 DEF Shaped, EntryFits, CallFits, Missing, Target, files
  <2>3. QED
    BY <2>1, <2>2 DEF Shaped
<1>6. CASE kalloc(1) /\ Goto(p, j) /\ UNCHANGED <<state, kstack, space, panicked>>
  <2>1. /\ j \in Jobs /\ j.call = job[p].call /\ j.child = job[p].child /\ j.goal = job[p].goal
        /\ j.pc = "map" /\ j.mem = 1 /\ j.made = job[p].made /\ j.new = job[p].new
        /\ j.todo = job[p].todo
    BY <1>2 DEF Jobs
  <2> HIDE DEF j
  <2>2. JobFits(j)
    BY <2>1, <1>1, <1>2, <1>3 DEF JobFits
  <2>3. /\ job' \in [Procs -> Jobs] /\ job'[p] = j
        /\ \A q \in Procs \ {p} : job'[q] = job[q] /\ Alike(job[q], job'[q])
    BY <1>6, <2>1, GotoSteps
  <2>4. free' \in Nat
    BY <1>6 DEF kalloc, Shaped, ResTyped
  <2>5. ResTyped'
    BY <1>1, <1>6, <2>3, <2>4 DEF Shaped, ResTyped, files
  <2>6. EntryFits(p)'
    BY <1>1, <1>2, <1>6, <2>1, <2>3 DEF EntryFits, files
  <2>7. job'[p].call = "fork" => job'[p].goal = size'[p]
    BY <1>1, <1>2, <2>1, <2>3 DEF CallFits
  <2>8. (Missing(p) # {})'
    BY <1>1, <1>6, <2>1, <2>3 DEF Missing, Target
  <2>9. QED
    BY <1>1, <1>6, <2>1, <2>2, <2>3, <2>5, <2>6, <2>7, <2>8, OwnStep DEF files
<1>7. QED
  BY <1>1, <1>4, <1>5, <1>6

\* The page table after mappages().
LEMMA MapPageTable ==
  ASSUME Shaped, NEW p \in Procs, NEW i \in Missing(p), NEW t,
         t = [Target(p) EXCEPT !.utabs = @ \cup {i \div TablePages}, !.pages = @ \cup {i}]
  PROVE  /\ t \in Spaces /\ t.dir = Target(p).dir /\ t.ktabs = Target(p).ktabs
         /\ t.pages = Target(p).pages \cup {i}
         /\ Cardinality(t.pages) = Cardinality(Target(p).pages) + 1
         /\ Cardinality(t.utabs) >= Cardinality(Target(p).utabs)
         /\ Cardinality(t.utabs) \in Nat /\ Cardinality(Target(p).utabs) \in Nat
         /\ Cardinality(Target(p).pages) \in Nat
<1>1. /\ Target(p) \in Spaces /\ i \in Nat /\ i \notin Target(p).pages
  <2>1. Target(p) \in Spaces /\ Missing(p) \in SUBSET (0..MaxSize)
    BY MissingType
  <2>2. QED
    BY <2>1 DEF Missing
<1>2. i \div TablePages \in Nat
  <2>1. TablePages \in Nat \ {0}
    BY ResourcesAssumption DEF ResourcesAssumption
  <2>2. QED
    BY <1>1, <2>1
<1>3. /\ Target(p).utabs \in SUBSET Nat /\ IsFiniteSet(Target(p).utabs)
      /\ Target(p).pages \in SUBSET Nat /\ IsFiniteSet(Target(p).pages)
  BY <1>1 DEF Spaces, FiniteParts
<1>4. /\ t.utabs = Target(p).utabs \cup {i \div TablePages} /\ t.pages = Target(p).pages \cup {i}
      /\ t.dir = Target(p).dir /\ t.ktabs = Target(p).ktabs
  BY <1>1 DEF Spaces
<1>5. /\ IsFiniteSet(t.utabs) /\ Cardinality(t.utabs) >= Cardinality(Target(p).utabs)
      /\ Cardinality(t.utabs) \in Nat /\ Cardinality(Target(p).utabs) \in Nat
  <2>1. /\ IsFiniteSet(t.utabs)
        /\ Cardinality(t.utabs) = IF i \div TablePages \in Target(p).utabs
                                  THEN Cardinality(Target(p).utabs)
                                  ELSE Cardinality(Target(p).utabs) + 1
    BY <1>3, <1>4, FS_AddElement
  <2>2. Cardinality(Target(p).utabs) \in Nat
    BY <1>3, FS_CardinalityType
  <2>3. QED
    BY <2>1, <2>2
<1>6. /\ IsFiniteSet(t.pages) /\ Cardinality(t.pages) = Cardinality(Target(p).pages) + 1
      /\ Cardinality(Target(p).pages) \in Nat
  BY <1>1, <1>3, <1>4, FS_AddElement, FS_CardinalityType
<1>7. t \in Spaces
  <2>1. t.utabs \in FiniteParts /\ t.pages \in FiniteParts
    BY <1>1, <1>2, <1>3, <1>4, <1>5, <1>6 DEF FiniteParts
  <2>2. QED
    BY <1>1, <1>4, <2>1 DEF Spaces
<1>8. QED
  BY <1>4, <1>5, <1>6, <1>7

\* Shaped survives: mappages() enters a page.
LEMMA MapPageShaped ==
  ASSUME Shaped, NEW p \in Procs, MapPage(p)
  PROVE  Shaped'
<1> DEFINE i == Min(Missing(p))
           s == Target(p)
           t == [s EXCEPT !.utabs = @ \cup {i \div TablePages}, !.pages = @ \cup {i}]
           more == Cardinality(t.utabs) - Cardinality(s.utabs)
           j == [job[p] EXCEPT !.pc = "page", !.mem = 0]
<1>1. /\ state[p] = "live" /\ job[p].pc = "map"
      /\ UNCHANGED <<parent, killed, size, files, pipes, calls, panicked>>
      /\ \/ GiveUp(p)
         \/ kalloc(more) /\ Build(p, t, j) /\ UNCHANGED <<state, kstack>>
  BY DEF MapPage, At
<1>2. JobFits(job[p]) /\ CallFits(p) /\ EntryFits(p) /\ job[p] \in Jobs
  BY DEF Shaped, ResTyped
<1>3. job[p].call \in {"fork", "exec", "sbrk"} /\ Missing(p) # {}
  BY <1>1, <1>2 DEF JobFits, CallFits
<1>4. CASE GiveUp(p)
  BY <1>1, <1>3, <1>4, GiveUpShaped
<1>5. CASE kalloc(more) /\ Build(p, t, j) /\ UNCHANGED <<state, kstack>>
  <2>1. i \in Missing(p) /\ Missing(p) \in SUBSET (0..MaxSize) /\ size[p] \in Nat
    BY <1>3, MissingType
  <2>2. /\ t \in Spaces /\ t.pages = s.pages \cup {i} /\ more \in Nat
    <3> HIDE DEF i
    <3>1. /\ t \in Spaces /\ t.pages = s.pages \cup {i}
          /\ Cardinality(t.utabs) >= Cardinality(s.utabs)
          /\ Cardinality(t.utabs) \in Nat /\ Cardinality(s.utabs) \in Nat
      BY <2>1, MapPageTable
    <3> HIDE DEF t, s
    <3>2. QED
      BY <3>1
  <2> HIDE DEF t, more, i
  <2>3. free' \in Nat
    BY <1>5, <2>2 DEF kalloc, Shaped, ResTyped
  <2>4. /\ j \in Jobs /\ j.call = job[p].call /\ j.child = job[p].child /\ j.goal = job[p].goal
        /\ j.pc = "page" /\ j.mem = 0 /\ j.made = job[p].made /\ j.todo = job[p].todo
        /\ j.new = job[p].new
    BY <1>2 DEF Jobs
  <2> HIDE DEF j
  <2>5. CASE job[p].call = "sbrk"
    <3>1. Goto(p, j) /\ space' = [space EXCEPT ![p] = t] /\ s = space[p] /\ size[p] <= i
      BY <1>5, <2>1, <2>4, <2>5 DEF Build, Target, Missing
    <3>2. JobFits(j)
      BY <2>4, <2>5, <1>1, <1>2 DEF JobFits
    <3>3. /\ job' \in [Procs -> Jobs] /\ job'[p] = j
          /\ \A q \in Procs \ {p} : job'[q] = job[q] /\ Alike(job[q], job'[q])
      BY <3>1, <2>4, GotoSteps
    <3>4. /\ space' \in [Procs -> Spaces] /\ space'[p] = t
          /\ \A q \in Procs \ {p} : space'[q] = space[q]
      BY <3>1, <2>2 DEF Shaped, ResTyped
    <3>5. ResTyped'
      BY <1>1, <1>5, <2>3, <3>3, <3>4 DEF Shaped, ResTyped, files
    <3>6. EntryFits(p)'
      <4>1. ASSUME 0 \in t.pages PROVE 0..size[p] - 1 \subseteq t.pages
        <5>1. CASE i = 0
          BY <5>1, <2>1, <3>1
        <5>2. CASE i # 0
          BY <5>2, <4>1, <1>1, <1>2, <2>2, <3>1 DEF EntryFits
        <5>3. QED
          BY <5>1, <5>2
      <4>2. QED
        BY <4>1, <1>1, <1>5, <2>4, <3>3, <3>4 DEF EntryFits, files
    <3>7. QED
      BY <1>1, <1>5, <2>4, <2>5, <3>2, <3>3, <3>4, <3>5, <3>6, OwnStep DEF files
  <2>6. CASE job[p].call # "sbrk"
    <3> DEFINE k == [j EXCEPT !.new = t]
    <3>1. Goto(p, k) /\ space' = space
      BY <1>5, <2>4, <2>6 DEF Build
    <3>2. /\ k \in Jobs /\ k.call = job[p].call /\ k.child = job[p].child
          /\ k.goal = job[p].goal /\ k.pc = "page" /\ k.mem = 0 /\ k.made = job[p].made
          /\ k.todo = job[p].todo
      BY <2>2, <2>4 DEF Jobs
    <3> HIDE DEF k
    <3>3. JobFits(k)
      BY <3>2, <2>6, <1>1, <1>2, <1>3 DEF JobFits
    <3>4. /\ job' \in [Procs -> Jobs] /\ job'[p] = k
          /\ \A q \in Procs \ {p} : job'[q] = job[q] /\ Alike(job[q], job'[q])
      BY <3>1, <3>2, GotoSteps
    <3>5. ResTyped'
      BY <1>1, <1>5, <2>3, <3>1, <3>4 DEF Shaped, ResTyped, files
    <3>6. EntryFits(p)'
      BY <1>1, <1>2, <1>5, <3>1, <3>2, <3>4 DEF EntryFits, files
    <3>7. job'[p].call = "fork" => job'[p].goal = size'[p]
      BY <1>1, <1>2, <3>2, <3>4 DEF CallFits
    <3>8. QED
      BY <1>1, <1>5, <3>1, <3>2, <3>3, <3>4, <3>5, <3>6, <3>7, OwnStep DEF files
  <2>7. QED
    BY <2>5, <2>6
<1>6. QED
  BY <1>1, <1>4, <1>5

\* Shaped survives: sbrk() ends.
LEMMA GrowDoneShaped ==
  ASSUME Shaped, NEW p \in Procs, GrowDone(p)
  PROVE  Shaped'
<1>1. /\ state[p] = "live" /\ job[p].pc = "page" /\ job[p].call = "sbrk" /\ Missing(p) = {}
      /\ size' = [size EXCEPT ![p] = job[p].goal] /\ Goto(p, User)
      /\ UNCHANGED <<free, procs, kstack, space, files, pipes, calls, panicked>>
  BY DEF GrowDone, At, Return
<1>2. /\ job' \in [Procs -> Jobs] /\ job'[p] = User
      /\ \A q \in Procs \ {p} : job'[q] = job[q] /\ Alike(job[q], job'[q])
  BY <1>1, UserFits, GotoSteps
<1>3. /\ job[p].goal \in 0..MaxSize /\ EntryFits(p) /\ size[p] \in 0..MaxSize
      /\ size \in [Procs -> 0..MaxSize]
  BY DEF Shaped, ResTyped, Jobs
<1>4. /\ size' \in [Procs -> 0..MaxSize] /\ size'[p] = job[p].goal
      /\ \A q \in Procs \ {p} : size'[q] = size[q]
  BY <1>1, <1>3
<1>5. ResTyped'
  BY <1>1, <1>2, <1>4 DEF Shaped, ResTyped, procs, files
<1>6. EntryFits(p)'
  <2>1. ASSUME 0 \in space[p].pages PROVE 0..job[p].goal - 1 \subseteq space[p].pages
    <3>1. 0..size[p] - 1 \subseteq space[p].pages
      BY <2>1, <1>1, <1>3 DEF EntryFits
    <3>2. size[p]..job[p].goal - 1 \subseteq space[p].pages
      BY <1>1 DEF Missing, Target
    <3>3. QED
      BY <3>1, <3>2, <1>3
  <2>2. User.pc = "user"
    BY DEF User
  <2>3. QED
    BY <2>1, <2>2, <1>1, <1>2, <1>4 DEF EntryFits, procs
<1>7. JobFits(User) /\ User.pc = "user" /\ User.call = "none"
  BY UserFits DEF User
<1>8. QED
  <2>1. UNCHANGED <<state, kstack, space, ofile>>
    BY <1>1 DEF procs, files
  <2>2. QED
    BY <2>1, <1>2, <1>4, <1>5, <1>6, <1>7, OwnStep

\* Shaped survives: exec() ends.
LEMMA ExecDoneShaped ==
  ASSUME Shaped, NEW p \in Procs, ExecDone(p)
  PROVE  Shaped'
<1>1. /\ state[p] = "live" /\ job[p].pc = "page" /\ job[p].call = "exec"
      /\ UNCHANGED <<parent, killed, files, pipes, calls, panicked>>
      /\ \/ /\ Missing(p) = {} /\ kfree(Pages(space[p]))
            /\ space' = [space EXCEPT ![p] = job[p].new]
            /\ size' = [size EXCEPT ![p] = job[p].goal]
            /\ Goto(p, User) /\ UNCHANGED <<state, kstack>>
         \/ GiveUp(p) /\ UNCHANGED size
  BY DEF ExecDone, At, Return
<1>2. CASE GiveUp(p) /\ UNCHANGED size
  BY <1>1, <1>2, GiveUpShaped
<1>3. CASE /\ Missing(p) = {} /\ kfree(Pages(space[p]))
           /\ space' = [space EXCEPT ![p] = job[p].new]
           /\ size' = [size EXCEPT ![p] = job[p].goal]
           /\ Goto(p, User) /\ UNCHANGED <<state, kstack>>
  <2>1. /\ job' \in [Procs -> Jobs] /\ job'[p] = User
        /\ \A q \in Procs \ {p} : job'[q] = job[q] /\ Alike(job[q], job'[q])
    BY <1>3, UserFits, GotoSteps
  <2>2. /\ job[p].goal \in 0..MaxSize /\ size \in [Procs -> 0..MaxSize]
        /\ job[p].new \in Spaces /\ space \in [Procs -> Spaces]
    BY DEF Shaped, ResTyped, Jobs
  <2>3. /\ size' \in [Procs -> 0..MaxSize] /\ size'[p] = job[p].goal
        /\ space' \in [Procs -> Spaces] /\ space'[p] = job[p].new
        /\ \A q \in Procs \ {p} : size'[q] = size[q] /\ space'[q] = space[q]
    BY <1>3, <2>2
  <2>4. free' \in Nat
    BY <1>3, <2>2, PagesType DEF kfree, Shaped, ResTyped
  <2>5. ResTyped'
    BY <1>1, <1>3, <2>1, <2>3, <2>4 DEF Shaped, ResTyped, files
  <2>6. JobFits(User) /\ User.pc = "user" /\ User.call = "none"
    BY UserFits DEF User
  <2>7. EntryFits(p)'
    <3>1. 0..job[p].goal - 1 \subseteq job[p].new.pages
      BY <1>1, <1>3 DEF Missing, Target
    <3>2. QED
      BY <3>1, <1>1, <1>3, <2>1, <2>3, <2>6 DEF EntryFits
  <2>8. UNCHANGED <<state, kstack, ofile>>
    BY <1>1, <1>3 DEF files
  <2>9. QED
    BY <2>1, <2>3, <2>5, <2>6, <2>7, <2>8, OwnStep
<1>4. QED
  BY <1>1, <1>2, <1>3

\* A table or a list has so many entries equal to e.
LEMMA OccursType ==
  ASSUME NEW s, IsFiniteSet(DOMAIN s), NEW e
  PROVE  /\ Occurs(s, e) \in Nat
         /\ (Occurs(s, e) = 0) <=> (\A i \in DOMAIN s : s[i] # e)
<1> DEFINE T == {i \in DOMAIN s : s[i] = e}
<1>1. IsFiniteSet(T)
  BY FS_Subset
<1>2. Cardinality(T) \in Nat /\ (Cardinality(T) = 0 <=> T = {})
  BY <1>1, FS_CardinalityType, FS_EmptySet
<1>3. QED
  BY <1>2 DEF Occurs

\* fork() is the only call that another entry of the table depends on.
LEMMA ForkDoneShaped ==
  ASSUME Shaped, NEW p \in Procs, ForkDone(p)
  PROVE  Shaped'
<1> DEFINE c == job[p].child
<1>1. /\ state[p] = "live" /\ job[p].pc = "page" /\ job[p].call = "fork" /\ Missing(p) = {}
      /\ space' = [space EXCEPT ![c] = job[p].new]
      /\ size' = [size EXCEPT ![c] = size[p]]
      /\ parent' = [parent EXCEPT ![c] = p]
      /\ ofile' = [ofile EXCEPT ![c] = ofile[p]]
      /\ ref' = [f \in Files |-> ref[f] + Occurs(ofile[p], f)]
      /\ state' = [state EXCEPT ![c] = "live"]
      /\ Goto(p, User)
      /\ UNCHANGED <<free, killed, kstack, kind, pipe, pipes, calls, panicked>>
  BY DEF ForkDone, At, Return
<1>2. /\ job' \in [Procs -> Jobs] /\ job'[p] = User
      /\ \A q \in Procs \ {p} : job'[q] = job[q] /\ Alike(job[q], job'[q])
  BY <1>1, UserFits, GotoSteps
<1>3. /\ job[p].new \in Spaces /\ JobFits(job[p]) /\ CallFits(p) /\ EntryFits(p)
      /\ space \in [Procs -> Spaces] /\ size \in [Procs -> 0..MaxSize]
      /\ parent \in [Procs -> Procs \cup {0}]
      /\ ofile \in [Procs -> [Fds -> Files \cup {0}]] /\ ref \in [Files -> Int]
      /\ state \in [Procs -> {"unused", "embryo", "live", "zombie"}]
  BY DEF Shaped, ResTyped, Jobs
<1>4. /\ c \in Procs /\ c # p /\ state[c] = "embryo" /\ EntryFits(c)
      /\ \A q \in Procs \ {p} : job[q].call = "fork" => job[q].child # c
  BY <1>1, <1>3 DEF JobFits, CallFits, Shaped
<1>5. job[p].goal = size[p] /\ 0..size[p] - 1 \subseteq job[p].new.pages
  BY <1>1, <1>3 DEF CallFits, Missing, Target
<1> HIDE DEF c
<1>6. ref' \in [Files -> Int]
  <2>1. DOMAIN ofile[p] = Fds /\ IsFiniteSet(Fds)
    BY <1>3, Basics
  <2>2. \A f \in Files : Occurs(ofile[p], f) \in Int
    BY <2>1, OccursType
  <2>3. QED
    BY <2>2, <1>1, <1>3
<1>7. /\ space' \in [Procs -> Spaces] /\ size' \in [Procs -> 0..MaxSize]
      /\ parent' \in [Procs -> Procs \cup {0}] /\ ofile' \in [Procs -> [Fds -> Files \cup {0}]]
      /\ state' \in [Procs -> {"unused", "embryo", "live", "zombie"}]
  BY <1>1, <1>3, <1>4
<1>8. ResTyped'
  BY <1>1, <1>2, <1>6, <1>7 DEF Shaped, ResTyped
<1>9. \A q \in Procs \ {c} : /\ space'[q] = space[q] /\ size'[q] = size[q] /\ ofile'[q] = ofile[q]
                             /\ state'[q] = state[q] /\ kstack'[q] = kstack[q]
  BY <1>1, <1>3, <1>4
<1>10. JobFits(User) /\ User.pc = "user" /\ User.call = "none"
  BY UserFits DEF User
<1>11. ASSUME NEW q \in Procs PROVE JobFits(job'[q]) /\ EntryFits(q)'
  <2>1. CASE q = c
    <3>1. job'[c] = User
      BY <1>2, <1>4 DEF EntryFits
    <3>2. space'[c] = job[p].new /\ size'[c] = size[p] /\ state'[c] = "live"
      BY <1>1, <1>3, <1>4
    <3>3. QED
      BY <2>1, <3>1, <3>2, <1>5, <1>10 DEF EntryFits
  <2>2. CASE q = p
    BY <2>2, <1>1, <1>2, <1>3, <1>4, <1>9, <1>10 DEF EntryFits
  <2>3. CASE q # p /\ q # c
    BY <2>3, <1>2, <1>9 DEF EntryFits, Shaped
  <2>4. QED
    BY <2>1, <2>2, <2>3
<1>12. ASSUME NEW q \in Procs PROVE CallFits(q)'
  <2>1. CASE q = p
    BY <2>1, <1>2, <1>10 DEF CallFits
  <2>2. CASE q = c
    <3>1. job'[c] = User
      BY <1>2, <1>4 DEF EntryFits
    <3>2. QED
      BY <2>2, <3>1, <1>10 DEF CallFits
  <2>3. CASE q # p /\ q # c
    <3>1. CallFits(q) /\ JobFits(job[q]) /\ job'[q] = job[q]
      BY <2>3, <1>2 DEF Shaped
    <3>2. \A x \in Procs : job'[x].call = "fork" => job'[x] = job[x]
      BY <1>2, <1>10
    <3>3. job[q].call = "fork" => job[q].child \in Procs \ {c}
      BY <3>1, <2>3, <1>4 DEF JobFits
    <3>4. QED
      BY <3>1, <3>2, <3>3, <2>3, <1>9 DEF CallFits, Missing, Target
  <2>4. QED
    BY <2>1, <2>2, <2>3
<1>13. QED
  BY <1>8, <1>11, <1>12 DEF Shaped

\* Shaped survives: fork() takes an entry.
LEMMA ForkShaped ==
  ASSUME Shaped, NEW p \in Procs, NEW c \in Procs, Fork(p, c)
  PROVE  Shaped'
<1> DEFINE j == [User EXCEPT !.call = "fork", !.pc = "stack", !.child = c, !.goal = size[p]]
<1>1. /\ Call(p) /\ state[c] = "unused" /\ state' = [state EXCEPT ![c] = "embryo"]
      /\ Goto(p, j) /\ UNCHANGED <<free, parent, killed, memory, files, pipes, panicked>>
  BY DEF Fork
<1>2. /\ j \in Jobs /\ JobFits(j) /\ j.pc = "stack" /\ j.call = "fork" /\ j.child = c
      /\ j.goal = size[p]
  <2>1. size[p] \in 0..MaxSize
    BY DEF Shaped, ResTyped
  <2>2. User \in Jobs
    BY UserFits
  <2>3. j \in Jobs
    BY <2>1, <2>2 DEF Jobs
  <2>4. /\ j.pc = "stack" /\ j.call = "fork" /\ j.child = c /\ j.goal = size[p]
        /\ j.new = User.new /\ j.mem = User.mem /\ j.made = User.made /\ j.todo = User.todo
    BY <2>2 DEF Jobs
  <2>5. User.new = NoSpace /\ User.mem = 0 /\ User.made = <<>> /\ User.todo = <<>>
    BY DEF User
  <2>6. JobFits(j)
    <3> HIDE DEF j
    <3>1. QED
      BY <2>4, <2>5 DEF JobFits
  <2>7. QED
    BY <2>3, <2>4, <2>6
<1> HIDE DEF j
<1>3. /\ job' \in [Procs -> Jobs] /\ job'[p] = j
      /\ \A q \in Procs \ {p} : job'[q] = job[q] /\ Alike(job[q], job'[q])
  BY <1>1, <1>2, GotoSteps
<1>4. calls' \in Nat /\ state[p] = "live"
  BY <1>1, CallShaped
<1>5. /\ state \in [Procs -> {"unused", "embryo", "live", "zombie"}] /\ c # p
      /\ UNCHANGED <<space, size, kstack, ofile>> /\ EntryFits(c)
  BY <1>1, <1>4 DEF Shaped, ResTyped, memory, files
<1>6. ResTyped'
  BY <1>1, <1>3, <1>4, <1>5 DEF Shaped, ResTyped, memory, files
<1>7. ASSUME NEW q \in Procs PROVE JobFits(job'[q]) /\ EntryFits(q)'
  BY <1>1, <1>2, <1>3, <1>4, <1>5 DEF EntryFits, Shaped
<1>8. \A q \in Procs \ {p} : job[q].call = "fork" =>
        job[q].child \in Procs /\ job[q].child # c /\ state[job[q].child] = "embryo"
  BY <1>1 DEF Shaped, JobFits, CallFits
<1>9. ASSUME NEW q \in Procs PROVE CallFits(q)'
  <2>1. CASE q = p
    BY <2>1, <1>1, <1>2, <1>3, <1>5, <1>8 DEF CallFits, EntryFits
  <2>2. CASE q # p
    <3>1. CallFits(q) /\ job'[q] = job[q]
      BY <2>2, <1>3 DEF Shaped
    <3>2. QED
      BY <3>1, <2>2, <1>1, <1>2, <1>3, <1>5, <1>8 DEF CallFits, Missing, Target
  <2>3. QED
    BY <2>1, <2>2
<1>10. QED
  BY <1>6, <1>7, <1>9 DEF Shaped

\* Shaped survives: exit() ends.
LEMMA ZombieShaped ==
  ASSUME Shaped, NEW p \in Procs, Zombie(p)
  PROVE  Shaped'
<1>1. /\ state[p] = "live" /\ job[p].pc = "exits" /\ job[p].todo = <<>>
      /\ state' = [state EXCEPT ![p] = "zombie"]
      /\ parent' = [c \in Procs |-> IF parent[c] = p THEN InitProc ELSE parent[c]]
      /\ Goto(p, User) /\ UNCHANGED <<free, killed, memory, files, pipes, calls, panicked>>
  BY DEF Zombie, At, Return
<1>2. /\ job' \in [Procs -> Jobs] /\ job'[p] = User
      /\ \A q \in Procs \ {p} : job'[q] = job[q] /\ Alike(job[q], job'[q])
  BY <1>1, UserFits, GotoSteps
<1>3. /\ state \in [Procs -> {"unused", "embryo", "live", "zombie"}]
      /\ parent \in [Procs -> Procs \cup {0}] /\ EntryFits(p)
  BY DEF Shaped, ResTyped
<1>4. state' \in [Procs -> {"unused", "embryo", "live", "zombie"}]
      /\ parent' \in [Procs -> Procs \cup {0}]
  BY <1>1, <1>3, Basics DEF InitProc
<1>5. ResTyped'
  BY <1>1, <1>2, <1>4 DEF Shaped, ResTyped, memory, files
<1>6. JobFits(User) /\ User.pc = "user" /\ User.call = "none"
  BY UserFits DEF User
<1>7. ASSUME NEW q \in Procs PROVE JobFits(job'[q]) /\ EntryFits(q)'
  BY <1>1, <1>2, <1>3, <1>6 DEF EntryFits, Shaped, memory, files
<1>8. ASSUME NEW q \in Procs PROVE CallFits(q)'
  <2>1. CASE q = p
    BY <2>1, <1>2, <1>6 DEF CallFits
  <2>2. CASE q # p
    <3>1. CallFits(q) /\ job'[q] = job[q] /\ JobFits(job[q])
      BY <2>2, <1>2 DEF Shaped
    <3>2. \A x \in Procs : job'[x].call = "fork" => job'[x] = job[x]
      BY <1>2, <1>6
    <3>3. job[q].call = "fork" => job[q].child \in Procs \ {p}
      BY <3>1, <1>1 DEF CallFits, JobFits
    <3>4. UNCHANGED <<space, size, kstack>>
      BY <1>1 DEF memory
    <3>5. QED
      BY <3>1, <3>2, <3>3, <3>4, <1>1 DEF CallFits, Missing, Target
  <2>3. QED
    BY <2>1, <2>2
<1>9. QED
  BY <1>5, <1>7, <1>8 DEF Shaped

\* Shaped survives: wait() frees an entry.
LEMMA WaitShaped ==
  ASSUME Shaped, NEW p \in Procs, NEW c \in Procs, Wait(p, c)
  PROVE  Shaped'
<1>1. /\ state[c] = "zombie" /\ kfree(kstack[c] + Pages(space[c]))
      /\ kstack' = [kstack EXCEPT ![c] = 0] /\ space' = [space EXCEPT ![c] = NoSpace]
      /\ size' = [size EXCEPT ![c] = 0] /\ state' = [state EXCEPT ![c] = "unused"]
      /\ parent' = [parent EXCEPT ![c] = 0] /\ killed' = [killed EXCEPT ![c] = FALSE]
      /\ UNCHANGED <<files, pipes, job, calls, panicked>>
  BY DEF Wait
<1>2. /\ state \in [Procs -> {"unused", "embryo", "live", "zombie"}]
      /\ parent \in [Procs -> Procs \cup {0}] /\ killed \in [Procs -> BOOLEAN]
      /\ kstack \in [Procs -> {0, 1}] /\ space \in [Procs -> Spaces]
      /\ size \in [Procs -> 0..MaxSize] /\ free \in Nat
  BY DEF Shaped, ResTyped
<1>3. free' \in Nat
  <2>1. kstack[c] \in Nat /\ Pages(space[c]) \in Nat
    BY <1>2, PagesType
  <2>2. QED
    BY <2>1, <1>1, <1>2 DEF kfree
<1>4. /\ state' \in [Procs -> {"unused", "embryo", "live", "zombie"}]
      /\ parent' \in [Procs -> Procs \cup {0}] /\ killed' \in [Procs -> BOOLEAN]
      /\ kstack' \in [Procs -> {0, 1}] /\ space' \in [Procs -> Spaces]
      /\ size' \in [Procs -> 0..MaxSize]
  BY <1>1, <1>2, UserFits, ResourcesAssumption DEF ResourcesAssumption
<1>5. ResTyped'
  BY <1>1, <1>3, <1>4 DEF Shaped, ResTyped, files
<1>6. ASSUME NEW q \in Procs PROVE JobFits(job'[q]) /\ EntryFits(q)'
  BY <1>1, <1>2 DEF EntryFits, Shaped, files
<1>7. ASSUME NEW q \in Procs PROVE CallFits(q)'
  <2>1. CallFits(q) /\ JobFits(job[q]) /\ EntryFits(q)
    BY DEF Shaped
  <2>2. CASE q = c
    <3>1. job[q] = User
      BY <2>1, <2>2, <1>1 DEF EntryFits
    <3>2. QED
      BY <2>2, <3>1, <1>1 DEF CallFits, User
  <2>3. CASE q # c
    <3>1. job[q].call = "fork" => job[q].child \in Procs \ {c}
      BY <2>1, <1>1 DEF CallFits, JobFits
    <3>2. QED
      BY <2>1, <2>3, <3>1, <1>1, <1>2 DEF CallFits, Missing, Target
  <2>4. QED
    BY <2>2, <2>3
<1>8. QED
  BY <1>5, <1>6, <1>7 DEF Shaped

-----------------------------------------------------------------------------
(* The operators of the file calls. *)

\* The elements of a finite set of numbers are numbered from the least: Nth() is one
\* to one and reaches them all.
LEMMA NthElement ==
  ASSUME NEW S \in SUBSET Nat, IsFiniteSet(S)
  PROVE  /\ Cardinality(S) \in Nat
         /\ \A i \in 1..Cardinality(S) : Nth(S, i) \in S
         /\ \A i, j \in 1..Cardinality(S) : Nth(S, i) = Nth(S, j) => i = j
         /\ \A x \in S : \E i \in 1..Cardinality(S) : x = Nth(S, i)
<1> DEFINE n == Cardinality(S)
           below(x) == {y \in S : y < x}
           rank == [x \in S |-> Cardinality(below(x)) + 1]
<1>1. n \in Nat /\ IsFiniteSet(1..n) /\ Cardinality(1..n) = n
  <2>1. n \in Nat
    BY FS_CardinalityType
  <2> HIDE DEF n
  <2>2. n \in Int /\ 1 \in Int
    BY <2>1
  <2>3. QED
    BY <2>1, <2>2, FS_Interval
<1>2. ASSUME NEW x \in S
      PROVE  /\ IsFiniteSet(below(x)) /\ Cardinality(below(x)) \in Nat
             /\ Cardinality(below(x)) < n
  <2>1. below(x) \in SUBSET S /\ below(x) # S
    OBVIOUS
  <2> HIDE DEF below
  <2>2. /\ IsFiniteSet(below(x)) /\ Cardinality(below(x)) <= n
        /\ Cardinality(below(x)) # n
    BY <2>1, FS_Subset
  <2>3. QED
    BY <2>2, <1>1, FS_CardinalityType
<1>3. rank \in [S -> 1..n]
  BY <1>1, <1>2
<1>4. ASSUME NEW x \in S, NEW y \in S, x < y
      PROVE  Cardinality(below(x)) < Cardinality(below(y))
  <2>1. below(x) \in SUBSET below(y) /\ below(x) # below(y)
    <3>1. x \in below(y) /\ x \notin below(x)
      BY <1>4
    <3>2. \A z \in below(x) : z \in below(y)
      BY <1>4
    <3>3. QED
      BY <3>1, <3>2
  <2>2. IsFiniteSet(below(y)) /\ Cardinality(below(x)) \in Nat /\ Cardinality(below(y)) \in Nat
    BY <1>2
  <2> HIDE DEF below
  <2>3. QED
    BY <2>1, <2>2, FS_Subset
<1>5. ASSUME NEW x \in S, NEW y \in S, Cardinality(below(x)) = Cardinality(below(y))
      PROVE  x = y
  <2>1. Cardinality(below(x)) \in Nat /\ Cardinality(below(y)) \in Nat /\ x \in Nat /\ y \in Nat
    BY <1>2
  <2>2. ~(x < y) /\ ~(y < x)
    <3> HIDE DEF below
    <3> QED BY <1>4, <1>5, <2>1
  <2>3. QED
    BY <2>1, <2>2
<1>6. rank \in Surjection(S, 1..n)
  <2>1. \A x, y \in S : rank[x] = rank[y] => x = y
    <3>1. \A x \in S : Cardinality(below(x)) \in Nat
      BY <1>2
    <3> HIDE DEF below
    <3>2. QED
      BY <3>1, <1>5
  <2> HIDE DEF rank
  <2>2. rank \in Injection(S, 1..n)
    BY <1>3, <2>1, Fun_IsInj
  <2>3. QED
    BY <2>2, <1>1, FS_Injection
<1>7. \A i \in 1..n : \E x \in S : rank[x] = i
  <2> HIDE DEF rank
  <2> QED BY <1>6, Fun_SurjectionProperties
<1>8. ASSUME NEW i \in 1..n
      PROVE  Nth(S, i) \in S /\ Cardinality(below(Nth(S, i))) = i - 1
  <2>1. \E x \in S : Cardinality(below(x)) = i - 1
    <3>1. \A x \in S : Cardinality(below(x)) \in Nat
      BY <1>2
    <3>2. PICK x \in S : rank[x] = i
      BY <1>7
    <3>3. rank[x] = Cardinality(below(x)) + 1
      OBVIOUS
    <3> HIDE DEF below, rank
    <3>4. Cardinality(below(x)) = i - 1
      BY <3>1, <3>2, <3>3
    <3>5. QED
      BY <3>4
  <2>2. QED
    BY <2>1 DEF Nth
<1>9. ASSUME NEW x \in S PROVE \E i \in 1..n : x = Nth(S, i)
  <2> DEFINE c == Cardinality(below(x))
  <2>1. c \in Nat /\ c < n
    BY <1>2
  <2>2. PICK i \in 1..n : i - 1 = c
    <3> HIDE DEF c
    <3>1. c + 1 \in 1..n /\ (c + 1) - 1 = c
      BY <2>1, <1>1
    <3>2. QED
      BY <3>1
  <2>3. Nth(S, i) \in S /\ Cardinality(below(Nth(S, i))) = i - 1
    BY <1>8
  <2>4. x = Nth(S, i)
    <3> HIDE DEF below
    <3> QED BY <1>5, <2>2, <2>3
  <2>5. QED
    BY <2>4
<1>10. ASSUME NEW i \in 1..n, NEW j \in 1..n, Nth(S, i) = Nth(S, j) PROVE i = j
  <2>1. Cardinality(below(Nth(S, i))) = i - 1 /\ Cardinality(below(Nth(S, j))) = j - 1
    BY <1>8
  <2>2. i - 1 = j - 1
    BY <2>1, <1>10
  <2>3. QED
    BY <2>2, <1>1
<1>11. QED
  BY <1>1, <1>8, <1>9, <1>10

\* Min() of two numbers.
LEMMA LesserOfTwo ==
  ASSUME NEW a \in Int, NEW b \in Int
  PROVE  Min({a, b}) = IF a <= b THEN a ELSE b
  BY DEF Min

\* filealloc() takes a file that has no reference.
LEMMA NewFileFree ==
  ASSUME \A f \in Files : ref[f] \in Nat, ~NoFile
  PROVE  NewFile \in Files /\ ref[NewFile] = 0
<1> DEFINE T == {f \in Files : ref[f] = 0}
<1>1. T \in SUBSET Nat /\ T # {}
  <2>1. Files \in SUBSET Nat
    BY Basics
  <2>2. \E f \in Files : ref[f] = 0
    <3>1. PICK f \in Files : ~(ref[f] > 0)
      BY DEF NoFile
    <3>2. ref[f] \in Nat
      OBVIOUS
    <3>3. QED
      BY <3>1, <3>2
  <2>3. QED
    BY <2>1, <2>2
<1>2. PICK f \in T : \A g \in T : f <= g
  <2> HIDE DEF T
  <2> QED BY <1>1, Least
<1>3. \A g \in 1..f - 1 : ref[g] > 0
  <2>1. ASSUME NEW g \in 1..f - 1 PROVE g \in Files /\ g \in Nat /\ f \in Nat /\ ~(f <= g)
    <3>1. NFILE \in Nat /\ f \in 1..NFILE
      BY ResourcesAssumption DEF ResourcesAssumption, Files
    <3>2. QED
      BY <3>1 DEF Files
  <2>2. QED
    BY <2>1, <1>2
<1>4. QED
  BY <1>2, <1>3 DEF NewFile

\* The list of closes of a list of files.
LEMMA ClosesType ==
  ASSUME NEW fs \in Seq(Files)
  PROVE  /\ Closes(fs) \in Seq(Items) /\ Len(Closes(fs)) = Len(fs) /\ DOMAIN Closes(fs) = DOMAIN fs
         /\ \A i \in DOMAIN fs : Closes(fs)[i] = CloseOf(fs[i]) /\ fs[i] \in Files
         /\ \A i \in DOMAIN Closes(fs) :
              Closes(fs)[i].end = "none" /\ Closes(fs)[i].file \in Files
<1>1. \A f \in Files : CloseOf(f) \in Items
  BY Basics DEF CloseOf, Items
<1>2. Len(fs) \in Nat /\ DOMAIN fs = 1..Len(fs) /\ \A i \in 1..Len(fs) : fs[i] \in Files
  BY LenProperties, ElementOfSeq
<1>3. Closes(fs) = [i \in 1..Len(fs) |-> CloseOf(fs[i])]
  BY <1>2 DEF Closes
<1>4. Closes(fs) \in Seq(Items) /\ Len(Closes(fs)) = Len(fs)
  <2>1. \A i \in 1..Len(fs) : CloseOf(fs[i]) \in Items
    BY <1>1, <1>2
  <2>2. QED
    BY <1>2, <1>3, <2>1
<1>5. QED
  BY <1>2, <1>3, <1>4 DEF CloseOf

\* The count of the new file is a number.
LEMMA NewRef ==
  ASSUME Shaped, ref' = [ref EXCEPT ![NewFile] = 1]
  PROVE  ref' \in [Files -> Int]
<1>1. ref \in [Files -> Int]
  BY DEF Shaped, ResTyped
<1>2. \A f \in Files : [ref EXCEPT ![NewFile] = 1][f] \in Int
  BY <1>1
<1>3. QED
  BY <1>1, <1>2

\* Shaped survives: open() or pipe() takes a file.
LEMMA OpenShaped ==
  ASSUME Shaped, \A f \in Files : ref[f] \in Nat, NEW p \in Procs, NEW call \in {"open", "pipe"},
         Open(p, call)
  PROVE  Shaped'
<1> DEFINE j == [User EXCEPT !.call = call, !.pc = IF call = "open" THEN "installs" ELSE "second",
                             !.made = <<NewFile>>]
<1>1. /\ Call(p) /\ ~NoFile /\ ref' = [ref EXCEPT ![NewFile] = 1] /\ Goto(p, j)
      /\ UNCHANGED <<free, procs, memory, ofile, kind, pipe, pipes, panicked>>
  BY DEF Open
<1>2. NewFile \in Files
  BY <1>1, NewFileFree
<1>3. /\ j \in Jobs /\ JobFits(j) /\ j.pc \in {"installs", "second"} /\ j.call # "fork"
  <2>1. <<NewFile>> \in Seq(Files) /\ Len(<<NewFile>>) = 1
    BY <1>2
  <2>2. /\ j \in Jobs /\ j.pc = (IF call = "open" THEN "installs" ELSE "second")
        /\ j.call = call /\ j.made = <<NewFile>> /\ j.new = User.new /\ j.mem = User.mem
        /\ j.todo = User.todo
    <3> DEFINE c == IF call = "open" THEN "installs" ELSE "second"
               f == <<NewFile>>
    <3>1. User \in Jobs /\ f \in Seq(Files) /\ c \in {"installs", "second"}
      BY <2>1, UserEmpty
    <3>2. j = [User EXCEPT !.call = call, !.pc = c, !.made = f]
      OBVIOUS
    <3> HIDE DEF c, f, j
    <3>3. j \in Jobs
      BY <3>1, <3>2 DEF Jobs
    <3>4. /\ j.pc = c /\ j.call = call /\ j.made = f /\ j.new = User.new /\ j.mem = User.mem
          /\ j.todo = User.todo
      BY <3>1, <3>2 DEF Jobs
    <3>5. QED
      BY <3>3, <3>4 DEF c, f
  <2> HIDE DEF j
  <2>3. QED
    BY <2>1, <2>2 DEF User, JobFits
<1> HIDE DEF j
<1>4. /\ job' \in [Procs -> Jobs] /\ job'[p] = j
      /\ \A q \in Procs \ {p} : Alike(job[q], job'[q])
  BY <1>1, <1>3, GotoSteps
<1>5. calls' \in Nat /\ state[p] = "live"
  BY <1>1, CallShaped
<1>6. ref' \in [Files -> Int]
  BY <1>1, NewRef
<1>7. ResTyped'
  BY <1>1, <1>4, <1>5, <1>6 DEF Shaped, ResTyped, procs, memory
<1>8. UNCHANGED <<state, kstack, space, size, ofile>>
  BY <1>1 DEF procs, memory
<1>9. QED
  BY <1>3, <1>4, <1>5, <1>7, <1>8, CallStep

\* The file a failing call has to close.
LEMMA ClosingFits ==
  ASSUME NEW fs \in Seq(Files), NEW j, j = [User EXCEPT !.todo = Closes(fs)]
  PROVE  j \in Jobs /\ JobFits(j) /\ j.pc = "user" /\ j.call = "none"
<1>1. j \in Jobs /\ j.pc = "user" /\ j.call = "none" /\ j.todo = Closes(fs)
      /\ j.new = NoSpace /\ j.mem = 0 /\ j.made = <<>>
  BY UserFits, ClosesType DEF User, Jobs
<1>2. \A i \in DOMAIN j.todo : j.todo[i].end = "none" => j.todo[i].file \in Files
  BY <1>1, ClosesType
<1>3. JobFits(j)
  BY <1>1, <1>2 DEF JobFits
<1>4. QED
  BY <1>1, <1>3

\* Shaped survives: pipealloc() takes its second file.
LEMMA SecondFileShaped ==
  ASSUME Shaped, \A f \in Files : ref[f] \in Nat, NEW p \in Procs, SecondFile(p)
  PROVE  Shaped'
<1> DEFINE fails == [User EXCEPT !.todo = Closes(job[p].made)]
           goes == [job[p] EXCEPT !.pc = "buffer", !.made = Append(@, NewFile)]
<1>1. /\ state[p] = "live" /\ job[p].pc = "second"
      /\ UNCHANGED <<free, procs, memory, ofile, kind, pipe, pipes, calls, panicked>>
      /\ \/ Goto(p, fails) /\ UNCHANGED ref
         \/ ~NoFile /\ ref' = [ref EXCEPT ![NewFile] = 1] /\ Goto(p, goes)
  BY DEF SecondFile, At
<1>2. job[p] \in Jobs /\ JobFits(job[p]) /\ job[p].made \in Seq(Files)
  BY DEF Shaped, ResTyped, Jobs
<1>3. UNCHANGED <<state, kstack, space, size, ofile>>
  BY <1>1 DEF procs, memory
<1>4. SUFFICES ASSUME NEW j \in Jobs, JobFits(j), j.pc \in {"user", "buffer"}, j.call # "fork",
                      Goto(p, j), ref' \in [Files -> Int]
               PROVE  Shaped'
  <2>1. CASE Goto(p, fails) /\ UNCHANGED ref
    <3>1. fails \in Jobs /\ JobFits(fails) /\ fails.pc = "user" /\ fails.call = "none"
      BY <1>2, ClosingFits
    <3> HIDE DEF fails
    <3>2. ref' \in [Files -> Int]
      BY <2>1 DEF Shaped, ResTyped
    <3>3. QED
      BY <2>1, <3>1, <3>2, <1>4
  <2>2. CASE ~NoFile /\ ref' = [ref EXCEPT ![NewFile] = 1] /\ Goto(p, goes)
    <3>1. NewFile \in Files
      BY <2>2, NewFileFree
    <3>2. Append(job[p].made, NewFile) \in Seq(Files)
          /\ Len(Append(job[p].made, NewFile)) = Len(job[p].made) + 1
      BY <1>2, <3>1
    <3>3. Len(job[p].made) = 1 /\ job[p].call \notin {"fork", "open"} /\ job[p].new = NoSpace
          /\ job[p].mem = 0
      BY <1>1, <1>2 DEF JobFits
    <3>4. /\ goes \in Jobs /\ goes.pc = "buffer" /\ goes.call = job[p].call
          /\ goes.made = Append(job[p].made, NewFile) /\ goes.new = job[p].new
          /\ goes.mem = job[p].mem /\ goes.todo = job[p].todo
      BY <1>2, <3>2 DEF Jobs
    <3> HIDE DEF goes
    <3>5. JobFits(goes)
      BY <3>2, <3>3, <3>4, <1>1, <1>2 DEF JobFits
    <3>6. ref' \in [Files -> Int]
      BY <2>2, NewRef
    <3>7. goes.call # "fork"
      BY <3>3, <3>4
    <3>8. QED
      BY <2>2, <3>4, <3>5, <3>6, <3>7, <1>4
  <2>3. QED
    BY <1>1, <2>1, <2>2
<1>5. /\ job' \in [Procs -> Jobs] /\ job'[p] = j
      /\ \A q \in Procs \ {p} : Alike(job[q], job'[q])
  BY <1>4, GotoSteps
<1>6. ResTyped'
  BY <1>1, <1>4, <1>5 DEF Shaped, ResTyped, procs, memory
<1>7. QED
  BY <1>1, <1>3, <1>4, <1>5, <1>6, CallStep

\* A new pipe, and none, are pipes.
LEMMA NewPipeType ==
  NewPipe \in PipeRecords /\ NoPipe \in PipeRecords
<1>1. 0 \in Counters
  BY ResourcesAssumption DEF ResourcesAssumption, Counters
<1>2. QED
  BY <1>1 DEF NewPipe, NoPipe, PipeRecords

\* Shaped survives: pipealloc() takes its page.
LEMMA PipeBufferShaped ==
  ASSUME Shaped, NEW p \in Procs, PipeBuffer(p)
  PROVE  Shaped'
<1> DEFINE r == job[p].made[1]
           v == job[p].made[2]
           fails == [User EXCEPT !.todo = Closes(job[p].made)]
           goes == [job[p] EXCEPT !.pc = "installs"]
<1>1. /\ state[p] = "live" /\ job[p].pc = "buffer"
      /\ UNCHANGED <<procs, memory, ofile, ref, calls, panicked>>
      /\ \/ Goto(p, fails) /\ UNCHANGED <<free, kind, pipe, pipes>>
         \/ /\ kalloc(1)
            /\ \E k \in Pipes : /\ pipes' = [pipes EXCEPT ![k] = NewPipe]
                                /\ pipe' = [pipe EXCEPT ![r] = k, ![v] = k]
            /\ kind' = [kind EXCEPT ![r] = "read", ![v] = "write"] /\ Goto(p, goes)
  BY DEF PipeBuffer, At
<1>2. /\ job[p] \in Jobs /\ JobFits(job[p]) /\ job[p].made \in Seq(Files)
      /\ kind \in [Files -> Ends \cup {"none", "inode"}] /\ pipe \in [Files -> Pipes \cup {0}]
      /\ pipes \in [Pipes -> PipeRecords] /\ free \in Nat
  BY DEF Shaped, ResTyped, Jobs
<1>3. UNCHANGED <<state, kstack, space, size, ofile>>
  BY <1>1 DEF procs, memory
<1>4. SUFFICES ASSUME NEW j \in Jobs, JobFits(j), j.pc \in {"user", "installs"}, j.call # "fork",
                      Goto(p, j), kind' \in [Files -> Ends \cup {"none", "inode"}],
                      pipe' \in [Files -> Pipes \cup {0}], pipes' \in [Pipes -> PipeRecords],
                      free' \in Nat
               PROVE  Shaped'
  <2>1. CASE Goto(p, fails) /\ UNCHANGED <<free, kind, pipe, pipes>>
    <3>1. fails \in Jobs /\ JobFits(fails) /\ fails.pc = "user" /\ fails.call = "none"
      BY <1>2, ClosingFits
    <3> HIDE DEF fails
    <3>2. QED
      BY <2>1, <3>1, <1>2, <1>4
  <2>2. CASE /\ kalloc(1)
             /\ \E k \in Pipes : /\ pipes' = [pipes EXCEPT ![k] = NewPipe]
                                 /\ pipe' = [pipe EXCEPT ![r] = k, ![v] = k]
             /\ kind' = [kind EXCEPT ![r] = "read", ![v] = "write"] /\ Goto(p, goes)
    <3>1. Len(job[p].made) = 2 /\ job[p].call \notin {"fork", "open"} /\ job[p].new = NoSpace
          /\ job[p].mem = 0
      BY <1>1, <1>2 DEF JobFits
    <3>2. /\ goes \in Jobs /\ goes.pc = "installs" /\ goes.call = job[p].call
          /\ goes.made = job[p].made /\ goes.new = job[p].new
          /\ goes.mem = job[p].mem /\ goes.todo = job[p].todo
      BY <1>2 DEF Jobs
    <3> HIDE DEF goes
    <3>3. JobFits(goes)
      BY <3>1, <3>2, <1>1, <1>2 DEF JobFits
    <3>4. kind' \in [Files -> Ends \cup {"none", "inode"}]
      BY <2>2, <1>2 DEF Ends
    <3>5. pipe' \in [Files -> Pipes \cup {0}] /\ pipes' \in [Pipes -> PipeRecords]
      <4>1. PICK k \in Pipes : /\ pipes' = [pipes EXCEPT ![k] = NewPipe]
                               /\ pipe' = [pipe EXCEPT ![r] = k, ![v] = k]
        BY <2>2
      <4> HIDE DEF r, v
      <4>2. pipes' \in [Pipes -> PipeRecords]
        BY <4>1, <1>2, NewPipeType
      <4>3. pipe' \in [Files -> Pipes \cup {0}]
        BY <4>1, <1>2
      <4>4. QED
        BY <4>2, <4>3
    <3>6. free' \in Nat
      BY <2>2, <1>2 DEF kalloc
    <3>7. QED
      BY <2>2, <3>1, <3>2, <3>3, <3>4, <3>5, <3>6, <1>4
  <2>3. QED
    BY <1>1, <2>1, <2>2
<1>5. /\ job' \in [Procs -> Jobs] /\ job'[p] = j
      /\ \A q \in Procs \ {p} : Alike(job[q], job'[q])
  BY <1>4, GotoSteps
<1>6. ResTyped'
  BY <1>1, <1>4, <1>5 DEF Shaped, ResTyped, procs, memory
<1>7. QED
  BY <1>1, <1>3, <1>4, <1>5, <1>6, CallStep

\* Shaped survives: fdalloc() for the new files.
LEMMA InstallShaped ==
  ASSUME Shaped, NEW p \in Procs, Install(p)
  PROVE  Shaped'
<1> DEFINE fs == job[p].made
           fd(i) == Nth(FreeFds(p), i)
           fails == [User EXCEPT !.todo = Closes(fs)]
           table == [x \in Fds |-> IF \E i \in DOMAIN fs : x = fd(i)
                                   THEN fs[CHOOSE i \in DOMAIN fs : x = fd(i)] ELSE ofile[p][x]]
<1>1. /\ state[p] = "live" /\ job[p].pc = "installs"
      /\ UNCHANGED <<free, procs, memory, ref, pipe, pipes, calls, panicked>>
      /\ \/ Goto(p, fails) /\ UNCHANGED <<ofile, kind>>
         \/ /\ ofile' = [ofile EXCEPT ![p] = table]
            /\ kind' = IF job[p].call = "open" THEN [kind EXCEPT ![fs[1]] = "inode"] ELSE kind
            /\ Goto(p, User)
  BY DEF Install, At, Return
<1>2. /\ fs \in Seq(Files) /\ ofile \in [Procs -> [Fds -> Files \cup {0}]]
      /\ kind \in [Files -> Ends \cup {"none", "inode"}]
  BY DEF Shaped, ResTyped, Jobs
<1>3. table \in [Fds -> Files \cup {0}]
  <2>1. \A i \in DOMAIN fs : fs[i] \in Files
    BY <1>2, ElementOfSeq
  <2> HIDE DEF fd, fs
  <2>2. QED
    BY <2>1, <1>2
<1> HIDE DEF table
<1>4. /\ ofile' \in [Procs -> [Fds -> Files \cup {0}]]
      /\ kind' \in [Files -> Ends \cup {"none", "inode"}]
      /\ \A q \in Procs \ {p} : ofile'[q] = ofile[q]
  BY <1>1, <1>2, <1>3
<1>5. SUFFICES ASSUME NEW j \in Jobs, JobFits(j), j.pc = "user", j.call = "none", Goto(p, j)
               PROVE  Shaped'
  <2>1. fails \in Jobs /\ JobFits(fails) /\ fails.pc = "user" /\ fails.call = "none"
    BY <1>2, ClosingFits
  <2>2. User \in Jobs /\ JobFits(User) /\ User.pc = "user" /\ User.call = "none"
    BY UserFits DEF User
  <2> HIDE DEF fails
  <2>3. QED
    BY <2>1, <2>2, <1>1, <1>5
<1>6. /\ job' \in [Procs -> Jobs] /\ job'[p] = j
      /\ \A q \in Procs \ {p} : Alike(job[q], job'[q])
  BY <1>5, GotoSteps
<1>7. ResTyped'
  BY <1>1, <1>4, <1>6 DEF Shaped, ResTyped, procs, memory
<1>8. UNCHANGED <<state, kstack, space, size>>
  BY <1>1 DEF procs, memory
<1>9. QED
  BY <1>1, <1>4, <1>5, <1>6, <1>7, <1>8, CallStep

\* Shaped survives: dup().
LEMMA DupShaped ==
  ASSUME Shaped, NEW p \in Procs, NEW fd \in Fds, Dup(p, fd)
  PROVE  Shaped'
<1>1. /\ Call(p) /\ ofile[p][fd] # 0
      /\ ofile' = [ofile EXCEPT ![p][Min(FreeFds(p))] = ofile[p][fd]]
      /\ ref' = [ref EXCEPT ![ofile[p][fd]] = @ + 1]
      /\ UNCHANGED <<free, procs, memory, kind, pipe, pipes, job, panicked>>
  BY DEF Dup
<1>2. /\ ofile \in [Procs -> [Fds -> Files \cup {0}]] /\ ref \in [Files -> Int]
      /\ job[p] \in Jobs /\ JobFits(job[p])
  BY DEF Shaped, ResTyped
<1>3. ref' \in [Files -> Int]
  BY <1>1, <1>2
<1>4. /\ ofile' \in [Procs -> [Fds -> Files \cup {0}]]
      /\ \A q \in Procs \ {p} : ofile'[q] = ofile[q]
  BY <1>1, <1>2
<1>5. calls' \in Nat /\ state[p] = "live" /\ job[p].pc = "user"
  BY <1>1, CallShaped
<1>6. ResTyped'
  BY <1>1, <1>3, <1>4, <1>5 DEF Shaped, ResTyped, procs, memory
<1>7. job[p].call # "fork"
  BY <1>2, <1>5 DEF JobFits
<1>8. UNCHANGED <<state, kstack, space, size, job>>
  BY <1>1 DEF procs, memory
<1>9. QED
  BY <1>2, <1>4, <1>5, <1>6, <1>7, <1>8, CallStep DEF Alike

\* Shaped survives: close() starts.
LEMMA CloseShaped ==
  ASSUME Shaped, NEW p \in Procs, NEW fd \in Fds, Close(p, fd)
  PROVE  Shaped'
<1> DEFINE fs == <<ofile[p][fd]>>
           j == [User EXCEPT !.todo = <<CloseOf(ofile[p][fd])>>]
<1>1. /\ Call(p) /\ ofile[p][fd] # 0 /\ Goto(p, j)
      /\ ofile' = [ofile EXCEPT ![p][fd] = 0]
      /\ UNCHANGED <<free, procs, memory, ref, kind, pipe, pipes, panicked>>
  BY DEF Close
<1>2. ofile \in [Procs -> [Fds -> Files \cup {0}]]
  BY DEF Shaped, ResTyped
<1>3. fs \in Seq(Files) /\ Closes(fs) = <<CloseOf(ofile[p][fd])>>
  BY <1>1, <1>2 DEF Closes
<1>4. j \in Jobs /\ JobFits(j) /\ j.pc = "user" /\ j.call = "none"
  BY <1>3, ClosingFits
<1> HIDE DEF j
<1>5. /\ job' \in [Procs -> Jobs] /\ job'[p] = j
      /\ \A q \in Procs \ {p} : Alike(job[q], job'[q])
  BY <1>1, <1>4, GotoSteps
<1>6. /\ ofile' \in [Procs -> [Fds -> Files \cup {0}]]
      /\ \A q \in Procs \ {p} : ofile'[q] = ofile[q]
  BY <1>1, <1>2
<1>7. calls' \in Nat /\ state[p] = "live"
  BY <1>1, CallShaped
<1>8. ResTyped'
  BY <1>1, <1>5, <1>6, <1>7 DEF Shaped, ResTyped, procs, memory
<1>9. UNCHANGED <<state, kstack, space, size>>
  BY <1>1 DEF procs, memory
<1>10. QED
  BY <1>4, <1>5, <1>6, <1>7, <1>8, <1>9, CallStep

\* The rest of a list of closes, with or without another in front.
LEMMA RestFits ==
  ASSUME NEW s \in Seq(Items), s # <<>>, NEW x \in Items
  PROVE  /\ Head(s) \in Items /\ Tail(s) \in Seq(Items) /\ <<x>> \o Tail(s) \in Seq(Items)
         /\ 1 \in DOMAIN s /\ Head(s) = s[1]
         /\ \A i \in DOMAIN Tail(s) : i + 1 \in DOMAIN s /\ Tail(s)[i] = s[i + 1]
         /\ 1 \in DOMAIN (<<x>> \o Tail(s)) /\ (<<x>> \o Tail(s))[1] = x
         /\ DOMAIN (<<x>> \o Tail(s)) = DOMAIN s
         /\ \A i \in DOMAIN s : i # 1 => (<<x>> \o Tail(s))[i] = s[i]
<1>1. /\ Head(s) \in Items /\ Tail(s) \in Seq(Items) /\ Len(Tail(s)) = Len(s) - 1
      /\ \A i \in 1..Len(Tail(s)) : Tail(s)[i] = s[i + 1]
  BY HeadTailProperties
<1>2. Len(s) \in Nat /\ Len(s) # 0 /\ DOMAIN s = 1..Len(s) /\ DOMAIN Tail(s) = 1..Len(s) - 1
      /\ Head(s) = s[1]
  BY <1>1, LenProperties, EmptySeq
<1>3. <<x>> \in Seq(Items) /\ Len(<<x>>) = 1
  OBVIOUS
<1>4. /\ <<x>> \o Tail(s) \in Seq(Items) /\ Len(<<x>> \o Tail(s)) = 1 + Len(Tail(s))
      /\ \A i \in 1..1 + Len(Tail(s)) :
           (<<x>> \o Tail(s))[i] = IF i <= 1 THEN <<x>>[i] ELSE Tail(s)[i - 1]
  BY <1>1, <1>3, ConcatProperties
<1>5. DOMAIN (<<x>> \o Tail(s)) = 1..Len(s)
  BY <1>1, <1>2, <1>4, LenProperties
<1>6. ASSUME NEW i \in DOMAIN Tail(s) PROVE i + 1 \in DOMAIN s /\ Tail(s)[i] = s[i + 1]
  <2>1. i \in 1..Len(Tail(s)) /\ i + 1 \in 1..Len(s)
    BY <1>1, <1>2
  <2>2. QED
    BY <2>1, <1>1, <1>2
<1>7. (<<x>> \o Tail(s))[1] = x
  BY <1>1, <1>2, <1>4
<1>8. ASSUME NEW i \in DOMAIN s, i # 1 PROVE (<<x>> \o Tail(s))[i] = s[i]
  <2>1. i \in 1..Len(s) /\ i - 1 \in 1..Len(Tail(s)) /\ ~(i <= 1) /\ (i - 1) + 1 = i
    BY <1>1, <1>2, <1>8
  <2>2. (<<x>> \o Tail(s))[i] = Tail(s)[i - 1]
    BY <2>1, <1>1, <1>2, <1>4
  <2>3. Tail(s)[i - 1] = s[(i - 1) + 1]
    BY <2>1, <1>1
  <2>4. QED
    BY <2>1, <2>2, <2>3
<1>9. QED
  BY <1>1, <1>2, <1>4, <1>5, <1>6, <1>7, <1>8

\* Shaped survives: fileclose().
LEMMA FileCloseShaped ==
  ASSUME Shaped, \A f \in Files : kind[f] \in Ends => pipe[f] \in Pipes,
         NEW p \in Procs, FileClose(p)
  PROVE  Shaped'
<1> DEFINE f == Todo(p).file
           x == [file |-> pipe[f], end |-> kind[f]]
           todo == IF ref[f] = 1 /\ kind[f] \in {"read", "write"}
                   THEN <<x>> \o Tail(job[p].todo) ELSE Tail(job[p].todo)
           j == [job[p] EXCEPT !.todo = todo]
<1>1. /\ state[p] = "live" /\ job[p].todo # <<>> /\ Head(job[p].todo).end = "none"
      /\ ref' = [ref EXCEPT ![f] = @ - 1]
      /\ kind' = IF ref[f] = 1 THEN [kind EXCEPT ![f] = "none"] ELSE kind
      /\ Goto(p, j)
      /\ UNCHANGED <<free, procs, memory, ofile, pipe, pipes, calls, panicked>>
  BY DEF FileClose, Busy, Todo
<1>2. /\ job[p] \in Jobs /\ JobFits(job[p]) /\ job[p].todo \in Seq(Items)
      /\ kind \in [Files -> Ends \cup {"none", "inode"}] /\ ref \in [Files -> Int]
      /\ EntryFits(p)
  BY DEF Shaped, ResTyped, Jobs
<1>3. /\ todo \in Seq(Items)
      /\ \A i \in DOMAIN todo : todo[i].end = "none" => todo[i].file \in Files
  <2>1. \A i \in DOMAIN job[p].todo :
          job[p].todo[i].end = "none" => job[p].todo[i].file \in Files
    BY <1>2 DEF JobFits
  <2>2. f \in Files
    <3>1. Head(job[p].todo) = job[p].todo[1] /\ 1 \in DOMAIN job[p].todo
      <4>1. Head(job[p].todo) \in Items
        BY <1>1, <1>2, HeadTailProperties
      <4>2. QED
        BY <4>1, <1>1, <1>2, RestFits
    <3>2. QED
      BY <3>1, <2>1, <1>1 DEF Todo
  <2>3. CASE ref[f] = 1 /\ kind[f] \in {"read", "write"}
    <3>1. x \in Items /\ x.end # "none"
      BY <2>2, <2>3 DEF Items, Ends
    <3>2. todo = <<x>> \o Tail(job[p].todo)
      BY <2>3
    <3> HIDE DEF todo, x
    <3>3. todo \in Seq(Items) /\ DOMAIN todo = DOMAIN job[p].todo /\ todo[1] = x
          /\ \A i \in DOMAIN job[p].todo : i # 1 => todo[i] = job[p].todo[i]
      BY <3>1, <3>2, <1>1, <1>2, RestFits
    <3>4. QED
      BY <2>1, <3>1, <3>3
  <2>4. CASE ~(ref[f] = 1 /\ kind[f] \in {"read", "write"})
    <3>1. todo = Tail(job[p].todo)
      BY <2>4
    <3> HIDE DEF todo
    <3>2. Head(job[p].todo) \in Items
      BY <1>1, <1>2, HeadTailProperties
    <3>3. todo \in Seq(Items)
          /\ \A i \in DOMAIN todo : i + 1 \in DOMAIN job[p].todo /\ todo[i] = job[p].todo[i + 1]
      BY <3>1, <3>2, <1>1, <1>2, RestFits
    <3>4. QED
      BY <2>1, <3>3
  <2>5. QED
    BY <2>3, <2>4
<1> HIDE DEF todo
<1>4. /\ j \in Jobs /\ j.pc = job[p].pc /\ j.call = job[p].call /\ j.new = job[p].new
      /\ j.mem = job[p].mem /\ j.made = job[p].made /\ j.todo = todo
  BY <1>2, <1>3 DEF Jobs
<1> HIDE DEF j
<1>5. job[p].pc \in {"user", "exits"} /\ job[p].call # "fork"
  BY <1>1, <1>2 DEF JobFits
<1>6. JobFits(j)
  BY <1>2, <1>3, <1>4, <1>5 DEF JobFits
<1>7. /\ job' \in [Procs -> Jobs] /\ job'[p] = j
      /\ \A q \in Procs \ {p} : Alike(job[q], job'[q])
  BY <1>1, <1>4, GotoSteps
<1>8. ref' \in [Files -> Int] /\ kind' \in [Files -> Ends \cup {"none", "inode"}]
  <2> HIDE DEF f
  <2>1. \A g \in Files : [ref EXCEPT ![f] = @ - 1][g] \in Int
    BY <1>2
  <2>2. ref' \in [Files -> Int]
    BY <2>1, <1>1, <1>2
  <2>3. kind' \in [Files -> Ends \cup {"none", "inode"}]
    BY <1>1, <1>2
  <2>4. QED
    BY <2>2, <2>3
<1>9. ResTyped'
  BY <1>1, <1>7, <1>8 DEF Shaped, ResTyped, procs, memory
<1>10. UNCHANGED <<state, kstack, space, size, ofile>>
  BY <1>1 DEF procs, memory
<1>11. job'[p].pc = "exits" => ofile'[p] = NoFds
  BY <1>2, <1>4, <1>7, <1>10 DEF EntryFits
<1>12. QED
  BY <1>1, <1>4, <1>5, <1>6, <1>7, <1>9, <1>10, <1>11, CallStep

\* Shaped survives: pipeclose().
LEMMA PipeCloseShaped ==
  ASSUME Shaped, NEW p \in Procs, PipeClose(p)
  PROVE  Shaped'
<1> DEFINE k == Todo(p).file
           end == Todo(p).end
           q == IF end = "write" THEN [pipes[k] EXCEPT !.writeopen = FALSE]
                                 ELSE [pipes[k] EXCEPT !.readopen = FALSE]
           gone == ~q.readopen /\ ~q.writeopen
           j == [job[p] EXCEPT !.todo = Tail(@)]
<1>1. /\ state[p] = "live" /\ job[p].todo # <<>> /\ end # "none"
      /\ pipes' = [pipes EXCEPT ![k] = IF gone THEN NoPipe ELSE q]
      /\ kfree(IF gone THEN 1 ELSE 0)
      /\ Wakeup(p, j, k, IF end = "write" THEN "nread" ELSE "nwrite")
      /\ UNCHANGED <<procs, memory, files, calls, panicked>>
  BY DEF PipeClose, Busy
<1>2. /\ job[p] \in Jobs /\ JobFits(job[p]) /\ job[p].todo \in Seq(Items)
      /\ pipes \in [Pipes -> PipeRecords] /\ free \in Nat /\ EntryFits(p)
  BY DEF Shaped, ResTyped, Jobs
<1>3. /\ Tail(job[p].todo) \in Seq(Items) /\ Head(job[p].todo) \in Items
      /\ \A i \in DOMAIN Tail(job[p].todo) :
           i + 1 \in DOMAIN job[p].todo /\ Tail(job[p].todo)[i] = job[p].todo[i + 1]
  <2>1. Head(job[p].todo) \in Items
    BY <1>1, <1>2, HeadTailProperties
  <2>2. QED
    BY <2>1, <1>1, <1>2, RestFits
<1>4. k \in Pipes
  BY <1>3 DEF Todo, Items
<1>5. q \in PipeRecords
  <2>1. pipes[k] \in PipeRecords
    BY <1>2, <1>4
  <2> HIDE DEF k, end
  <2>2. QED
    BY <2>1 DEF PipeRecords
<1>6. pipes' \in [Pipes -> PipeRecords]
  <2> DEFINE n == IF gone THEN NoPipe ELSE q
  <2>1. n \in PipeRecords
    BY <1>5, NewPipeType
  <2>2. pipes' = [pipes EXCEPT ![k] = n]
    BY <1>1
  <2> HIDE DEF n, k
  <2>3. QED
    BY <2>1, <2>2, <1>2
<1>7. free' \in Nat
  BY <1>1, <1>2 DEF kfree
<1>8. /\ j \in Jobs /\ j.pc = job[p].pc /\ j.call = job[p].call /\ j.new = job[p].new
      /\ j.mem = job[p].mem /\ j.made = job[p].made /\ j.todo = Tail(job[p].todo)
  BY <1>2, <1>3 DEF Jobs
<1> HIDE DEF j
<1>9. job[p].pc \in {"user", "exits"} /\ job[p].call # "fork"
  BY <1>1, <1>2 DEF JobFits
<1>10. JobFits(j)
  <2>1. \A i \in DOMAIN j.todo : j.todo[i].end = "none" => j.todo[i].file \in Files
    BY <1>2, <1>3, <1>8 DEF JobFits
  <2>2. QED
    BY <2>1, <1>2, <1>8, <1>9 DEF JobFits
<1>11. /\ job' \in [Procs -> Jobs] /\ job'[p] = j
       /\ \A x \in Procs \ {p} : Alike(job[x], job'[x])
  <2> DEFINE l == IF end = "write" THEN "nread" ELSE "nwrite"
  <2>1. l \in {"nread", "nwrite"} /\ Wakeup(p, j, k, l)
    BY <1>1
  <2> HIDE DEF l, k
  <2>2. QED
    BY <2>1, <1>8, WakeupSteps
<1>12. ResTyped'
  BY <1>1, <1>6, <1>7, <1>11 DEF Shaped, ResTyped, procs, memory, files
<1>13. UNCHANGED <<state, kstack, space, size, ofile>>
  BY <1>1 DEF procs, memory, files
<1>14. job'[p].pc = "exits" => ofile'[p] = NoFds
  BY <1>2, <1>8, <1>11, <1>13 DEF EntryFits
<1>15. QED
  BY <1>1, <1>8, <1>9, <1>10, <1>11, <1>12, <1>13, <1>14, CallStep

\* Shaped survives: read() or write() starts.
LEMMA TransferShaped ==
  ASSUME Shaped, NEW p \in Procs, NEW fd \in Fds, NEW n \in Sizes, Transfer(p, fd, n)
  PROVE  Shaped'
<1> DEFINE f == ofile[p][fd]
           j == [User EXCEPT !.pc = IF kind[f] = "read" THEN "reads" ELSE "writes",
                             !.file = f, !.n = n]
<1>1. /\ Call(p) /\ f # 0 /\ Goto(p, j)
      /\ UNCHANGED <<free, procs, memory, files, pipes, panicked>>
  BY DEF Transfer
<1>2. f \in Files \cup {0} /\ n \in Nat
  BY ResourcesAssumption DEF ResourcesAssumption, Shaped, ResTyped
<1>3. /\ j \in Jobs /\ j.pc \in {"reads", "writes"} /\ j.call = "none" /\ j.new = NoSpace
      /\ j.mem = 0 /\ j.made = <<>> /\ j.todo = <<>>
  <2> HIDE DEF f
  <2>1. QED
    BY <1>2, UserFits DEF User, Jobs
<1> HIDE DEF j
<1>4. JobFits(j)
  BY <1>3 DEF JobFits
<1>5. /\ job' \in [Procs -> Jobs] /\ job'[p] = j
      /\ \A q \in Procs \ {p} : Alike(job[q], job'[q])
  BY <1>1, <1>3, GotoSteps
<1>6. calls' \in Nat /\ state[p] = "live"
  BY <1>1, CallShaped
<1>7. ResTyped'
  BY <1>1, <1>5, <1>6 DEF Shaped, ResTyped, procs, memory, files
<1>8. QED
  BY <1>1, <1>3, <1>4, <1>5, <1>6, <1>7, CallStep DEF procs, memory, files

\* The pipe that a process in piperead() or pipewrite() works on.
PipeOf(p) == pipe[job[p].file]

\* Count() and Room() are counters.
LEMMA CountType ==
  ASSUME NEW q \in PipeRecords
  PROVE  /\ Count(q) \in Counters /\ Room(q) \in Counters
         /\ q.nread \in Int /\ q.nwrite \in Int
         /\ CounterSize \in Nat \ {0} /\ PIPESIZE \in Nat \ {0} /\ PIPESIZE < CounterSize
         /\ Counters \subseteq Nat
<1>1. /\ CounterSize \in Nat \ {0} /\ PIPESIZE \in Nat \ {0} /\ PIPESIZE < CounterSize
      /\ Counters \subseteq Nat
  BY ResourcesAssumption DEF ResourcesAssumption, Counters
<1>2. q.nread \in Int /\ q.nwrite \in Int
  BY <1>1 DEF PipeRecords, Counters
<1>3. /\ q.nwrite + CounterSize - q.nread \in Int
      /\ q.nread + PIPESIZE + CounterSize - q.nwrite \in Int
  BY <1>1, <1>2
<1>4. Count(q) \in Counters /\ Room(q) \in Counters
  BY <1>1, <1>3, Euclid DEF Count, Room, Counters
<1>5. QED
  BY <1>1, <1>2, <1>4

\* Shaped survives: piperead().
LEMMA ReadTryShaped ==
  ASSUME Shaped, NEW p \in Procs, ReadTry(p), PipeOf(p) \in Pipes
  PROVE  Shaped'
<1> DEFINE k == pipe[job[p].file]
           q == pipes[k]
           j == [job[p] EXCEPT !.pc = "nread"]
           m == Min({job[p].n, Count(q)})
           after == [q EXCEPT !.nread = (@ + m) % CounterSize]
<1>1. /\ state[p] = "live" /\ job[p].pc = "reads" /\ job[p].todo = <<>>
      /\ UNCHANGED <<free, procs, memory, files, calls, panicked>>
      /\ \/ Goto(p, User) /\ UNCHANGED pipes
         \/ Goto(p, j) /\ UNCHANGED pipes
         \/ /\ pipes' = [pipes EXCEPT ![k] = after]
            /\ Wakeup(p, User, k, "nwrite")
  BY DEF ReadTry, At, Return
<1>2. /\ job[p] \in Jobs /\ JobFits(job[p]) /\ pipes \in [Pipes -> PipeRecords]
      /\ q \in PipeRecords
  BY DEF Shaped, ResTyped, PipeOf
<1>3. /\ j \in Jobs /\ j.pc = "nread" /\ j.call = job[p].call /\ j.new = job[p].new
      /\ j.mem = job[p].mem /\ j.made = job[p].made /\ j.todo = job[p].todo
  BY <1>2 DEF Jobs
<1>4. job[p].call # "fork"
  BY <1>1, <1>2 DEF JobFits
<1>5. JobFits(j)
  BY <1>1, <1>2, <1>3, <1>4 DEF JobFits
<1> HIDE DEF j
<1>6. User \in Jobs /\ JobFits(User) /\ User.pc = "user" /\ User.call = "none"
  BY UserFits DEF User
<1>7. PICK x \in Jobs : /\ JobFits(x) /\ x.pc \in {"user", "nread"} /\ x.call # "fork"
                        /\ job' \in [Procs -> Jobs] /\ job'[p] = x
                        /\ \A y \in Procs \ {p} : Alike(job[y], job'[y])
  <2>1. CASE Goto(p, User)
    BY <2>1, <1>6, GotoSteps
  <2>2. CASE Goto(p, j)
    BY <2>2, <1>3, <1>4, <1>5, GotoSteps
  <2>3. CASE Wakeup(p, User, k, "nwrite")
    <3> HIDE DEF k
    <3> QED BY <2>3, <1>6, WakeupSteps
  <2>4. QED
    BY <1>1, <2>1, <2>2, <2>3
<1>8. pipes' \in [Pipes -> PipeRecords]
  <2>1. after \in PipeRecords
    <3>1. /\ Count(q) \in Nat /\ q.nread \in Int /\ CounterSize \in Nat \ {0} /\ job[p].n \in Nat
      BY <1>2, CountType DEF Jobs
    <3>2. m \in Int
      BY <3>1, LesserOfTwo
    <3> HIDE DEF m
    <3>3. (q.nread + m) % CounterSize \in Counters
      <4>1. q.nread + m \in Int
        BY <3>1, <3>2
      <4>2. QED
        BY <4>1, <3>1, Euclid DEF Counters
    <3> HIDE DEF k, q
    <3>4. QED
      BY <3>3, <1>2 DEF PipeRecords
  <2> HIDE DEF after, k
  <2>2. QED
    BY <2>1, <1>1, <1>2
<1>9. ResTyped'
  BY <1>1, <1>7, <1>8 DEF Shaped, ResTyped, procs, memory, files
<1>10. UNCHANGED <<state, kstack, space, size, ofile>>
  BY <1>1 DEF procs, memory, files
<1>11. job'[p].pc # "exits"
  BY <1>7
<1>12. QED
  BY <1>1, <1>7, <1>9, <1>10, <1>11, CallStep

\* What pipewrite() changes in a pipe, and what not.
LEMMA PipePutType ==
  ASSUME NEW q \in PipeRecords, NEW m \in Nat
  PROVE  /\ PipePut(q, m) \in PipeRecords
         /\ PipePut(q, m).nwrite = (q.nwrite + m) % CounterSize
         /\ PipePut(q, m).nread = q.nread /\ PipePut(q, m).there = q.there
         /\ PipePut(q, m).readopen = q.readopen /\ PipePut(q, m).writeopen = q.writeopen
<1>1. /\ q.nwrite \in Int /\ CounterSize \in Nat \ {0} /\ q.data \in [0..PIPESIZE - 1 -> Counters]
  BY CountType DEF PipeRecords
<1> DEFINE new(i) == {j \in 0..m - 1 : (q.nwrite + j) % PIPESIZE = i}
           data == [i \in DOMAIN q.data |->
                      IF new(i) = {} THEN q.data[i] ELSE (q.nwrite + Max(new(i))) % CounterSize]
<1>2. data \in [0..PIPESIZE - 1 -> Counters]
  <2>1. ASSUME NEW i \in 0..PIPESIZE - 1, new(i) # {}
        PROVE  (q.nwrite + Max(new(i))) % CounterSize \in Counters
    <3>1. new(i) \in SUBSET (0..m - 1) /\ m - 1 \in Int /\ 0 \in Int
      OBVIOUS
    <3> HIDE DEF new
    <3>2. Max(new(i)) \in 0..m - 1
      BY <2>1, <3>1, Greatest
    <3>3. q.nwrite + Max(new(i)) \in Int
      BY <3>1, <3>2, <1>1
    <3>4. QED
      BY <3>3, <1>1, Euclid DEF Counters
  <2> HIDE DEF new
  <2>2. QED
    BY <1>1, <2>1
<1>3. (q.nwrite + m) % CounterSize \in Counters
  <2>1. q.nwrite + m \in Int
    BY <1>1
  <2>2. QED
    BY <2>1, <1>1, Euclid DEF Counters
<1>4. PipePut(q, m) = [q EXCEPT !.nwrite = (q.nwrite + m) % CounterSize, !.data = data]
  BY DEF PipePut
<1> HIDE DEF data
<1>5. QED
  BY <1>2, <1>3, <1>4 DEF PipeRecords

\* Shaped survives: pipewrite().
LEMMA WriteTryShaped ==
  ASSUME Shaped, NEW p \in Procs, WriteTry(p), PipeOf(p) \in Pipes
  PROVE  Shaped'
<1> DEFINE k == pipe[job[p].file]
           q == pipes[k]
           m == Min({job[p].n, Room(q)})
           left == job[p].n - m
           j == [job[p] EXCEPT !.pc = "nwrite", !.n = left]
<1>1. /\ state[p] = "live" /\ job[p].pc = "writes" /\ job[p].todo = <<>>
      /\ UNCHANGED <<free, procs, memory, files, calls, panicked>>
      /\ pipes' = [pipes EXCEPT ![k] = PipePut(q, m)]
      /\ \/ Wakeup(p, User, k, "nread")
         \/ Wakeup(p, j, k, "nread")
         \/ job' = [x \in Procs |->
              IF x = p THEN User
              ELSE IF m > 0 /\ Sleeps(x, k, "nread")
                   THEN [job[x] EXCEPT !.missed = TRUE] ELSE job[x]]
  BY DEF WriteTry, At
<1>2. /\ job[p] \in Jobs /\ JobFits(job[p]) /\ pipes \in [Pipes -> PipeRecords]
      /\ q \in PipeRecords /\ job \in [Procs -> Jobs] /\ \A x \in Procs : JobFits(job[x])
  BY DEF Shaped, ResTyped, PipeOf
<1>3. m \in Nat /\ left \in Nat
  <2>1. Room(q) \in Nat /\ job[p].n \in Nat
    BY <1>2, CountType DEF Jobs
  <2>2. QED
    BY <2>1, LesserOfTwo
<1> HIDE DEF m, left
<1>4. /\ j \in Jobs /\ j.pc = "nwrite" /\ j.call = job[p].call /\ j.new = job[p].new
      /\ j.mem = job[p].mem /\ j.made = job[p].made /\ j.todo = job[p].todo
  BY <1>2, <1>3 DEF Jobs
<1>5. job[p].call # "fork"
  BY <1>1, <1>2 DEF JobFits
<1>6. JobFits(j)
  BY <1>1, <1>2, <1>4, <1>5 DEF JobFits
<1> HIDE DEF j
<1>7. User \in Jobs /\ JobFits(User) /\ User.pc = "user" /\ User.call = "none"
  BY UserFits DEF User
<1>8. PICK x \in Jobs : /\ JobFits(x) /\ x.pc \in {"user", "nwrite"} /\ x.call # "fork"
                        /\ job' \in [Procs -> Jobs] /\ job'[p] = x
                        /\ \A y \in Procs \ {p} : Alike(job[y], job'[y])
  <2> HIDE DEF k
  <2>1. CASE Wakeup(p, User, k, "nread")
    BY <2>1, <1>7, WakeupSteps
  <2>2. CASE Wakeup(p, j, k, "nread")
    BY <2>2, <1>4, <1>5, <1>6, WakeupSteps
  <2>3. CASE job' = [x \in Procs |->
              IF x = p THEN User
              ELSE IF m > 0 /\ Sleeps(x, k, "nread")
                   THEN [job[x] EXCEPT !.missed = TRUE] ELSE job[x]]
    <3>1. job'[p] = User
      BY <2>3
    <3>2. ASSUME NEW y \in Procs \ {p} PROVE Alike(job[y], job'[y])
      <4>1. \/ job'[y] = job[y]
            \/ job[y].pc = "nread" /\ job'[y] = [job[y] EXCEPT !.missed = TRUE]
        BY <2>3 DEF Sleeps
      <4>2. ASSUME job[y].pc = "nread" PROVE [job[y] EXCEPT !.missed = TRUE] =
              [job[y] EXCEPT !.pc = job[y].pc, !.missed = TRUE]
        BY <1>2 DEF Jobs
      <4>3. QED
        BY <4>1, <4>2 DEF Alike
    <3>3. \A y \in Procs : job'[y] \in Jobs
      BY <3>1, <3>2, <1>2, <1>7, AlikeFits
    <3>4. job' = [y \in Procs |-> job'[y]]
      BY <2>3
    <3>5. QED
      BY <3>1, <3>2, <3>3, <3>4, <1>7
  <2>4. QED
    BY <1>1, <2>1, <2>2, <2>3
<1>9. pipes' \in [Pipes -> PipeRecords]
  <2>1. PipePut(q, m) \in PipeRecords
    BY <1>2, <1>3, PipePutType
  <2> HIDE DEF k, q
  <2>2. QED
    BY <2>1, <1>1, <1>2
<1>10. ResTyped'
  BY <1>1, <1>8, <1>9 DEF Shaped, ResTyped, procs, memory, files
<1>11. UNCHANGED <<state, kstack, space, size, ofile>>
  BY <1>1 DEF procs, memory, files
<1>12. job'[p].pc # "exits"
  BY <1>8
<1>13. QED
  BY <1>1, <1>8, <1>10, <1>11, <1>12, CallStep

\* Shaped survives: kill().
LEMMA KillShaped ==
  ASSUME Shaped, NEW p \in Procs, NEW c \in Procs, Kill(p, c)
  PROVE  Shaped'
<1>1. /\ Call(p) /\ killed' = [killed EXCEPT ![c] = TRUE]
      /\ job' = [job EXCEPT ![c].pc =
                   IF @ = "nread" THEN "reads" ELSE IF @ = "nwrite" THEN "writes" ELSE @]
      /\ UNCHANGED <<free, state, parent, memory, files, pipes, panicked>>
  BY DEF Kill
<1>2. job \in [Procs -> Jobs] /\ \A x \in Procs : JobFits(job[x])
  BY DEF Shaped, ResTyped
<1>3. calls' \in Nat /\ state[p] = "live" /\ job[p].pc = "user"
  BY <1>1, CallShaped
<1>4. ASSUME NEW y \in Procs PROVE Alike(job[y], job'[y])
  <2>1. CASE y = c /\ job[c].pc \in {"nread", "nwrite"}
    <3> DEFINE l == Woken(job[c])
    <3>1. job'[c] = [job[c] EXCEPT !.pc = l]
      BY <1>1, <1>2, <2>1 DEF Woken
    <3>2. [job[c] EXCEPT !.pc = l] = [job[c] EXCEPT !.pc = l, !.missed = job[c].missed]
      BY <1>2 DEF Jobs
    <3>3. job[c].missed \in BOOLEAN
      BY <1>2 DEF Jobs
    <3>4. QED
      BY <3>1, <3>2, <3>3, <2>1 DEF Alike
  <2>2. CASE ~(y = c /\ job[c].pc \in {"nread", "nwrite"})
    <3>1. job'[y] = job[y]
      <4>1. CASE y # c
        BY <4>1, <1>1, <1>2
      <4>2. CASE y = c
        <5>1. job'[c] = [job[c] EXCEPT !.pc = job[c].pc]
          BY <1>1, <1>2, <2>2, <4>2
        <5>2. QED
          BY <5>1, <4>2, <1>2 DEF Jobs
      <4>3. QED
        BY <4>1, <4>2
    <3>2. QED
      BY <3>1 DEF Alike
  <2>3. QED
    BY <2>1, <2>2
<1>5. /\ job' \in [Procs -> Jobs] /\ JobFits(job'[p]) /\ job'[p].pc = "user"
      /\ job'[p].call # "fork"
  <2>1. \A y \in Procs : job'[y] \in Jobs
    BY <1>2, <1>4, AlikeFits
  <2>2. job' = [y \in Procs |-> job'[y]]
    BY <1>1, <1>2
  <2>3. JobFits(job'[p]) /\ job'[p].pc = "user"
    BY <1>2, <1>3, <1>4, AlikeFits
  <2>4. job'[p].call # "fork"
    BY <2>3 DEF JobFits
  <2>5. QED
    BY <2>1, <2>2, <2>3, <2>4
<1>6. killed' \in [Procs -> BOOLEAN]
  BY <1>1 DEF Shaped, ResTyped
<1>7. ResTyped'
  BY <1>1, <1>3, <1>5, <1>6 DEF Shaped, ResTyped, memory, files
<1>8. UNCHANGED <<state, kstack, space, size, ofile>>
  BY <1>1 DEF memory, files
<1>9. QED
  BY <1>3, <1>4, <1>5, <1>7, <1>8, CallStep

OpenFds(p) == {fd \in Fds : ofile[p][fd] # 0}
FilesOf(p) == [i \in 1..Cardinality(OpenFds(p)) |-> ofile[p][Nth(OpenFds(p), i)]]

\* exit() lists each open descriptor once.
LEMMA FilesOfType ==
  ASSUME Shaped, NEW p \in Procs
  PROVE  /\ FilesOf(p) \in Seq(Files) /\ Cardinality(OpenFds(p)) \in Nat
         /\ \A i \in 1..Cardinality(OpenFds(p)) : Nth(OpenFds(p), i) \in OpenFds(p)
         /\ \A i, j \in 1..Cardinality(OpenFds(p)) :
              Nth(OpenFds(p), i) = Nth(OpenFds(p), j) => i = j
         /\ \A x \in OpenFds(p) : \E i \in 1..Cardinality(OpenFds(p)) : x = Nth(OpenFds(p), i)
<1>1. OpenFds(p) \in SUBSET Nat /\ IsFiniteSet(OpenFds(p))
  <2>1. OpenFds(p) \in SUBSET Fds /\ Fds \in SUBSET Nat /\ IsFiniteSet(Fds)
    BY Basics DEF OpenFds
  <2>2. QED
    BY <2>1, FS_Subset
<1>2. /\ Cardinality(OpenFds(p)) \in Nat
      /\ \A i \in 1..Cardinality(OpenFds(p)) : Nth(OpenFds(p), i) \in OpenFds(p)
      /\ \A i, j \in 1..Cardinality(OpenFds(p)) :
           Nth(OpenFds(p), i) = Nth(OpenFds(p), j) => i = j
      /\ \A x \in OpenFds(p) : \E i \in 1..Cardinality(OpenFds(p)) : x = Nth(OpenFds(p), i)
  BY <1>1, NthElement
<1>3. \A fd \in OpenFds(p) : ofile[p][fd] \in Files
  BY DEF OpenFds, Shaped, ResTyped
<1>4. FilesOf(p) \in Seq(Files)
  <2>1. \A i \in 1..Cardinality(OpenFds(p)) : ofile[p][Nth(OpenFds(p), i)] \in Files
    BY <1>2, <1>3
  <2> DEFINE n == Cardinality(OpenFds(p))
             val(i) == ofile[p][Nth(OpenFds(p), i)]
  <2>2. FilesOf(p) = [i \in 1..n |-> val(i)] /\ \A i \in 1..n : val(i) \in Files
    BY <2>1 DEF FilesOf
  <2>3. n \in Nat
    BY <1>2
  <2> HIDE DEF n, val
  <2>4. QED
    BY <2>2, <2>3
<1>5. QED
  BY <1>2, <1>4

\* Shaped survives: exit() starts.
LEMMA ExitShaped ==
  ASSUME Shaped, NEW p \in Procs, Exit(p)
  PROVE  Shaped'
<1> DEFINE j == [User EXCEPT !.pc = "exits", !.todo = Closes(FilesOf(p))]
<1>1. /\ state[p] = "live" /\ Goto(p, j) /\ ofile' = [ofile EXCEPT ![p] = NoFds]
      /\ UNCHANGED <<free, procs, memory, ref, kind, pipe, pipes, calls, panicked>>
  BY DEF Exit, At, FilesOf, OpenFds, NoFds
<1>2. /\ j \in Jobs /\ j.pc = "exits" /\ j.call = "none" /\ j.todo = Closes(FilesOf(p))
      /\ j.new = NoSpace /\ j.mem = 0 /\ j.made = <<>>
  BY FilesOfType, UserFits, ClosesType DEF User, Jobs
<1>3. \A i \in DOMAIN Closes(FilesOf(p)) :
        Closes(FilesOf(p))[i].end = "none" => Closes(FilesOf(p))[i].file \in Files
  BY FilesOfType, ClosesType
<1> HIDE DEF j
<1>4. JobFits(j)
  BY <1>2, <1>3 DEF JobFits
<1>5. /\ job' \in [Procs -> Jobs] /\ job'[p] = j
      /\ \A q \in Procs \ {p} : Alike(job[q], job'[q])
  BY <1>1, <1>2, GotoSteps
<1>6. /\ ofile' \in [Procs -> [Fds -> Files \cup {0}]] /\ ofile'[p] = NoFds
      /\ \A q \in Procs \ {p} : ofile'[q] = ofile[q]
  <2>1. NoFds \in [Fds -> Files \cup {0}] /\ ofile \in [Procs -> [Fds -> Files \cup {0}]]
    BY DEF NoFds, Shaped, ResTyped
  <2> HIDE DEF NoFds
  <2>2. QED
    BY <2>1, <1>1
<1>7. ResTyped'
  BY <1>1, <1>5, <1>6 DEF Shaped, ResTyped, procs, memory
<1>8. UNCHANGED <<state, kstack, space, size>>
  BY <1>1 DEF procs, memory
<1>9. QED
  BY <1>1, <1>2, <1>4, <1>5, <1>6, <1>7, <1>8, CallStep

\* The page table that the first processes start with.
LEMMA SmallType ==
  /\ Small \in Spaces /\ Pages(Small) = KernelTables + 3 /\ Small.pages = {0}
<1>1. {0} \in FiniteParts /\ Cardinality({0}) = 1
  BY FS_Singleton DEF FiniteParts
<1>2. KernelTables \in Nat
  BY ResourcesAssumption DEF ResourcesAssumption
<1>3. QED
  BY <1>1, <1>2 DEF Small, Spaces, Pages

\* Shaped holds when the system starts.
LEMMA InitShaped ==
  ASSUME ResInit
  PROVE  Shaped
<1>1. PICK shared \in BOOLEAN :
        LET live == IF shared THEN {1, 2} ELSE {1}
        IN /\ free = NPages - Cardinality(live) * (1 + Pages(Small)) - (IF shared THEN 1 ELSE 0)
           /\ state = [p \in Procs |-> IF p \in live THEN "live" ELSE "unused"]
           /\ parent = [p \in Procs |-> IF p = 2 /\ shared THEN InitProc ELSE 0]
           /\ killed = [p \in Procs |-> FALSE]
           /\ kstack = [p \in Procs |-> IF p \in live THEN 1 ELSE 0]
           /\ space = [p \in Procs |-> IF p \in live THEN Small ELSE NoSpace]
           /\ size = [p \in Procs |-> IF p \in live THEN 1 ELSE 0]
           /\ ofile = [p \in Procs |-> [fd \in Fds |->
                         IF shared /\ p \in live /\ fd < 2 THEN fd + 1 ELSE 0]]
           /\ ref = [f \in Files |-> IF shared /\ f <= 2 THEN 2 ELSE 0]
           /\ kind = [f \in Files |->
                        IF shared /\ f <= 2 THEN IF f = 1 THEN "read" ELSE "write" ELSE "none"]
           /\ pipe = [f \in Files |-> IF shared /\ f <= 2 THEN 1 ELSE 0]
           /\ pipes = [k \in Pipes |-> IF shared /\ k = 1 THEN NewPipe ELSE NoPipe]
           /\ job = [p \in Procs |-> User]
           /\ calls = MaxCalls
           /\ panicked = FALSE
  BY DEF ResInit
<1> DEFINE live == IF shared THEN {1, 2} ELSE {1}
<1>2. /\ state = [p \in Procs |-> IF p \in live THEN "live" ELSE "unused"]
      /\ kstack = [p \in Procs |-> IF p \in live THEN 1 ELSE 0]
      /\ space = [p \in Procs |-> IF p \in live THEN Small ELSE NoSpace]
      /\ size = [p \in Procs |-> IF p \in live THEN 1 ELSE 0]
      /\ ofile = [p \in Procs |-> [fd \in Fds |->
                    IF shared /\ p \in live /\ fd < 2 THEN fd + 1 ELSE 0]]
      /\ job = [p \in Procs |-> User]
  BY <1>1
<1>3. Cardinality(live) \in Nat /\ Cardinality(live) <= 2
  <2>1. IsFiniteSet({1}) /\ Cardinality({1}) = 1
    BY FS_Singleton
  <2>2. {1, 2} = {1} \cup {2}
    OBVIOUS
  <2>3. Cardinality({1, 2}) = 2
    BY <2>1, <2>2, FS_AddElement
  <2>4. QED
    BY <2>1, <2>3
<1> HIDE DEF live
<1>4. free \in Nat
  <2> DEFINE c == Cardinality(live)
  <2>1. /\ free = NPages - c * (1 + Pages(Small)) - (IF shared THEN 1 ELSE 0)
        /\ c \in 0..2 /\ Pages(Small) = KernelTables + 3 /\ KernelTables \in Nat
        /\ NPages \in Nat /\ NPages > 2 * (KernelTables + 4)
    BY <1>1, <1>3, SmallType, ResourcesAssumption DEF live, ResourcesAssumption
  <2> HIDE DEF c
  <2>2. free = NPages - c * (KernelTables + 4) - (IF shared THEN 1 ELSE 0)
    BY <2>1
  <2>3. c = 0 \/ c = 1 \/ c = 2
    BY <2>1
  <2>4. QED
    BY <2>1, <2>2, <2>3
<1>5. ResTyped
  <2>1. /\ state \in [Procs -> {"unused", "embryo", "live", "zombie"}]
        /\ kstack \in [Procs -> {0, 1}] /\ space \in [Procs -> Spaces]
        /\ job \in [Procs -> Jobs]
    BY <1>2, SmallType, UserFits
  <2>2. size \in [Procs -> 0..MaxSize]
    BY <1>2, ResourcesAssumption DEF ResourcesAssumption
  <2>3. ofile \in [Procs -> [Fds -> Files \cup {0}]]
    <3>1. \A fd \in Fds : fd < 2 => fd + 1 \in Files
      BY Basics
    <3>2. QED
      BY <3>1, <1>2
  <2>4. parent \in [Procs -> Procs \cup {0}] /\ killed \in [Procs -> BOOLEAN]
    BY <1>1, Basics DEF InitProc
  <2>5. ref \in [Files -> Int] /\ kind \in [Files -> Ends \cup {"none", "inode"}]
    BY <1>1 DEF Ends
  <2>6. pipe \in [Files -> Pipes \cup {0}] /\ pipes \in [Pipes -> PipeRecords]
    BY <1>1, Basics, NewPipeType
  <2>7. calls \in Nat /\ panicked \in BOOLEAN
    BY <1>1, ResourcesAssumption DEF ResourcesAssumption
  <2>8. QED
    BY <1>4, <2>1, <2>2, <2>3, <2>4, <2>5, <2>6, <2>7 DEF ResTyped
<1>6. ASSUME NEW p \in Procs PROVE JobFits(job[p]) /\ EntryFits(p) /\ CallFits(p)
  <2>1. job[p] = User /\ User.pc = "user" /\ User.call = "none" /\ JobFits(User)
    BY <1>2, UserFits DEF User
  <2>2. EntryFits(p)
    <3>1. p \notin live => ofile[p] = NoFds
      BY <1>2 DEF NoFds
    <3>2. p \in live => space[p].pages = {0} /\ size[p] = 1
      BY <1>2, SmallType
    <3>3. QED
      BY <1>2, <2>1, <3>1, <3>2 DEF EntryFits
  <2>3. QED
    BY <2>1, <2>2 DEF CallFits
<1>7. QED
  BY <1>5, <1>6 DEF Shaped

-----------------------------------------------------------------------------
(* Counting the uses of a file. *)

Is(x, e) == IF x = e THEN 1 ELSE 0

\* One entry of a table changes.
LEMMA OccursChange ==
  ASSUME NEW s, IsFiniteSet(DOMAIN s), NEW t, DOMAIN t = DOMAIN s, NEW i \in DOMAIN s,
         \A j \in DOMAIN s \ {i} : t[j] = s[j], NEW e
  PROVE  /\ Occurs(s, e) \in Nat /\ Occurs(t, e) \in Nat
         /\ Occurs(t, e) + Is(s[i], e) = Occurs(s, e) + Is(t[i], e)
<1> DEFINE S == {j \in DOMAIN s : s[j] = e}
           T == {j \in DOMAIN t : t[j] = e}
<1>1. IsFiniteSet(S) /\ IsFiniteSet(T)
  BY FS_Subset
<1>2. Cardinality(S \ {i}) = IF i \in S THEN Cardinality(S) - 1 ELSE Cardinality(S)
  BY <1>1, FS_RemoveElement
<1>3. Cardinality(T \ {i}) = IF i \in T THEN Cardinality(T) - 1 ELSE Cardinality(T)
  BY <1>1, FS_RemoveElement
<1>4. /\ S \ {i} = T \ {i}
      /\ Is(s[i], e) = (IF i \in S THEN 1 ELSE 0) /\ Is(t[i], e) = (IF i \in T THEN 1 ELSE 0)
  BY DEF Is
<1>5. Cardinality(S) \in Nat /\ Cardinality(T) \in Nat
  BY <1>1, FS_CardinalityType
<1>6. Occurs(s, e) = Cardinality(S) /\ Occurs(t, e) = Cardinality(T)
  BY DEF Occurs
<1> HIDE DEF S, T
<1>7. QED
  BY <1>2, <1>3, <1>4, <1>5, <1>6

\* Lists of no and of one entry.
LEMMA OccursFew ==
  ASSUME NEW x, NEW e
  PROVE  /\ Occurs(<<>>, e) = 0
         /\ Occurs(<<x>>, e) = Is(x, e)
<1>1. Occurs(<<>>, e) = 0
  <2>1. {i \in DOMAIN <<>> : <<>>[i] = e} = {}
    OBVIOUS
  <2>2. QED
    BY <2>1, FS_EmptySet, Zenon DEF Occurs
<1>2. Occurs(<<x>>, e) = Is(x, e)
  <2>1. {i \in DOMAIN <<x>> : <<x>>[i] = e} = IF x = e THEN {1} ELSE {}
    OBVIOUS
  <2>2. QED
    BY <2>1, FS_EmptySet, FS_Singleton DEF Occurs, Is
<1>3. QED
  BY <1>1, <1>2

\* A list of two entries.
LEMMA OccursPair ==
  ASSUME NEW x, NEW y, NEW e
  PROVE  Occurs(<<x, y>>, e) = Is(x, e) + Is(y, e)
<1>1. {i \in DOMAIN <<x, y>> : <<x, y>>[i] = e} =
        (IF x = e THEN {1} ELSE {}) \cup (IF y = e THEN {2} ELSE {})
  OBVIOUS
<1>2. Cardinality({1} \cup {2}) = 2 /\ {} \cup {2} = {2} /\ {1} \cup {} = {1}
      /\ {} \cup {} = {}
  <2>1. IsFiniteSet({1}) /\ Cardinality({1}) = 1
    BY FS_Singleton
  <2>2. QED
    BY <2>1, FS_AddElement
<1>3. Cardinality({}) = 0 /\ Cardinality({1}) = 1 /\ Cardinality({2}) = 1
  BY FS_EmptySet, FS_Singleton
<1>4. Occurs(<<x, y>>, e) = Cardinality(
        (IF x = e THEN {1} ELSE {}) \cup (IF y = e THEN {2} ELSE {}))
  BY <1>1 DEF Occurs
<1>5. CASE x = e /\ y = e
  BY <1>2, <1>3, <1>4, <1>5 DEF Is
<1>6. CASE x = e /\ y # e
  BY <1>2, <1>3, <1>4, <1>6 DEF Is
<1>7. CASE x # e /\ y = e
  BY <1>2, <1>3, <1>4, <1>7 DEF Is
<1>8. CASE x # e /\ y # e
  BY <1>2, <1>3, <1>4, <1>8 DEF Is
<1>9. QED
  BY <1>5, <1>6, <1>7, <1>8

\* A list loses its head, or has it replaced.
LEMMA OccursRest ==
  ASSUME NEW s \in Seq(Items), s # <<>>, NEW e, NEW x \in Items
  PROVE  /\ Occurs(Tail(s), e) + Is(Head(s), e) = Occurs(s, e)
         /\ Occurs(<<x>> \o Tail(s), e) + Is(Head(s), e) = Occurs(s, e) + Is(x, e)
<1>1. IsFiniteSet(DOMAIN s) /\ IsFiniteSet(DOMAIN Tail(s))
  <2>1. /\ Tail(s) \in Seq(Items) /\ Len(Tail(s)) \in Int /\ Len(s) \in Int /\ 1 \in Int
        /\ DOMAIN s = 1..Len(s) /\ DOMAIN Tail(s) = 1..Len(Tail(s))
    BY HeadTailProperties, LenProperties
  <2>2. QED
    BY <2>1, FS_Interval
<1>2. /\ DOMAIN (<<x>> \o Tail(s)) = DOMAIN s /\ (<<x>> \o Tail(s))[1] = x /\ 1 \in DOMAIN s
      /\ Head(s) = s[1] /\ \A i \in DOMAIN s \ {1} : (<<x>> \o Tail(s))[i] = s[i]
  BY RestFits
<1>3. Occurs(<<x>> \o Tail(s), e) + Is(Head(s), e) = Occurs(s, e) + Is(x, e)
  <2> DEFINE t == <<x>> \o Tail(s)
             i == 1
  <2>1. /\ DOMAIN t = DOMAIN s /\ t[i] = x /\ i \in DOMAIN s /\ Head(s) = s[i]
        /\ \A j \in DOMAIN s \ {i} : t[j] = s[j]
    BY <1>2
  <2> HIDE DEF t, i
  <2>2. Occurs(t, e) + Is(s[i], e) = Occurs(s, e) + Is(t[i], e)
    BY <1>1, <2>1, OccursChange
  <2>3. Occurs(t, e) + Is(Head(s), e) = Occurs(s, e) + Is(x, e)
    BY <2>1, <2>2
  <2>4. QED
    BY <2>3 DEF t
<1>4. Occurs(Tail(s), e) + Is(Head(s), e) = Occurs(s, e)
  <2> DEFINE S == {i \in DOMAIN s : s[i] = e}
             T == {i \in DOMAIN Tail(s) : Tail(s)[i] = e}
             b == [i \in T |-> i + 1]
  <2>1. /\ DOMAIN s = 1..Len(s) /\ DOMAIN Tail(s) = 1..Len(s) - 1 /\ Len(s) \in Nat
        /\ \A i \in DOMAIN Tail(s) : i + 1 \in DOMAIN s /\ Tail(s)[i] = s[i + 1]
    BY HeadTailProperties, LenProperties, RestFits
  <2>2. b \in [T -> S \ {1}] /\ \A i, j \in T : b[i] = b[j] => i = j
    BY <2>1
  <2>3. ASSUME NEW j \in S \ {1} PROVE \E i \in T : b[i] = j
    <3>1. j - 1 \in DOMAIN Tail(s) /\ (j - 1) + 1 = j
      BY <2>1
    <3>2. Tail(s)[j - 1] = s[(j - 1) + 1]
      BY <3>1, <2>1
    <3>3. j - 1 \in T
      BY <3>1, <3>2
    <3>4. b[j - 1] = j
      BY <3>1, <3>3
    <3>5. QED
      BY <3>3, <3>4
  <2>4. IsFiniteSet(S) /\ IsFiniteSet(T)
    BY <1>1, FS_Subset
  <2>5. Cardinality(T) = Cardinality(S \ {1})
    <3> HIDE DEF S, T, b
    <3>1. b \in Bijection(T, S \ {1})
      BY <2>2, <2>3, Fun_IsBij
    <3>2. ExistsBijection(T, S \ {1})
      BY <3>1 DEF ExistsBijection
    <3>3. QED
      BY <3>2, <2>4, FS_Bijection
  <2>6. Cardinality(S \ {1}) = IF 1 \in S THEN Cardinality(S) - 1 ELSE Cardinality(S)
    BY <2>4, FS_RemoveElement
  <2>7. Is(Head(s), e) = IF 1 \in S THEN 1 ELSE 0
    BY <1>2 DEF Is
  <2>8. Occurs(s, e) = Cardinality(S) /\ Occurs(Tail(s), e) = Cardinality(T)
    BY DEF Occurs
  <2>9. Cardinality(S) \in Nat
    BY <2>4, FS_CardinalityType
  <2> HIDE DEF S, T
  <2>10. QED
    BY <2>5, <2>6, <2>7, <2>8, <2>9
<1>5. QED
  BY <1>3, <1>4

\* A list of closes has the files of the list it is made of.
LEMMA OccursCloses ==
  ASSUME NEW fs \in Seq(Files), NEW f
  PROVE  Occurs(Closes(fs), CloseOf(f)) = Occurs(fs, f)
<1>1. {i \in DOMAIN Closes(fs) : Closes(fs)[i] = CloseOf(f)} = {i \in DOMAIN fs : fs[i] = f}
  <2>1. \A i \in DOMAIN fs : CloseOf(fs[i]) = CloseOf(f) <=> fs[i] = f
    BY DEF CloseOf
  <2>2. QED
    BY <2>1, ClosesType
<1>2. QED
  BY <1>1 DEF Occurs

\* exit() gives up every use of a file through a descriptor.
LEMMA OccursFilesOf ==
  ASSUME Shaped, NEW p \in Procs, NEW f \in Files
  PROVE  Occurs(FilesOf(p), f) = Occurs(ofile[p], f) /\ Occurs(NoFds, f) = 0
<1> DEFINE n == Cardinality(OpenFds(p))
           nth(i) == Nth(OpenFds(p), i)
           b == [i \in 1..n |-> nth(i)]
<1>1. /\ n \in Nat /\ (\A i \in 1..n : nth(i) \in OpenFds(p))
      /\ (\A i, j \in 1..n : nth(i) = nth(j) => i = j)
      /\ \A x \in OpenFds(p) : \E i \in 1..n : x = nth(i)
  BY FilesOfType
<1>2. /\ DOMAIN FilesOf(p) = 1..n /\ \A i \in 1..n : FilesOf(p)[i] = ofile[p][nth(i)]
  BY DEF FilesOf
<1>3. DOMAIN ofile[p] = Fds /\ f # 0
  BY Basics DEF Shaped, ResTyped
<1>4. /\ b \in [1..n -> Fds] /\ (\A i, j \in 1..n : b[i] = b[j] => i = j)
      /\ \A i \in 1..n : FilesOf(p)[i] = f <=> ofile[p][b[i]] = f
  <2> HIDE DEF n, nth
  <2>1. \A i \in 1..n : nth(i) \in Fds
    BY <1>1 DEF OpenFds
  <2>2. QED
    BY <2>1, <1>1, <1>2
<1>5. \A j \in Fds : ofile[p][j] = f => \E i \in 1..n : b[i] = j
  <2> HIDE DEF n, nth
  <2>1. ASSUME NEW j \in Fds, ofile[p][j] = f PROVE \E i \in 1..n : b[i] = j
    <3>1. j \in OpenFds(p)
      BY <2>1, <1>3 DEF OpenFds
    <3>2. PICK i \in 1..n : j = nth(i)
      BY <3>1, <1>1
    <3>3. QED
      BY <3>2
  <2>2. QED
    BY <2>1
<1>6. IsFiniteSet(1..n)
  <2>1. n \in Int /\ 1 \in Int
    BY <1>1
  <2> HIDE DEF n
  <2>2. QED
    BY <2>1, FS_Interval
<1>7. Occurs(ofile[p], f) = Occurs(FilesOf(p), f)
  <2> DEFINE S == {i \in 1..n : FilesOf(p)[i] = f}
             T == {j \in Fds : ofile[p][j] = f}
             c == [i \in S |-> b[i]]
  <2>1. IsFiniteSet(S)
    BY <1>6, FS_Subset
  <2>2. /\ c \in [S -> T] /\ (\A i, j \in S : c[i] = c[j] => i = j)
        /\ \A j \in T : \E i \in S : c[i] = j
    <3> HIDE DEF b, n, nth
    <3> QED BY <1>4, <1>5
  <2>3. Cardinality(S) = Cardinality(T)
    <3> HIDE DEF S, T, c
    <3>1. c \in Bijection(S, T)
      BY <2>2, Fun_IsBij
    <3>2. ExistsBijection(S, T)
      BY <3>1 DEF ExistsBijection
    <3>3. QED
      BY <2>1, <3>2, FS_Bijection
  <2>4. Occurs(ofile[p], f) = Cardinality(T) /\ Occurs(FilesOf(p), f) = Cardinality(S)
    BY <1>2, <1>3 DEF Occurs
  <2>5. QED
    BY <2>3, <2>4
<1>8. Occurs(NoFds, f) = 0
  <2>1. DOMAIN NoFds = Fds /\ \A i \in Fds : NoFds[i] # f
    BY <1>3 DEF NoFds
  <2>2. QED
    BY <2>1, Basics, OccursType
<1>9. QED
  BY <1>7, <1>8

-----------------------------------------------------------------------------
(* Files: counts, kinds and ends. *)

Held(t, j, f) == Occurs(t, f) + Occurs(j.todo, CloseOf(f)) + Occurs(j.made, f)

\* A list has finitely many entries.
LEMMA SeqFinite ==
  ASSUME NEW S, NEW s \in Seq(S)
  PROVE  IsFiniteSet(DOMAIN s)
<1>1. Len(s) \in Int /\ 1 \in Int /\ DOMAIN s = 1..Len(s)
  BY LenProperties
<1>2. QED
  BY <1>1, FS_Interval

\* What a process holds of a file is a number.
LEMMA HeldType ==
  ASSUME NEW t \in [Fds -> Files \cup {0}], NEW j \in Jobs, NEW f
  PROVE  /\ Occurs(t, f) \in Nat /\ Occurs(j.todo, CloseOf(f)) \in Nat /\ Occurs(j.made, f) \in Nat
         /\ Held(t, j, f) \in Nat
<1>1. Occurs(t, f) \in Nat
  <2>1. DOMAIN t = Fds
    OBVIOUS
  <2>2. QED
    BY <2>1, Basics, OccursType
<1>2. Occurs(j.todo, CloseOf(f)) \in Nat /\ Occurs(j.made, f) \in Nat
  <2>1. j.todo \in Seq(Items) /\ j.made \in Seq(Files)
    BY DEF Jobs
  <2>2. QED
    BY <2>1, SeqFinite, OccursType
<1>3. QED
  BY <1>1, <1>2 DEF Held

\* What a process uses is part of the count, and so is what any two processes use.
LEMMA UsesCounted ==
  ASSUME Shaped, CountsExact, NEW f \in Files
  PROVE  /\ ref[f] \in Nat
         /\ \A p \in Procs : Uses(p, f) = Held(ofile[p], job[p], f) /\ Uses(p, f) \in Nat
                             /\ Uses(p, f) <= ref[f]
         /\ \A p, q \in Procs : p # q => Uses(p, f) + Uses(q, f) <= ref[f]
<1> DEFINE u == [p \in Procs |-> Uses(p, f)]
<1>1. \A p \in Procs : Uses(p, f) = Held(ofile[p], job[p], f) /\ Uses(p, f) \in Nat
  BY HeldType DEF Uses, Held, Shaped, ResTyped
<1>2. /\ u \in [Procs -> Nat] /\ (\A p \in Procs : u[p] = Uses(p, f))
      /\ ref[f] = SumFunctionOnSet(u, Procs)
  BY <1>1 DEF CountsExact
<1> HIDE DEF u
<1>3. ref[f] \in Nat
  <2>1. \A p \in Procs : u[p] \in Int /\ u[p] >= 0
    BY <1>2
  <2>2. SumFunctionOnSet(u, Procs) \in Int /\ SumFunctionOnSet(u, Procs) >= 0
    BY <2>1, Basics, SumType
  <2>3. QED
    BY <2>2, <1>2
<1>4. ASSUME NEW p \in Procs, NEW q \in Procs
      PROVE  u[p] <= ref[f] /\ (p # q => u[p] + u[q] <= ref[f])
  <2>1. IsFiniteSet(Procs) /\ u \in [Procs -> Nat]
    BY <1>2, Basics
  <2>2. /\ u[p] <= SumFunctionOnSet(u, Procs)
        /\ p # q => u[p] + u[q] <= SumFunctionOnSet(u, Procs)
    BY <2>1, SumLower
  <2>3. QED
    BY <2>2, <1>2
<1>5. QED
  BY <1>1, <1>2, <1>3, <1>4

\* A step changes the count of a file and what one process uses of it alike.
LEMMA CountStep ==
  ASSUME Shaped, CountsExact, ResTyped', NEW p \in Procs,
         \A q \in Procs \ {p} :
           ofile'[q] = ofile[q] /\ job'[q].todo = job[q].todo /\ job'[q].made = job[q].made,
         \A f \in Files : ref'[f] + Held(ofile[p], job[p], f) = ref[f] + Held(ofile'[p], job'[p], f)
  PROVE  CountsExact'
<1> SUFFICES ASSUME NEW f \in Files
             PROVE  ref'[f] = SumFunctionOnSet([q \in Procs |-> Uses(q, f)'], Procs)
  BY DEF CountsExact
<1> DEFINE u == [q \in Procs |-> Uses(q, f)]
           v == [q \in Procs |-> Uses(q, f)']
<1>1. \A q \in Procs : /\ v[q] = Held(ofile'[q], job'[q], f)
                       /\ v[q] \in Nat
  BY HeldType DEF Uses, Held, ResTyped
<1>2. \A q \in Procs : u[q] = Held(ofile[q], job[q], f) /\ u[q] \in Nat
  BY HeldType DEF Uses, Held, Shaped, ResTyped
<1>3. \A q \in Procs \ {p} : v[q] = u[q]
  BY DEF Uses
<1>4. ref[f] = SumFunctionOnSet(u, Procs) /\ ref[f] \in Int /\ ref'[f] \in Int
  BY DEF CountsExact, Shaped, ResTyped
<1> HIDE DEF u, v
<1>5. SumFunctionOnSet(v, Procs) = SumFunctionOnSet(u, Procs) + (v[p] - u[p])
  <2>1. \A q \in Procs : u[q] \in Int /\ v[q] \in Int
    BY <1>1, <1>2
  <2>2. QED
    BY <2>1, <1>3, Basics, SumUpdate
<1>6. ref'[f] + u[p] = ref[f] + v[p] /\ u[p] \in Int /\ v[p] \in Int
  BY <1>1, <1>2
<1>7. ref'[f] = SumFunctionOnSet(v, Procs)
  <2>1. PICK r \in Int : r = ref'[f]
    BY <1>4
  <2>2. QED
    BY <2>1, <1>4, <1>5, <1>6
<1>8. QED
  BY <1>7 DEF v

\* A step that opens and closes no end of a pipe.
LEMMA EndsKept ==
  ASSUME EndsExact,
         \A k \in Pipes : /\ pipes'[k].there = pipes[k].there
                          /\ pipes'[k].readopen = pipes[k].readopen
                          /\ pipes'[k].writeopen = pipes[k].writeopen,
         \A k \in Pipes, end \in Ends :
           /\ \A f \in Files : EndOf(f, k, end)' <=> EndOf(f, k, end)
           /\ \A p \in Procs : Closing(p, k, end)' <=> Closing(p, k, end),
         \A p \in Procs : \A i \in DOMAIN job'[p].todo \ {1} : job'[p].todo[i].end = "none"
  PROVE  EndsExact'
<1>1. \A k \in Pipes, end \in Ends : IsOpen(k, end)' <=> IsOpen(k, end)
  BY DEF IsOpen
<1>2. QED
  BY <1>1 DEF EndsExact, EndFits

\* A step that leaves the files alone.
LEMMA QuietStep ==
  ASSUME Shaped, FilesInv, ResTyped', UNCHANGED files,
         \A k \in Pipes : /\ pipes'[k].there = pipes[k].there
                          /\ pipes'[k].readopen = pipes[k].readopen
                          /\ pipes'[k].writeopen = pipes[k].writeopen,
         \A p \in Procs :
           /\ job'[p].todo = job[p].todo /\ job'[p].made = job[p].made
           /\ Fresh(job'[p]) => Fresh(job[p])
           /\ Reading(job'[p]) => HoldsEnd(p, job'[p].file, "read")
           /\ Writing(job'[p]) => HoldsEnd(p, job'[p].file, "write")
  PROVE  FilesInv'
<1>1. UNCHANGED <<ofile, ref, kind, pipe>>
  BY DEF files
<1>2. CountsExact'
  <2>1. 1 \in Procs
    BY Basics
  <2> DEFINE p == 1
  <2>2. /\ p \in Procs
        /\ \A f \in Files :
             ref'[f] + Held(ofile[p], job[p], f) = ref[f] + Held(ofile'[p], job'[p], f)
    BY <1>1, <2>1 DEF Held
  <2> HIDE DEF p
  <2>3. QED
    BY <1>1, <2>2, CountStep DEF FilesInv
<1>3. KindsExact'
  BY <1>1 DEF KindsExact, FilesInv
<1>4. EndsExact'
  <2>1. \A k \in Pipes, end \in Ends :
          /\ \A f \in Files : EndOf(f, k, end)' <=> EndOf(f, k, end)
          /\ \A p \in Procs : Closing(p, k, end)' <=> Closing(p, k, end)
    BY <1>1 DEF EndOf, Closing
  <2>2. \A p \in Procs : \A i \in DOMAIN job'[p].todo \ {1} : job'[p].todo[i].end = "none"
    BY DEF FilesInv, EndsExact
  <2>3. QED
    BY <2>1, <2>2, EndsKept DEF FilesInv
<1>5. FreshFiles'
  BY <1>1 DEF FreshFiles, FilesInv
<1>6. UsersHold'
  BY <1>1 DEF UsersHold, HoldsEnd
<1>7. QED
  BY <1>2, <1>3, <1>4, <1>5, <1>6 DEF FilesInv

\* The state of a call that has to do with memory only.
Calm(j) == j.todo = <<>> /\ j.made = <<>> /\ ~Fresh(j) /\ ~Reading(j) /\ ~Writing(j)

\* A process at a place where it holds no file of its own is calm.
LEMMA CalmAt ==
  ASSUME Shaped, NEW p \in Procs, NEW l, At(p, l),
         l \notin {"second", "buffer", "installs", "reads", "nread", "writes", "nwrite"}
  PROVE  Calm(job[p]) /\ job[p] \in Jobs /\ job[p].pc = l
<1>1. job[p] \in Jobs /\ JobFits(job[p]) /\ job[p].pc = l /\ job[p].todo = <<>>
  BY DEF At, Shaped, ResTyped
<1>2. Len(job[p].made) = 0 /\ job[p].call # "open" /\ job[p].made \in Seq(Files)
  BY <1>1 DEF JobFits, Jobs
<1>3. job[p].made = <<>>
  BY <1>2, EmptySeq
<1>4. QED
  BY <1>1, <1>2, <1>3 DEF Calm, Fresh, Reading, Writing

\* A calm process goes to another calm place.
LEMMA QuietGoto ==
  ASSUME Shaped, FilesInv, ResTyped', UNCHANGED <<files, pipes>>, NEW p \in Procs, NEW j \in Jobs,
         Goto(p, j), Calm(job[p]), Calm(j)
  PROVE  FilesInv'
<1>1. job'[p] = j /\ \A q \in Procs \ {p} : job'[q] = job[q]
  BY GotoSteps
<1>2. QED
  BY <1>1, QuietStep DEF FilesInv, UsersHold, HoldsEnd, Calm, files

\* A step that touches neither files nor calls.
LEMMA QuietSame ==
  ASSUME Shaped, FilesInv, ResTyped', UNCHANGED <<files, pipes, job>>
  PROVE  FilesInv'
  BY QuietStep DEF FilesInv, UsersHold, HoldsEnd, files

\* A call that has no memory left changes no file.
LEMMA GiveUpFiles ==
  ASSUME Shaped, FilesInv, ResTyped', UNCHANGED <<files, pipes>>, NEW p \in Procs, GiveUp(p),
         Calm(job[p])
  PROVE  FilesInv'
<1>1. Calm(User) /\ User \in Jobs
  BY UserFits DEF Calm, User, Fresh, Reading, Writing
<1>2. Goto(p, User)
  BY DEF GiveUp, Return
<1>3. QED
  BY <1>1, <1>2, QuietGoto

\* The calls for memory change no file.
LEMMA MemoryFiles ==
  ASSUME Shaped, FilesInv, Shaped', NEW p \in Procs, NEW c \in Procs, NEW n \in 0..MaxSize,
         \/ Fork(p, c) \/ Exec(p, n) \/ Grow(p, n) \/ Shrink(p, n) \/ Stack(p) \/ SetupKvm(p)
         \/ NextPage(p) \/ MapPage(p) \/ ExecDone(p) \/ GrowDone(p) \/ Grep(p) \/ GrepDone(p)
         \/ Zombie(p) \/ Wait(p, c)
  PROVE  FilesInv'
<1>1. ResTyped' /\ \A q \in Procs : job'[q] \in Jobs
  BY DEF Shaped, ResTyped
<1>2. Calm(User) /\ User \in Jobs
  BY UserFits DEF Calm, User, Fresh, Reading, Writing
<1>3. CASE Fork(p, c) \/ Exec(p, n) \/ Grow(p, n) \/ Grep(p)
  <2>1. PICK j : Call(p) /\ UNCHANGED <<files, pipes>> /\ Goto(p, j) /\ Calm(j)
    <3>1. CASE Fork(p, c)
      <4> DEFINE j == [User EXCEPT !.call = "fork", !.pc = "stack", !.child = c, !.goal = size[p]]
      <4>1. Calm(j)
        BY DEF Calm, User, Fresh, Reading, Writing
      <4>2. QED
        BY <3>1, <4>1 DEF Fork
    <3>2. CASE Exec(p, n)
      <4> DEFINE j == [User EXCEPT !.call = "exec", !.pc = "table", !.goal = n]
      <4>1. Calm(j)
        BY DEF Calm, User, Fresh, Reading, Writing
      <4>2. QED
        BY <3>2, <4>1 DEF Exec
    <3>3. CASE Grow(p, n)
      <4> DEFINE j == [User EXCEPT !.call = "sbrk", !.pc = "page", !.goal = n]
      <4>1. Calm(j)
        BY DEF Calm, User, Fresh, Reading, Writing
      <4>2. QED
        BY <3>3, <4>1 DEF Grow
    <3>4. CASE Grep(p)
      <4> DEFINE j == [User EXCEPT !.call = "grep", !.pc = "searches", !.mem = 1]
      <4>1. Calm(j)
        BY DEF Calm, User, Fresh, Reading, Writing
      <4>2. QED
        BY <3>4, <4>1 DEF Grep
    <3>5. QED
      BY <1>3, <3>1, <3>2, <3>3, <3>4
  <2>2. Calm(job[p])
    BY <2>1, CalmAt DEF Call
  <2>3. j \in Jobs
    <3>1. job'[p] = j
      BY <2>1 DEF Goto, Shaped, ResTyped
    <3>2. QED
      BY <3>1, <1>1
  <2>4. QED
    BY <1>1, <2>1, <2>2, <2>3, QuietGoto
<1>4. CASE Shrink(p, n) \/ Wait(p, c)
  BY <1>1, <1>4, QuietSame DEF Shrink, Wait
<1>5. CASE Stack(p)
  <2>1. Calm(job[p]) /\ UNCHANGED <<files, pipes>> /\ job[p] \in Jobs
    BY <1>5, CalmAt DEF Stack
  <2> DEFINE j == [job[p] EXCEPT !.pc = "table"]
  <2>2. j \in Jobs /\ Calm(j)
    BY <2>1 DEF Jobs, Calm, Fresh, Reading, Writing
  <2>3. GiveUp(p) \/ Goto(p, j)
    BY <1>5 DEF Stack
  <2>4. QED
    BY <1>1, <2>1, <2>2, <2>3, GiveUpFiles, QuietGoto
<1>6. CASE SetupKvm(p)
  <2>1. Calm(job[p]) /\ UNCHANGED <<files, pipes>> /\ job[p] \in Jobs
    BY <1>6, CalmAt DEF SetupKvm
  <2>2. GiveUp(p) \/ \E t : \E l \in {"table", "page"} :
                       Goto(p, [job[p] EXCEPT !.new = t, !.pc = l])
    <3> DEFINE s == job[p].new
               t == IF s.dir = 0 THEN [s EXCEPT !.dir = 1] ELSE [s EXCEPT !.ktabs = @ + 1]
               l == IF t.ktabs = KernelTables THEN "page" ELSE job[p].pc
    <3>1. job[p].pc = "table"
      BY <1>6 DEF SetupKvm, At
    <3>2. l \in {"table", "page"}
      BY <3>1
    <3>3. GiveUp(p) \/ Goto(p, [job[p] EXCEPT !.new = t, !.pc = l])
      BY <1>6 DEF SetupKvm
    <3> HIDE DEF t, l
    <3>4. QED
      BY <3>2, <3>3
  <2>3. ASSUME NEW t, NEW l \in {"table", "page"}, Goto(p, [job[p] EXCEPT !.new = t, !.pc = l])
        PROVE  FilesInv'
    <3> DEFINE j == [job[p] EXCEPT !.new = t, !.pc = l]
    <3>a. j.todo = job[p].todo /\ j.made = job[p].made /\ j.call = job[p].call /\ j.pc = l
      BY <2>1 DEF Jobs
    <3>1. Calm(j)
      <4> HIDE DEF j
      <4>1. QED
        BY <2>1, <3>a DEF Calm, Fresh, Reading, Writing
    <3>2. job'[p] = j
      BY <2>3 DEF Goto, Shaped, ResTyped
    <3> HIDE DEF j
    <3>3. Goto(p, j)
      BY <2>3 DEF j
    <3>4. QED
      BY <1>1, <2>1, <3>1, <3>2, <3>3, QuietGoto
  <2>4. QED
    BY <1>1, <2>1, <2>2, <2>3, GiveUpFiles
<1>7. CASE NextPage(p)
  <2>1. Calm(job[p]) /\ UNCHANGED <<files, pipes>> /\ job[p] \in Jobs
    BY <1>7, CalmAt DEF NextPage
  <2> DEFINE j == [job[p] EXCEPT !.pc = "map", !.mem = 1]
  <2>2. j \in Jobs /\ Calm(j)
    <3>1. j \in Jobs
      BY <2>1 DEF Jobs
    <3>2. /\ j.todo = job[p].todo /\ j.made = job[p].made /\ j.call = job[p].call
          /\ j.pc = "map"
      BY <2>1 DEF Jobs
    <3> HIDE DEF j
    <3>3. QED
      BY <2>1, <3>1, <3>2 DEF Calm, Fresh, Reading, Writing
  <2>3. GiveUp(p) \/ Goto(p, j) \/ UNCHANGED job
    BY <1>7 DEF NextPage
  <2>a. UNCHANGED <<files, pipes>> /\ Calm(job[p])
    BY <2>1
  <2> HIDE DEF j
  <2>4. CASE GiveUp(p)
    BY <1>1, <2>a, <2>4, GiveUpFiles
  <2>5. CASE Goto(p, j)
    BY <1>1, <2>a, <2>2, <2>5, QuietGoto
  <2>6. CASE UNCHANGED job
    BY <1>1, <2>a, <2>6, QuietSame
  <2>7. QED
    BY <2>3, <2>4, <2>5, <2>6
<1>8. CASE MapPage(p)
  <2>1. Calm(job[p]) /\ UNCHANGED <<files, pipes>> /\ job[p] \in Jobs
    BY <1>8, CalmAt DEF MapPage
  <2>2. GiveUp(p) \/ \E t : Build(p, t, [job[p] EXCEPT !.pc = "page", !.mem = 0])
    BY <1>8 DEF MapPage
  <2> DEFINE i == [job[p] EXCEPT !.pc = "page", !.mem = 0]
  <2>3. i \in Jobs /\ Calm(i)
    <3>1. i \in Jobs
      BY <2>1 DEF Jobs
    <3>2. /\ i.todo = job[p].todo /\ i.made = job[p].made /\ i.call = job[p].call
          /\ i.pc = "page"
      BY <2>1 DEF Jobs
    <3> HIDE DEF i
    <3>3. QED
      BY <2>1, <3>1, <3>2 DEF Calm, Fresh, Reading, Writing
  <2>4. ASSUME NEW t, Build(p, t, i)
        PROVE  FilesInv'
    <3> HIDE DEF i
    <3> DEFINE j == [i EXCEPT !.new = t]
    <3>1. Calm(j)
      BY <2>3 DEF Jobs, Calm, Fresh, Reading, Writing
    <3>2. Goto(p, i) \/ Goto(p, j)
      BY <2>4 DEF Build
    <3> HIDE DEF j
    <3>3. CASE Goto(p, i)
      BY <3>3, <1>1, <2>1, <2>3, QuietGoto
    <3>4. CASE Goto(p, j)
      <4>1. job'[p] = j
        BY <3>4 DEF Goto, Shaped, ResTyped
      <4>2. QED
        BY <3>4, <4>1, <1>1, <2>1, <3>1, QuietGoto
    <3>5. QED
      BY <3>2, <3>3, <3>4
  <2>5. QED
    BY <1>1, <2>1, <2>2, <2>4, GiveUpFiles
<1>9. CASE ExecDone(p) \/ GrowDone(p) \/ GrepDone(p) \/ Zombie(p)
  <2>1. Calm(job[p]) /\ UNCHANGED <<files, pipes>>
    BY <1>9, CalmAt DEF ExecDone, GrowDone, GrepDone, Zombie
  <2>2. GiveUp(p) \/ Goto(p, User)
    BY <1>9 DEF ExecDone, GrowDone, GrepDone, Zombie, Return
  <2>3. QED
    BY <1>1, <1>2, <2>1, <2>2, GiveUpFiles, QuietGoto
<1>10. QED
  BY <1>3, <1>4, <1>5, <1>6, <1>7, <1>8, <1>9

\* A step of p in a pipe's critical section may wake the others.
LEMMA QuietAlike ==
  ASSUME Shaped, FilesInv, ResTyped', UNCHANGED files, NEW p \in Procs,
         \A k \in Pipes : /\ pipes'[k].there = pipes[k].there
                          /\ pipes'[k].readopen = pipes[k].readopen
                          /\ pipes'[k].writeopen = pipes[k].writeopen,
         \A q \in Procs \ {p} : Alike(job[q], job'[q]),
         job'[p].todo = job[p].todo, job'[p].made = job[p].made, ~Fresh(job'[p]),
         Reading(job'[p]) => HoldsEnd(p, job'[p].file, "read"),
         Writing(job'[p]) => HoldsEnd(p, job'[p].file, "write")
  PROVE  FilesInv'
<1>1. ASSUME NEW q \in Procs \ {p}
      PROVE  /\ job'[q].todo = job[q].todo /\ job'[q].made = job[q].made
             /\ Fresh(job'[q]) => Fresh(job[q])
             /\ Reading(job'[q]) => HoldsEnd(q, job'[q].file, "read")
             /\ Writing(job'[q]) => HoldsEnd(q, job'[q].file, "write")
  <2>1. job[q] \in Jobs /\ JobFits(job[q]) /\ Alike(job[q], job'[q])
    BY DEF Shaped, ResTyped
  <2>2. /\ Reading(job[q]) => HoldsEnd(q, job[q].file, "read")
        /\ Writing(job[q]) => HoldsEnd(q, job[q].file, "write")
    BY DEF FilesInv, UsersHold
  <2>3. QED
    BY <2>1, <2>2, AlikeFits
<1>2. \A q \in Procs :
           /\ job'[q].todo = job[q].todo /\ job'[q].made = job[q].made
           /\ Fresh(job'[q]) => Fresh(job[q])
           /\ Reading(job'[q]) => HoldsEnd(q, job'[q].file, "read")
           /\ Writing(job'[q]) => HoldsEnd(q, job'[q].file, "write")
  BY <1>1
<1>3. QED
  BY <1>2, QuietStep

\* A process in piperead() or pipewrite() has a descriptor for its end of the pipe.
LEMMA PipeHeld ==
  ASSUME Shaped, FilesInv, NEW p \in Procs, Reading(job[p]) \/ Writing(job[p])
  PROVE  /\ PipeOf(p) \in Pipes /\ job[p].made = <<>> /\ job[p].todo = <<>> /\ job[p].call # "open"
         /\ HoldsEnd(p, job[p].file, IF Reading(job[p]) THEN "read" ELSE "write")
<1>1. HoldsEnd(p, job[p].file, IF Reading(job[p]) THEN "read" ELSE "write")
  BY DEF FilesInv, UsersHold
<1>2. PipeOf(p) \in Pipes
  BY <1>1 DEF HoldsEnd, PipeOf, FilesInv, KindsExact, Ends
<1>3. JobFits(job[p]) /\ job[p].made \in Seq(Files)
  BY DEF Shaped, ResTyped, Jobs
<1>4. job[p].todo = <<>> /\ job[p].call # "open" /\ Len(job[p].made) = 0
  BY <1>3 DEF JobFits, Reading, Writing
<1>5. QED
  BY <1>1, <1>2, <1>3, <1>4, EmptySeq

\* The counts, kinds and ends survive: read() or write() starts.
LEMMA TransferFiles ==
  ASSUME Shaped, FilesInv, Shaped', NEW p \in Procs, NEW fd \in Fds, NEW n \in Sizes,
         Transfer(p, fd, n)
  PROVE  FilesInv'
<1> DEFINE f == ofile[p][fd]
           l == IF kind[f] = "read" THEN "reads" ELSE "writes"
           j == [User EXCEPT !.pc = l, !.file = f, !.n = n]
<1>1. /\ Call(p) /\ f # 0 /\ kind[f] \in Ends /\ Goto(p, j) /\ UNCHANGED <<files, pipes>>
  BY DEF Transfer, Ends
<1>2. f \in Files
  BY <1>1 DEF Shaped, ResTyped
<1>3. Calm(job[p])
  BY <1>1, CalmAt DEF Call
<1> HIDE DEF f
<1>4. /\ j.pc = l /\ j.file = f /\ j.made = <<>> /\ j.todo = <<>> /\ j.call = "none"
  BY DEF User
<1>5. HoldsEnd(p, f, kind[f])
  BY <1>2 DEF HoldsEnd, f
<1> HIDE DEF j
<1>6. job'[p] = j /\ \A q \in Procs \ {p} : job'[q] = job[q]
  BY <1>1 DEF Goto, Shaped, ResTyped
<1>7. /\ Reading(j) => HoldsEnd(p, j.file, "read")
      /\ Writing(j) => HoldsEnd(p, j.file, "write")
      /\ ~Fresh(j)
  BY <1>1, <1>4, <1>5 DEF Reading, Writing, Fresh, Ends
<1>8. ResTyped'
  BY DEF Shaped
<1>9. QED
  BY <1>1, <1>3, <1>4, <1>6, <1>7, <1>8, QuietAlike DEF Alike, Calm

\* The counts, kinds and ends survive: kill().
LEMMA KillFiles ==
  ASSUME Shaped, FilesInv, Shaped', NEW p \in Procs, NEW c \in Procs, Kill(p, c)
  PROVE  FilesInv'
<1>1. /\ Call(p) /\ UNCHANGED <<files, pipes>>
      /\ job' = [job EXCEPT ![c].pc =
                   IF @ = "nread" THEN "reads" ELSE IF @ = "nwrite" THEN "writes" ELSE @]
  BY DEF Kill
<1>2. job \in [Procs -> Jobs] /\ ResTyped'
  BY DEF Shaped, ResTyped
<1>3. ASSUME NEW q \in Procs
      PROVE  /\ job'[q].todo = job[q].todo /\ job'[q].made = job[q].made
             /\ job'[q].file = job[q].file
             /\ Fresh(job'[q]) => Fresh(job[q])
             /\ Reading(job'[q]) => Reading(job[q])
             /\ Writing(job'[q]) => Writing(job[q])
  BY <1>1, <1>2 DEF Fresh, Reading, Writing, Jobs
<1>4. \A q \in Procs :
           /\ job'[q].todo = job[q].todo /\ job'[q].made = job[q].made
           /\ Fresh(job'[q]) => Fresh(job[q])
           /\ Reading(job'[q]) => HoldsEnd(q, job'[q].file, "read")
           /\ Writing(job'[q]) => HoldsEnd(q, job'[q].file, "write")
  BY <1>3 DEF FilesInv, UsersHold
<1>5. QED
  BY <1>1, <1>2, <1>4, QuietStep

\* The counts, kinds and ends survive: piperead().
LEMMA ReadTryFiles ==
  ASSUME Shaped, FilesInv, Shaped', NEW p \in Procs, ReadTry(p)
  PROVE  FilesInv'
<1> DEFINE k == pipe[job[p].file]
           j == [job[p] EXCEPT !.pc = "nread"]
           m == Min({job[p].n, Count(pipes[k])})
           after == [pipes[k] EXCEPT !.nread = (@ + m) % CounterSize]
<1>1. /\ job[p].pc = "reads" /\ UNCHANGED files
      /\ \/ Goto(p, User) /\ UNCHANGED pipes
         \/ Goto(p, j) /\ UNCHANGED pipes
         \/ pipes' = [pipes EXCEPT ![k] = after] /\ Wakeup(p, User, k, "nwrite")
  BY DEF ReadTry, At, Return
<1>2. /\ job[p] \in Jobs /\ pipes \in [Pipes -> PipeRecords] /\ ResTyped'
  BY DEF Shaped, ResTyped
<1>3. /\ PipeOf(p) \in Pipes /\ job[p].made = <<>> /\ job[p].todo = <<>> /\ job[p].call # "open"
      /\ HoldsEnd(p, job[p].file, "read")
  BY <1>1, PipeHeld DEF Reading
<1>4. /\ j \in Jobs /\ j.made = <<>> /\ j.todo = <<>> /\ j.pc = "nread" /\ j.call = job[p].call
      /\ j.file = job[p].file
  BY <1>2, <1>3 DEF Jobs
<1>5. User \in Jobs /\ User.made = <<>> /\ User.todo = <<>> /\ User.pc = "user" /\ User.call = "none"
  BY UserFits DEF User
<1>6. /\ after.there = pipes[k].there /\ after.readopen = pipes[k].readopen
      /\ after.writeopen = pipes[k].writeopen
  BY <1>2, <1>3 DEF PipeOf, PipeRecords
<1> HIDE DEF j, after
<1>7. (\A q \in Procs \ {p} : Alike(job[q], job'[q])) /\ job'[p] \in {User, j}
  <2> HIDE DEF k
  <2>1. QED
    BY <1>1, <1>4, <1>5, GotoSteps, WakeupSteps
<1>8. \A x \in Pipes : /\ pipes'[x].there = pipes[x].there
                       /\ pipes'[x].readopen = pipes[x].readopen
                       /\ pipes'[x].writeopen = pipes[x].writeopen
  <2> HIDE DEF k
  <2>1. QED
    BY <1>1, <1>2, <1>6
<1>9. /\ job'[p].todo = job[p].todo /\ job'[p].made = job[p].made /\ ~Fresh(job'[p])
      /\ Reading(job'[p]) => HoldsEnd(p, job'[p].file, "read")
      /\ Writing(job'[p]) => HoldsEnd(p, job'[p].file, "write")
  BY <1>3, <1>4, <1>5, <1>7 DEF Fresh, Reading, Writing
<1>10. QED
  BY <1>1, <1>2, <1>7, <1>8, <1>9, QuietAlike

\* The counts, kinds and ends survive: pipewrite().
LEMMA WriteTryFiles ==
  ASSUME Shaped, FilesInv, Shaped', NEW p \in Procs, WriteTry(p)
  PROVE  FilesInv'
<1> DEFINE k == pipe[job[p].file]
           m == Min({job[p].n, Room(pipes[k])})
           left == job[p].n - m
           j == [job[p] EXCEPT !.pc = "nwrite", !.n = left]
<1>1. /\ job[p].pc = "writes" /\ UNCHANGED files
      /\ pipes' = [pipes EXCEPT ![k] = PipePut(pipes[k], m)]
      /\ \/ Wakeup(p, User, k, "nread")
         \/ Wakeup(p, j, k, "nread")
         \/ job' = [x \in Procs |->
              IF x = p THEN User
              ELSE IF m > 0 /\ Sleeps(x, k, "nread")
                   THEN [job[x] EXCEPT !.missed = TRUE] ELSE job[x]]
  BY DEF WriteTry, At
<1>2. /\ job[p] \in Jobs /\ pipes \in [Pipes -> PipeRecords] /\ ResTyped'
      /\ job' \in [Procs -> Jobs] /\ job \in [Procs -> Jobs]
  BY DEF Shaped, ResTyped
<1>3. /\ PipeOf(p) \in Pipes /\ job[p].made = <<>> /\ job[p].todo = <<>> /\ job[p].call # "open"
      /\ HoldsEnd(p, job[p].file, "write")
  BY <1>1, PipeHeld DEF Writing, Reading
<1>4. m \in Nat
  <2>1. pipes[k] \in PipeRecords
    BY <1>2, <1>3 DEF PipeOf
  <2> HIDE DEF k
  <2>2. Room(pipes[k]) \in Nat /\ job[p].n \in Nat
    BY <2>1, <1>2, CountType DEF Jobs
  <2>3. QED
    BY <2>2, LesserOfTwo
<1> HIDE DEF m, left
<1>5. /\ j.made = <<>> /\ j.todo = <<>> /\ j.pc = "nwrite" /\ j.call = job[p].call
      /\ j.file = job[p].file
  BY <1>2, <1>3 DEF Jobs
<1>6. User.made = <<>> /\ User.todo = <<>> /\ User.pc = "user" /\ User.call = "none"
  BY DEF User
<1> HIDE DEF j
<1>7. (\A q \in Procs \ {p} : Alike(job[q], job'[q])) /\ job'[p] \in {User, j}
  <2> HIDE DEF k
  <2>1. CASE \E x : Wakeup(p, x, k, "nread") /\ x \in {User, j}
    <3>1. PICK x \in {User, j} : Wakeup(p, x, k, "nread")
      BY <2>1
    <3>2. job'[p] = x /\ x \in Jobs
      BY <3>1, <1>2 DEF Wakeup
    <3>3. QED
      BY <3>1, <3>2, WakeupSteps
  <2>2. CASE job' = [x \in Procs |->
              IF x = p THEN User
              ELSE IF m > 0 /\ Sleeps(x, k, "nread")
                   THEN [job[x] EXCEPT !.missed = TRUE] ELSE job[x]]
    <3>1. ASSUME NEW y \in Procs \ {p} PROVE Alike(job[y], job'[y])
      <4>1. \/ job'[y] = job[y]
            \/ job[y].pc = "nread" /\ job'[y] = [job[y] EXCEPT !.missed = TRUE]
        BY <2>2 DEF Sleeps
      <4>2. ASSUME job[y].pc = "nread" PROVE [job[y] EXCEPT !.missed = TRUE] =
              [job[y] EXCEPT !.pc = job[y].pc, !.missed = TRUE]
        BY <1>2 DEF Jobs
      <4>3. QED
        BY <4>1, <4>2 DEF Alike
    <3>2. QED
      BY <2>2, <3>1
  <2>3. QED
    BY <1>1, <2>1, <2>2
<1>8. \A x \in Pipes : /\ pipes'[x].there = pipes[x].there
                       /\ pipes'[x].readopen = pipes[x].readopen
                       /\ pipes'[x].writeopen = pipes[x].writeopen
  <2> DEFINE after == PipePut(pipes[k], m)
  <2>1. /\ after.there = pipes[k].there /\ after.readopen = pipes[k].readopen
        /\ after.writeopen = pipes[k].writeopen
    BY <1>2, <1>3, <1>4, PipePutType DEF PipeOf
  <2>2. pipes' = [pipes EXCEPT ![k] = after]
    BY <1>1
  <2> HIDE DEF k, after
  <2>3. QED
    BY <2>1, <2>2, <1>2
<1>9. /\ job'[p].todo = job[p].todo /\ job'[p].made = job[p].made /\ ~Fresh(job'[p])
      /\ Reading(job'[p]) => HoldsEnd(p, job'[p].file, "read")
      /\ Writing(job'[p]) => HoldsEnd(p, job'[p].file, "write")
  BY <1>3, <1>5, <1>6, <1>7 DEF Fresh, Reading, Writing
<1>10. QED
  BY <1>1, <1>2, <1>7, <1>8, <1>9, QuietAlike

\* A file found in a descriptor or in a call is used.
LEMMA Used ==
  ASSUME Shaped, NEW q \in Procs, NEW f \in Files,
         \/ \E fd \in Fds : ofile[q][fd] = f
         \/ \E i \in DOMAIN job[q].made : job[q].made[i] = f
         \/ \E i \in DOMAIN job[q].todo : job[q].todo[i] = CloseOf(f)
  PROVE  Uses(q, f) > 0
<1>1. job[q] \in Jobs /\ ofile[q] \in [Fds -> Files \cup {0}]
  BY DEF Shaped, ResTyped
<1>2. /\ Occurs(ofile[q], f) \in Nat /\ Occurs(job[q].todo, CloseOf(f)) \in Nat
      /\ Occurs(job[q].made, f) \in Nat
  BY <1>1, HeldType
<1>3. /\ IsFiniteSet(DOMAIN ofile[q]) /\ DOMAIN ofile[q] = Fds
      /\ IsFiniteSet(DOMAIN job[q].todo) /\ IsFiniteSet(DOMAIN job[q].made)
  <2>1. job[q].todo \in Seq(Items) /\ job[q].made \in Seq(Files) /\ DOMAIN ofile[q] = Fds
    BY <1>1 DEF Jobs
  <2>2. QED
    BY <2>1, SeqFinite, Basics
<1>4. \/ Occurs(ofile[q], f) # 0 \/ Occurs(job[q].todo, CloseOf(f)) # 0
      \/ Occurs(job[q].made, f) # 0
  BY <1>3, OccursType
<1>5. QED
  BY <1>2, <1>4 DEF Uses

\* A step of p that takes, moves or drops files of p.
LEMMA FileStep ==
  ASSUME Shaped, FilesInv, ResTyped', NEW p \in Procs,
         \A q \in Procs \ {p} : job'[q] = job[q] /\ ofile'[q] = ofile[q],
         \A f \in Files :
           /\ ref'[f] + Held(ofile[p], job[p], f) = ref[f] + Held(ofile'[p], job'[p], f)
           /\ Held(ofile[p], job[p], f) = 0 /\ ref[f] > 0 => ref'[f] = ref[f]
           /\ kind'[f] # kind[f] => ref[f] = Held(ofile[p], job[p], f),
         KindsExact', EndsExact',
         Fresh(job'[p]) =>
           \A i \in DOMAIN job'[p].made : /\ job'[p].made[i] \in Files
                                          /\ ref'[job'[p].made[i]] = 1 /\ kind'[job'[p].made[i]] = "none",
         ~Reading(job'[p]), ~Writing(job'[p])
  PROVE  FilesInv'
<1>1. CountsExact'
  BY CountStep DEF FilesInv
<1>2. ASSUME NEW q \in Procs \ {p}, NEW f \in Files, Uses(q, f) > 0
      PROVE  kind'[f] = kind[f] /\ (ref[f] = 1 => ref'[f] = ref[f])
  <2>1. /\ ref[f] \in Nat /\ Uses(p, f) = Held(ofile[p], job[p], f)
        /\ Uses(p, f) \in Nat /\ Uses(q, f) \in Nat /\ Uses(p, f) + Uses(q, f) <= ref[f]
    BY UsesCounted DEF FilesInv
  <2>2. Uses(p, f) < ref[f] /\ (ref[f] = 1 => Uses(p, f) = 0)
    BY <2>1, <1>2
  <2>3. QED
    BY <2>1, <2>2
<1>3. FreshFiles'
  <2>1. ASSUME NEW q \in Procs, Fresh(job'[q]), NEW i \in DOMAIN job'[q].made
        PROVE  ref'[job'[q].made[i]] = 1 /\ kind'[job'[q].made[i]] = "none"
    <3>1. CASE q = p
      BY <3>1, <2>1
    <3>2. CASE q # p
      <4> DEFINE f == job[q].made[i]
      <4>1. job'[q] = job[q] /\ i \in DOMAIN job[q].made /\ ref[f] = 1 /\ kind[f] = "none"
        BY <3>2, <2>1 DEF FilesInv, FreshFiles
      <4>2. f \in Files
        <5>1. job[q].made \in Seq(Files)
          BY DEF Shaped, ResTyped, Jobs
        <5>2. QED
          BY <5>1, <4>1
      <4>3. Uses(q, f) > 0
        BY <4>1, <4>2, Used
      <4>4. QED
        BY <4>1, <4>2, <4>3, <3>2, <1>2
    <3>3. QED
      BY <3>1, <3>2
  <2>2. QED
    BY <2>1 DEF FreshFiles
<1>4. UsersHold'
  <2>1. ASSUME NEW q \in Procs \ {p}, NEW end \in Ends, HoldsEnd(q, job[q].file, end)
        PROVE  HoldsEnd(q, job[q].file, end)'
    <3> DEFINE f == job[q].file
    <3>1. f \in Files /\ Uses(q, f) > 0
      BY <2>1, Used DEF HoldsEnd
    <3>2. kind'[f] = kind[f]
      BY <3>1, <1>2
    <3>3. QED
      BY <2>1, <3>2 DEF HoldsEnd
  <2>2. QED
    BY <2>1 DEF UsersHold, FilesInv, Ends
<1>5. QED
  BY <1>1, <1>3, <1>4 DEF FilesInv

\* Closing and the kinds when a step changes neither, nor a pipe.
LEMMA EndsSame ==
  ASSUME Shaped, FilesInv, NEW p \in Procs, UNCHANGED <<pipe, pipes>>,
         \A f \in Files : kind'[f] = kind[f] \/ (kind[f] = "none" /\ kind'[f] = "inode"),
         \A q \in Procs \ {p} : job'[q] = job[q],
         \/ job'[p].todo = job[p].todo
         \/ /\ job[p].todo = <<>>
            /\ job'[p].todo \in Seq(Items)
            /\ \A i \in DOMAIN job'[p].todo : job'[p].todo[i].end = "none"
  PROVE  EndsExact'
<1>1. \A q \in Procs, k \in Pipes, end \in Ends : Closing(q, k, end)' <=> Closing(q, k, end)
  <2>1. ASSUME NEW k \in Pipes, NEW end \in Ends PROVE Closing(p, k, end)' <=> Closing(p, k, end)
    <3>1. CASE job'[p].todo = job[p].todo
      BY <3>1 DEF Closing
    <3>2. CASE /\ job[p].todo = <<>> /\ job'[p].todo \in Seq(Items)
               /\ \A i \in DOMAIN job'[p].todo : job'[p].todo[i].end = "none"
      <4>1. job'[p].todo # <<>> => 1 \in DOMAIN job'[p].todo /\ Head(job'[p].todo) = job'[p].todo[1]
        BY <3>2, LenProperties, EmptySeq
      <4>2. job'[p].todo # <<>> => Head(job'[p].todo).end = "none"
        BY <3>2, <4>1
      <4>3. "none" \notin Ends
        BY DEF Ends
      <4>4. QED
        BY <3>2, <4>2, <4>3 DEF Closing
    <3>3. QED
      BY <3>1, <3>2
  <2>2. QED
    BY <2>1 DEF Closing
<1>2. \A f \in Files, k \in Pipes, end \in Ends : EndOf(f, k, end)' <=> EndOf(f, k, end)
  BY DEF EndOf, Ends
<1>3. \A q \in Procs : \A i \in DOMAIN job'[q].todo \ {1} : job'[q].todo[i].end = "none"
  BY DEF FilesInv, EndsExact
<1>4. \A k \in Pipes : /\ pipes'[k].there = pipes[k].there
                       /\ pipes'[k].readopen = pipes[k].readopen
                       /\ pipes'[k].writeopen = pipes[k].writeopen
  OBVIOUS
<1>5. \A k \in Pipes, end \in Ends :
        /\ \A f \in Files : EndOf(f, k, end)' <=> EndOf(f, k, end)
        /\ \A q \in Procs : Closing(q, k, end)' <=> Closing(q, k, end)
  BY <1>1, <1>2
<1>6. QED
  BY <1>3, <1>4, <1>5, EndsKept DEF FilesInv

\* filealloc() changes one count, from 0 to 1.
LEMMA NewRefs ==
  ASSUME Shaped, CountsExact, ~NoFile, ref' = [ref EXCEPT ![NewFile] = 1]
  PROVE  /\ NewFile \in Files /\ ref[NewFile] = 0
         /\ \A f \in Files : ref[f] \in Nat /\ ref'[f] = ref[f] + Is(NewFile, f)
<1>1. \A f \in Files : ref[f] \in Nat
  BY UsesCounted
<1>2. NewFile \in Files /\ ref[NewFile] = 0
  BY <1>1, NewFileFree
<1>3. ref \in [Files -> Int]
  BY DEF Shaped, ResTyped
<1>4. \A f \in Files : ref'[f] = ref[f] + Is(NewFile, f)
  <2>1. ASSUME NEW f \in Files PROVE ref'[f] = ref[f] + Is(NewFile, f)
    <3>1. CASE f = NewFile
      BY <3>1, <1>2, <1>3 DEF Is
    <3>2. CASE f # NewFile
      BY <3>2, <1>1, <1>2, <1>3 DEF Is
    <3>3. QED
      BY <3>1, <3>2
  <2>2. QED
    BY <2>1
<1>5. QED
  BY <1>1, <1>2, <1>4

\* The counts, kinds and ends survive: open() or pipe() takes a file.
LEMMA OpenFiles ==
  ASSUME Shaped, FilesInv, ResTyped', NEW p \in Procs, NEW call \in {"open", "pipe"}, Open(p, call)
  PROVE  FilesInv'
<1> DEFINE j == [User EXCEPT !.call = call, !.pc = IF call = "open" THEN "installs" ELSE "second",
                             !.made = <<NewFile>>]
           n == NewFile
<1>1. /\ Call(p) /\ ~NoFile /\ ref' = [ref EXCEPT ![NewFile] = 1] /\ Goto(p, j)
      /\ UNCHANGED <<ofile, kind, pipe, pipes>>
  BY DEF Open
<1>2. /\ n \in Files /\ ref[n] = 0
      /\ \A f \in Files : ref[f] \in Nat /\ ref'[f] = ref[f] + Is(n, f)
  BY <1>1, NewRefs DEF FilesInv
<1> HIDE DEF n
<1>3. /\ j.made = <<n>> /\ j.todo = <<>> /\ ~Reading(j) /\ ~Writing(j)
  BY DEF User, Reading, Writing, n
<1> HIDE DEF j
<1>4. job'[p] = j /\ \A q \in Procs \ {p} : job'[q] = job[q]
  BY <1>1 DEF Goto, Shaped, ResTyped
<1>5. Calm(job[p])
  BY <1>1, CalmAt DEF Call
<1>6. /\ kind[n] = "none" /\ KindsExact'
  BY <1>1, <1>2 DEF FilesInv, KindsExact, Is
<1>7. EndsExact'
  <2>1. job'[p].todo = job[p].todo
    BY <1>3, <1>4, <1>5 DEF Calm
  <2>2. QED
    BY <1>1, <1>4, <2>1, EndsSame
<1>8. ASSUME NEW f \in Files
      PROVE  /\ ref'[f] + Held(ofile[p], job[p], f) = ref[f] + Held(ofile'[p], job'[p], f)
             /\ Held(ofile[p], job[p], f) = 0 /\ ref[f] > 0 => ref'[f] = ref[f]
  <2>1. /\ Occurs(ofile[p], f) \in Nat /\ Occurs(job[p].todo, CloseOf(f)) \in Nat
        /\ Occurs(job[p].made, f) = 0
    BY <1>5, HeldType, OccursFew DEF Shaped, ResTyped, Calm
  <2>2. Occurs(job'[p].made, f) = Is(n, f) /\ job'[p].todo = job[p].todo /\ ofile'[p] = ofile[p]
    BY <1>1, <1>3, <1>4, <1>5, OccursFew DEF Calm
  <2>3. Is(n, f) \in Nat /\ (ref[f] > 0 => Is(n, f) = 0)
    BY <1>2 DEF Is
  <2>4. QED
    BY <2>1, <2>2, <2>3, <1>2 DEF Held
<1>9. \A i \in DOMAIN job'[p].made :
        job'[p].made[i] \in Files /\ ref'[job'[p].made[i]] = 1 /\ kind'[job'[p].made[i]] = "none"
  BY <1>1, <1>2, <1>3, <1>4, <1>6 DEF Is
<1>10. QED
  BY <1>1, <1>3, <1>4, <1>6, <1>7, <1>8, <1>9, FileStep

\* A call that fails has its files to close.
LEMMA FailFiles ==
  ASSUME Shaped, FilesInv, ResTyped', NEW p \in Procs,
         Goto(p, [User EXCEPT !.todo = Closes(job[p].made)]), job[p].todo = <<>>,
         UNCHANGED <<ofile, ref, kind, pipe, pipes>>
  PROVE  FilesInv'
<1> DEFINE j == [User EXCEPT !.todo = Closes(job[p].made)]
<1>1. /\ j.made = <<>> /\ j.todo = Closes(job[p].made) /\ ~Reading(j) /\ ~Writing(j) /\ ~Fresh(j)
  BY DEF User, Reading, Writing, Fresh
<1> HIDE DEF j
<1>2. job'[p] = j /\ \A q \in Procs \ {p} : job'[q] = job[q]
  BY DEF Goto, Shaped, ResTyped, j
<1>3. job[p].made \in Seq(Files) /\ job[p] \in Jobs
  BY DEF Shaped, ResTyped, Jobs
<1>4. KindsExact'
  BY DEF FilesInv, KindsExact
<1>5. EndsExact'
  <2>1. job'[p].todo \in Seq(Items) /\ \A i \in DOMAIN job'[p].todo : job'[p].todo[i].end = "none"
    BY <1>1, <1>2, <1>3, ClosesType
  <2>2. QED
    BY <1>2, <2>1, EndsSame
<1>6. ASSUME NEW f \in Files
      PROVE  ref'[f] + Held(ofile[p], job[p], f) = ref[f] + Held(ofile'[p], job'[p], f)
  <2>1. Occurs(job'[p].todo, CloseOf(f)) = Occurs(job[p].made, f) /\ Occurs(job'[p].made, f) = 0
    BY <1>1, <1>2, <1>3, OccursCloses, OccursFew
  <2>2. Occurs(job[p].todo, CloseOf(f)) = 0
    BY OccursFew
  <2>3. Occurs(ofile[p], f) \in Nat /\ Occurs(job[p].made, f) \in Nat
    BY <1>3, HeldType DEF Shaped, ResTyped
  <2>4. Held(ofile'[p], job'[p], f) = Held(ofile[p], job[p], f)
    BY <2>1, <2>2, <2>3 DEF Held
  <2>5. QED
    BY <2>4
<1>7. QED
  BY <1>1, <1>2, <1>4, <1>5, <1>6, FileStep

\* The counts, kinds and ends survive: pipealloc() takes its second file.
LEMMA SecondFileFiles ==
  ASSUME Shaped, FilesInv, ResTyped', NEW p \in Procs, SecondFile(p)
  PROVE  FilesInv'
<1> DEFINE j == [job[p] EXCEPT !.pc = "buffer", !.made = Append(@, NewFile)]
           n == NewFile
           g == job[p].made[1]
<1>1. /\ job[p].pc = "second" /\ job[p].todo = <<>>
      /\ UNCHANGED <<ofile, kind, pipe, pipes>>
      /\ \/ Goto(p, [User EXCEPT !.todo = Closes(job[p].made)]) /\ UNCHANGED ref
         \/ ~NoFile /\ ref' = [ref EXCEPT ![NewFile] = 1] /\ Goto(p, j)
  BY DEF SecondFile, At
<1>2. CASE Goto(p, [User EXCEPT !.todo = Closes(job[p].made)]) /\ UNCHANGED ref
  BY <1>1, <1>2, FailFiles
<1>3. CASE ~NoFile /\ ref' = [ref EXCEPT ![NewFile] = 1] /\ Goto(p, j)
  <2>1. /\ n \in Files /\ ref[n] = 0
        /\ \A f \in Files : ref[f] \in Nat /\ ref'[f] = ref[f] + Is(n, f)
    BY <1>3, NewRefs DEF FilesInv
  <2>2. /\ job[p] \in Jobs /\ JobFits(job[p]) /\ job[p].made \in Seq(Files)
    BY DEF Shaped, ResTyped, Jobs
  <2>3. /\ Len(job[p].made) = 1 /\ job[p].made = <<g>> /\ g \in Files
    <3>1. Len(job[p].made) = 1
      BY <1>1, <2>2 DEF JobFits
    <3>2. QED
      BY <2>2, <3>1
  <2>4. ref[g] = 1 /\ kind[g] = "none"
    <3>1. Fresh(job[p]) /\ 1 \in DOMAIN job[p].made
      BY <1>1, <2>2, <2>3, LenProperties DEF Fresh
    <3>2. QED
      BY <3>1 DEF FilesInv, FreshFiles
  <2> HIDE DEF n, g
  <2>5. Append(job[p].made, n) = <<g, n>>
    <3> DEFINE s == Append(job[p].made, n)
    <3>1. job[p].made[1] = g
      BY DEF g
    <3>2. s \in Seq(Files) /\ Len(s) = 2 /\ s[1] = g /\ s[2] = n
      BY <2>1, <2>2, <2>3, <3>1
    <3> HIDE DEF s
    <3>3. s = <<g, n>>
      BY <3>2
    <3>4. QED
      BY <3>3 DEF s
  <2>6. /\ j.made = <<g, n>> /\ j.todo = <<>> /\ j.pc = "buffer"
    <3>1. Append(job[p].made, n) \in Seq(Files)
      BY <2>1, <2>2
    <3>2. QED
      BY <1>1, <2>2, <2>5, <3>1 DEF Jobs, n
  <2>7. job'[p] = j /\ \A q \in Procs \ {p} : job'[q] = job[q]
    BY <1>3 DEF Goto, Shaped, ResTyped
  <2> HIDE DEF j
  <2>8. kind[n] = "none" /\ KindsExact'
    BY <1>1, <2>1 DEF FilesInv, KindsExact, Is
  <2>9. EndsExact'
    BY <1>1, <2>6, <2>7, EndsSame
  <2>10. ASSUME NEW f \in Files
        PROVE  /\ ref'[f] + Held(ofile[p], job[p], f) = ref[f] + Held(ofile'[p], job'[p], f)
               /\ Held(ofile[p], job[p], f) = 0 /\ ref[f] > 0 => ref'[f] = ref[f]
    <3>1. /\ Occurs(ofile[p], f) \in Nat /\ Occurs(job[p].todo, CloseOf(f)) = 0
          /\ Occurs(job[p].made, f) = Is(g, f)
      BY <1>1, <2>2, <2>3, HeldType, OccursFew DEF Shaped, ResTyped
    <3>2. /\ Occurs(job'[p].made, f) = Is(g, f) + Is(n, f) /\ Occurs(job'[p].todo, CloseOf(f)) = 0
          /\ ofile'[p] = ofile[p]
      <4>1. Occurs(<<g, n>>, f) = Is(g, f) + Is(n, f)
        BY OccursPair
      <4>2. job'[p].made = <<g, n>> /\ job'[p].todo = <<>>
        BY <2>6, <2>7, Zenon
      <4>3. ofile'[p] = ofile[p]
        BY <1>1
      <4>4. Occurs(<<>>, CloseOf(f)) = 0
        BY OccursFew
      <4>5. QED
        BY <4>1, <4>2, <4>3, <4>4, Zenon
    <3>3. Is(n, f) \in Nat /\ Is(g, f) \in Nat /\ (ref[f] > 0 => Is(n, f) = 0)
      BY <2>1 DEF Is
    <3>4. /\ Held(ofile[p], job[p], f) = Occurs(ofile[p], f) + Is(g, f)
          /\ Held(ofile'[p], job'[p], f) = Occurs(ofile[p], f) + Is(g, f) + Is(n, f)
      BY <3>1, <3>2, <3>3 DEF Held
    <3>5. ref'[f] = ref[f] + Is(n, f) /\ ref[f] \in Nat
      BY <2>1
    <3>6. QED
      BY <3>1, <3>3, <3>4, <3>5
  <2>11. \A i \in DOMAIN job'[p].made :
          job'[p].made[i] \in Files /\ ref'[job'[p].made[i]] = 1 /\ kind'[job'[p].made[i]] = "none"
    <3>1. g # n /\ ref'[g] = 1 /\ ref'[n] = 1
      BY <2>1, <2>3, <2>4 DEF Is
    <3>2. QED
      BY <1>1, <3>1, <2>1, <2>3, <2>4, <2>6, <2>7, <2>8
  <2>12. ~Reading(job'[p]) /\ ~Writing(job'[p])
    BY <2>6, <2>7 DEF Reading, Writing
  <2>13. QED
    BY <1>1, <2>7, <2>8, <2>9, <2>10, <2>11, <2>12, FileStep
<1>4. QED
  BY <1>1, <1>2, <1>3

\* The counts, kinds and ends survive: dup().
LEMMA DupFiles ==
  ASSUME Shaped, FilesInv, ResTyped', NEW p \in Procs, NEW fd \in Fds, Dup(p, fd)
  PROVE  FilesInv'
<1> DEFINE g == ofile[p][fd]
           x == Min(FreeFds(p))
<1>1. /\ Call(p) /\ g # 0 /\ FreeFds(p) # {}
      /\ ofile' = [ofile EXCEPT ![p][x] = g]
      /\ ref' = [ref EXCEPT ![g] = @ + 1]
      /\ UNCHANGED <<kind, pipe, pipes, job>>
  BY DEF Dup
<1>2. ofile \in [Procs -> [Fds -> Files \cup {0}]] /\ ref \in [Files -> Int] /\ job[p] \in Jobs
  BY DEF Shaped, ResTyped
<1>3. g \in Files
  BY <1>1, <1>2
<1>4. x \in Fds /\ ofile[p][x] = 0
  <2>1. FreeFds(p) \in SUBSET (0..NOFILE - 1) /\ NOFILE - 1 \in Int /\ 0 \in Int
    BY ResourcesAssumption DEF ResourcesAssumption, FreeFds, Fds
  <2>2. x \in FreeFds(p)
    BY <2>1, <1>1, Lowest
  <2>3. QED
    BY <2>2 DEF FreeFds
<1> HIDE DEF g, x
<1>5. /\ DOMAIN ofile'[p] = Fds /\ DOMAIN ofile[p] = Fds /\ ofile'[p][x] = g
      /\ \A y \in Fds \ {x} : ofile'[p][y] = ofile[p][y]
      /\ \A q \in Procs \ {p} : ofile'[q] = ofile[q]
  BY <1>1, <1>2, <1>4
<1>6. Calm(job[p])
  BY <1>1, CalmAt DEF Call
<1>7. ASSUME NEW f \in Files PROVE ref'[f] = ref[f] + Is(g, f)
  <2>1. CASE f = g
    BY <2>1, <1>1, <1>2, <1>3 DEF Is
  <2>2. CASE f # g
    BY <2>2, <1>1, <1>2, <1>3 DEF Is
  <2>3. QED
    BY <2>1, <2>2
<1>8. \A f \in Files : ref[f] \in Nat /\ Is(g, f) \in Nat
  BY UsesCounted DEF FilesInv, Is
<1>9. KindsExact'
  BY <1>1, <1>7, <1>8 DEF FilesInv, KindsExact
<1>10. EndsExact'
  BY <1>1, EndsSame
<1>11. ASSUME NEW f \in Files
       PROVE  /\ ref'[f] + Held(ofile[p], job[p], f) = ref[f] + Held(ofile'[p], job'[p], f)
              /\ Held(ofile[p], job[p], f) = 0 /\ ref[f] > 0 => ref'[f] = ref[f]
  <2>1. /\ Occurs(ofile[p], f) \in Nat /\ Occurs(job[p].todo, CloseOf(f)) \in Nat
        /\ Occurs(job[p].made, f) \in Nat /\ Held(ofile[p], job[p], f) \in Nat
    BY <1>2, HeldType
  <2>2. Occurs(ofile'[p], f) + Is(ofile[p][x], f) = Occurs(ofile[p], f) + Is(ofile'[p][x], f)
        /\ Occurs(ofile'[p], f) \in Nat
    <3> DEFINE s == ofile[p]
               t == ofile'[p]
    <3>1. IsFiniteSet(DOMAIN s) /\ DOMAIN t = DOMAIN s /\ x \in DOMAIN s
          /\ \A y \in DOMAIN s \ {x} : t[y] = s[y]
      BY <1>4, <1>5, Basics
    <3> HIDE DEF s, t
    <3>2. Occurs(t, f) + Is(s[x], f) = Occurs(s, f) + Is(t[x], f) /\ Occurs(t, f) \in Nat
      BY <3>1, OccursChange
    <3>3. QED
      BY <3>2 DEF s, t
  <2>3. Is(ofile[p][x], f) = 0 /\ ofile'[p][x] = g
    BY <1>4, <1>5, Basics DEF Is
  <2>4. Held(ofile[p], job[p], f) = 0 => g # f
    <3>1. g = f => Uses(p, f) > 0
      BY <1>3, Used DEF g
    <3>2. Uses(p, f) = Held(ofile[p], job[p], f)
      BY UsesCounted DEF FilesInv
    <3>3. QED
      BY <3>1, <3>2
  <2>5. ref'[f] = ref[f] + Is(g, f) /\ ref[f] \in Nat /\ Is(g, f) \in Nat
    BY <1>7, <1>8
  <2>6. Held(ofile'[p], job'[p], f) = Held(ofile[p], job[p], f) + Is(g, f)
    BY <1>1, <2>1, <2>2, <2>3, <2>5 DEF Held
  <2>7. QED
    BY <2>1, <2>4, <2>5, <2>6 DEF Is
<1>12. ~Fresh(job'[p]) /\ ~Reading(job'[p]) /\ ~Writing(job'[p])
  BY <1>1, <1>6 DEF Calm
<1>13. QED
  BY <1>1, <1>5, <1>9, <1>10, <1>11, <1>12, FileStep

\* What a process drops from its table it has to close.
LEMMA DropStep ==
  ASSUME Shaped, FilesInv, ResTyped', NEW p \in Procs, NEW fs \in Seq(Files),
         UNCHANGED <<ref, kind, pipe, pipes>>, Calm(job[p]),
         \A q \in Procs \ {p} : job'[q] = job[q] /\ ofile'[q] = ofile[q],
         job'[p].todo = Closes(fs), job'[p].made = <<>>,
         ~Fresh(job'[p]), ~Reading(job'[p]), ~Writing(job'[p]),
         \A f \in Files : Occurs(ofile[p], f) = Occurs(ofile'[p], f) + Occurs(fs, f)
  PROVE  FilesInv'
<1>1. KindsExact'
  BY DEF FilesInv, KindsExact
<1>2. EndsExact'
  <2>1. job'[p].todo \in Seq(Items) /\ \A i \in DOMAIN job'[p].todo : job'[p].todo[i].end = "none"
    BY ClosesType
  <2>2. QED
    BY <2>1, EndsSame DEF Calm
<1>3. ASSUME NEW f \in Files
      PROVE  ref'[f] + Held(ofile[p], job[p], f) = ref[f] + Held(ofile'[p], job'[p], f)
  <2>1. Occurs(job'[p].todo, CloseOf(f)) = Occurs(fs, f)
    BY OccursCloses
  <2>2. Occurs(job'[p].made, f) = 0
    BY OccursFew
  <2>3. Occurs(job[p].made, f) = 0 /\ Occurs(job[p].todo, CloseOf(f)) = 0
    BY OccursFew DEF Calm
  <2>4. Occurs(ofile'[p], f) \in Nat /\ Occurs(ofile[p], f) \in Nat /\ Occurs(fs, f) \in Nat
    BY HeldType, SeqFinite, OccursType DEF Shaped, ResTyped
  <2>5. Held(ofile'[p], job'[p], f) = Held(ofile[p], job[p], f)
    BY <2>1, <2>2, <2>3, <2>4 DEF Held
  <2>6. QED
    BY <2>5
<1>4. QED
  BY <1>1, <1>2, <1>3, FileStep

\* The counts, kinds and ends survive: close() starts.
LEMMA CloseFiles ==
  ASSUME Shaped, FilesInv, ResTyped', NEW p \in Procs, NEW fd \in Fds, Close(p, fd)
  PROVE  FilesInv'
<1> DEFINE g == ofile[p][fd]
           fs == <<g>>
           j == [User EXCEPT !.todo = <<CloseOf(g)>>]
<1>1. /\ Call(p) /\ g # 0 /\ Goto(p, j) /\ ofile' = [ofile EXCEPT ![p][fd] = 0]
      /\ UNCHANGED <<ref, kind, pipe, pipes>>
  BY DEF Close
<1>2. ofile \in [Procs -> [Fds -> Files \cup {0}]]
  BY DEF Shaped, ResTyped
<1>3. fs \in Seq(Files) /\ Closes(fs) = <<CloseOf(g)>>
  BY <1>1, <1>2 DEF Closes
<1>4. /\ j.todo = Closes(fs) /\ j.made = <<>> /\ ~Fresh(j) /\ ~Reading(j) /\ ~Writing(j)
  BY <1>3 DEF User, Fresh, Reading, Writing
<1> HIDE DEF j
<1>5. job'[p] = j /\ \A q \in Procs \ {p} : job'[q] = job[q]
  BY <1>1 DEF Goto, Shaped, ResTyped
<1>6. /\ ofile'[p] = [ofile[p] EXCEPT ![fd] = 0]
      /\ \A q \in Procs \ {p} : ofile'[q] = ofile[q]
  BY <1>1, <1>2
<1>7. Calm(job[p])
  BY <1>1, CalmAt DEF Call
<1> HIDE DEF g, fs
<1>8. ASSUME NEW f \in Files
      PROVE  Occurs(ofile[p], f) = Occurs(ofile'[p], f) + Occurs(fs, f)
  <2> DEFINE s == ofile[p]
             t == ofile'[p]
  <2>1. /\ DOMAIN t = DOMAIN s /\ fd \in DOMAIN s /\ \A y \in DOMAIN s \ {fd} : t[y] = s[y]
        /\ t[fd] = 0 /\ s[fd] = g /\ DOMAIN s = Fds
    BY <1>2, <1>6 DEF g
  <2>2. IsFiniteSet(DOMAIN s)
    BY <2>1, Basics
  <2> HIDE DEF s, t
  <2>3. Occurs(t, f) + Is(s[fd], f) = Occurs(s, f) + Is(t[fd], f) /\ Occurs(t, f) \in Nat
        /\ Occurs(s, f) \in Nat
    BY <2>1, <2>2, OccursChange
  <2>4. Is(t[fd], f) = 0 /\ Is(s[fd], f) = Is(g, f)
    BY <2>1, Basics DEF Is
  <2>5. Occurs(fs, f) = Is(g, f) /\ Is(g, f) \in Nat
    BY OccursFew DEF fs, Is
  <2>6. Occurs(s, f) = Occurs(t, f) + Occurs(fs, f)
    BY <2>3, <2>4, <2>5
  <2>7. QED
    BY <2>6 DEF s, t
<1>9. /\ job'[p].todo = Closes(fs) /\ job'[p].made = <<>>
      /\ ~Fresh(job'[p]) /\ ~Reading(job'[p]) /\ ~Writing(job'[p])
  BY <1>4, <1>5 DEF fs
<1>10. fs \in Seq(Files)
  BY <1>3 DEF fs
<1>11. QED
  BY <1>1, <1>5, <1>6, <1>7, <1>8, <1>9, <1>10, DropStep

\* The counts, kinds and ends survive: exit() starts.
LEMMA ExitFiles ==
  ASSUME Shaped, FilesInv, ResTyped', NEW p \in Procs, Exit(p)
  PROVE  FilesInv'
<1> DEFINE j == [User EXCEPT !.pc = "exits", !.todo = Closes(FilesOf(p))]
           fs == FilesOf(p)
<1>1. /\ At(p, "user") /\ Goto(p, j) /\ ofile' = [ofile EXCEPT ![p] = NoFds]
      /\ UNCHANGED <<ref, kind, pipe, pipes>>
  BY DEF Exit, FilesOf, OpenFds, NoFds
<1>2. ofile \in [Procs -> [Fds -> Files \cup {0}]] /\ fs \in Seq(Files)
  BY FilesOfType DEF Shaped, ResTyped
<1>3. /\ j.todo = Closes(fs) /\ j.made = <<>> /\ ~Fresh(j) /\ ~Reading(j) /\ ~Writing(j)
  BY DEF User, Fresh, Reading, Writing
<1> HIDE DEF j
<1>4. job'[p] = j /\ \A q \in Procs \ {p} : job'[q] = job[q]
  BY <1>1 DEF Goto, Shaped, ResTyped
<1>5. ofile'[p] = NoFds /\ \A q \in Procs \ {p} : ofile'[q] = ofile[q]
  <2> HIDE DEF NoFds
  <2>1. QED
    BY <1>1, <1>2
<1>6. Calm(job[p])
  BY <1>1, CalmAt
<1>7. ASSUME NEW f \in Files
      PROVE  Occurs(ofile[p], f) = Occurs(ofile'[p], f) + Occurs(fs, f)
  <2>1. Occurs(fs, f) = Occurs(ofile[p], f) /\ Occurs(NoFds, f) = 0
    BY OccursFilesOf
  <2>2. Occurs(fs, f) \in Nat
    BY <1>2, SeqFinite, OccursType
  <2> HIDE DEF fs
  <2>3. QED
    BY <2>1, <2>2, <1>5
<1> HIDE DEF fs
<1>8. /\ job'[p].todo = Closes(fs) /\ job'[p].made = <<>>
      /\ ~Fresh(job'[p]) /\ ~Reading(job'[p]) /\ ~Writing(job'[p])
  BY <1>3, <1>4
<1>9. QED
  BY <1>1, <1>2, <1>4, <1>5, <1>6, <1>7, <1>8, DropStep

\* fork() doubles what the parent has open; a file of a call in progress is not open.
LEMMA ForkDoneFiles ==
  ASSUME Shaped, FilesInv, Shaped', NEW p \in Procs, ForkDone(p)
  PROVE  FilesInv'
<1> DEFINE c == job[p].child
<1>1. /\ At(p, "page") /\ job[p].call = "fork" /\ Goto(p, User)
      /\ ofile' = [ofile EXCEPT ![c] = ofile[p]]
      /\ ref' = [f \in Files |-> ref[f] + Occurs(ofile[p], f)]
      /\ UNCHANGED <<kind, pipe, pipes>>
  BY DEF ForkDone, Return
<1>2. /\ c \in Procs /\ c # p /\ job[c] = User /\ ofile[c] = NoFds
  <2>1. JobFits(job[p]) /\ CallFits(p) /\ state[p] = "live"
    BY <1>1 DEF Shaped, At
  <2>2. c \in Procs /\ state[c] = "embryo"
    BY <2>1, <1>1 DEF JobFits, CallFits
  <2>3. EntryFits(c)
    BY <2>2 DEF Shaped
  <2> HIDE DEF c
  <2>4. QED
    BY <2>1, <2>2, <2>3 DEF EntryFits
<1> HIDE DEF c
<1>3. /\ ofile \in [Procs -> [Fds -> Files \cup {0}]] /\ ref \in [Files -> Int] /\ ResTyped'
      /\ job \in [Procs -> Jobs] /\ job[p] \in Jobs
  BY DEF Shaped, ResTyped
<1>4. Calm(job[p]) /\ Calm(User)
  BY <1>1, CalmAt DEF User, Calm, Fresh, Reading, Writing
<1>5. /\ job'[p] = User /\ (\A q \in Procs \ {p} : job'[q] = job[q])
      /\ ofile'[c] = ofile[p] /\ \A q \in Procs \ {c} : ofile'[q] = ofile[q]
  BY <1>1, <1>2, <1>3 DEF Goto
<1>6. ASSUME NEW f \in Files
      PROVE  /\ ref'[f] = ref[f] + Occurs(ofile[p], f) /\ ref[f] \in Nat
             /\ Occurs(ofile[p], f) \in Nat
             /\ ref'[f] + Held(ofile[c], job[c], f) = ref[f] + Held(ofile'[c], job'[c], f)
             /\ Uses(p, f) = Occurs(ofile[p], f)
  <2>1. /\ ref'[f] = ref[f] + Occurs(ofile[p], f) /\ ref[f] \in Nat
        /\ Occurs(ofile[p], f) \in Nat
    BY <1>1, <1>3, UsesCounted, HeldType DEF FilesInv
  <2>2. Occurs(<<>>, f) = 0
    BY OccursFew
  <2>3. Occurs(<<>>, CloseOf(f)) = 0
    BY OccursFew
  <2>4. /\ User.todo = <<>> /\ User.made = <<>> /\ job[c] = User /\ job'[c] = User
    BY <1>2, <1>5 DEF User
  <2>5. Occurs(ofile[c], f) = 0
    BY <1>2, OccursFilesOf
  <2>6. Held(ofile[c], job[c], f) = 0 /\ Held(ofile'[c], job'[c], f) = Occurs(ofile[p], f)
    BY <2>1, <2>2, <2>3, <2>4, <2>5, <1>5 DEF Held
  <2>7. Uses(p, f) = Occurs(ofile[p], f)
    BY <2>1, <2>2, <2>3, <1>4 DEF Calm, Uses
  <2>8. QED
    BY <2>1, <2>6, <2>7
<1>7. CountsExact'
  <2>1. \A q \in Procs \ {c} :
          ofile'[q] = ofile[q] /\ job'[q].todo = job[q].todo /\ job'[q].made = job[q].made
    BY <1>4, <1>5 DEF Calm
  <2>2. QED
    BY <1>2, <1>3, <1>6, <2>1, CountStep DEF FilesInv
<1>8. KindsExact'
  BY <1>1, <1>6 DEF FilesInv, KindsExact
<1>9. EndsExact'
  <2>1. job'[p].todo = job[p].todo
    BY <1>4, <1>5 DEF Calm
  <2>2. QED
    BY <1>1, <1>5, <2>1, EndsSame
<1>10. FreshFiles'
  <2>1. ASSUME NEW q \in Procs, Fresh(job'[q]), NEW i \in DOMAIN job'[q].made
        PROVE  ref'[job'[q].made[i]] = 1 /\ kind'[job'[q].made[i]] = "none"
    <3> DEFINE f == job[q].made[i]
    <3>1. q # p /\ job'[q] = job[q]
      BY <2>1, <1>4, <1>5 DEF Calm
    <3>2. ref[f] = 1 /\ kind[f] = "none" /\ i \in DOMAIN job[q].made
      BY <2>1, <3>1 DEF FilesInv, FreshFiles
    <3>3. f \in Files
      <4>1. job[q].made \in Seq(Files)
        BY <1>3 DEF Jobs
      <4>2. QED
        BY <4>1, <3>2
    <3>4. Uses(q, f) > 0
      BY <3>2, <3>3, Used
    <3>5. /\ Uses(p, f) + Uses(q, f) <= ref[f] /\ Uses(p, f) \in Nat /\ Uses(q, f) \in Nat
      BY <3>1, <3>3, UsesCounted DEF FilesInv
    <3> HIDE DEF f
    <3>6. Uses(p, f) = 0
      BY <3>2, <3>4, <3>5
    <3>7. ref'[f] = 1 /\ kind'[f] = "none"
      BY <3>2, <3>3, <3>6, <1>1, <1>6
    <3>8. QED
      BY <3>1, <3>7 DEF f
  <2>2. QED
    BY <2>1 DEF FreshFiles
<1>11. UsersHold'
  <2>1. \A q \in {p, c} : ~Reading(job'[q]) /\ ~Writing(job'[q])
    BY <1>2, <1>4, <1>5 DEF Calm
  <2>2. ASSUME NEW q \in Procs \ {p, c}, NEW end \in Ends, HoldsEnd(q, job[q].file, end)
        PROVE  HoldsEnd(q, job[q].file, end)' /\ job'[q] = job[q]
    <3>1. job'[q] = job[q] /\ ofile'[q] = ofile[q]
      BY <1>5
    <3>2. QED
      BY <2>2, <3>1, <1>1 DEF HoldsEnd
  <2>3. QED
    BY <2>1, <2>2, <1>5 DEF UsersHold, FilesInv, Ends
<1>12. QED
  BY <1>7, <1>8, <1>9, <1>10, <1>11 DEF FilesInv

\* The first of the closes that a process has to do.
LEMMA FirstClose ==
  ASSUME Shaped, FilesInv, NEW p \in Procs, Busy(p)
  PROVE  /\ job[p] \in Jobs /\ job[p].todo \in Seq(Items) /\ job[p].todo # <<>>
         /\ Todo(p) \in Items /\ Todo(p) = job[p].todo[1] /\ 1 \in DOMAIN job[p].todo
         /\ Todo(p).end = "none" => Todo(p).file \in Files /\ Todo(p) = CloseOf(Todo(p).file)
         /\ \A i \in DOMAIN Tail(job[p].todo) : Tail(job[p].todo)[i].end = "none"
         /\ Tail(job[p].todo) \in Seq(Items)
         /\ \A k, end : Closing(p, k, end) <=> Todo(p) = [file |-> k, end |-> end]
         /\ job[p].pc \in {"user", "exits"} /\ job[p].call # "open"
<1>1. /\ job[p] \in Jobs /\ JobFits(job[p]) /\ job[p].todo \in Seq(Items) /\ job[p].todo # <<>>
  BY DEF Shaped, ResTyped, Jobs, Busy
<1>2. Todo(p) \in Items
  BY <1>1, HeadTailProperties DEF Todo
<1>3. /\ Tail(job[p].todo) \in Seq(Items) /\ 1 \in DOMAIN job[p].todo /\ Todo(p) = job[p].todo[1]
      /\ \A i \in DOMAIN Tail(job[p].todo) :
           i + 1 \in DOMAIN job[p].todo /\ Tail(job[p].todo)[i] = job[p].todo[i + 1]
  BY <1>1, <1>2, RestFits DEF Todo
<1>4. \A i \in DOMAIN Tail(job[p].todo) : i + 1 # 1
  <2>1. DOMAIN Tail(job[p].todo) = 1..Len(Tail(job[p].todo)) /\ Len(Tail(job[p].todo)) \in Nat
    BY <1>3, LenProperties
  <2>2. QED
    BY <2>1
<1>5. \A i \in DOMAIN Tail(job[p].todo) : Tail(job[p].todo)[i].end = "none"
  BY <1>3, <1>4 DEF FilesInv, EndsExact
<1>6. job[p].pc \in {"user", "exits"} /\ job[p].call # "open"
  BY <1>1 DEF JobFits
<1>7. Todo(p).end = "none" => Todo(p).file \in Files
  BY <1>1, <1>3 DEF JobFits
<1>8. Todo(p).end = "none" => Todo(p) = CloseOf(Todo(p).file)
  BY <1>2 DEF CloseOf, Items
<1>9. \A k, end : Closing(p, k, end) <=> Todo(p) = [file |-> k, end |-> end]
  BY <1>1 DEF Closing, Todo
<1>10. QED
  BY <1>1, <1>2, <1>3, <1>5, <1>6, <1>7, <1>8, <1>9

\* No call that has only files to close is about to close an end.
LEMMA NotClosing ==
  ASSUME NEW s \in Seq(Items), \A i \in DOMAIN s : s[i].end = "none",
         NEW k \in Pipes, NEW end \in Ends
  PROVE  ~(s # <<>> /\ Head(s) = [file |-> k, end |-> end])
<1>1. s # <<>> => 1 \in DOMAIN s /\ Head(s) = s[1]
  BY LenProperties, EmptySeq
<1>2. "none" \notin Ends
  BY DEF Ends
<1>3. QED
  BY <1>1, <1>2

\* The counts, kinds and ends survive: fileclose().
LEMMA FileCloseFiles ==
  ASSUME Shaped, FilesInv, ResTyped', NEW p \in Procs, FileClose(p)
  PROVE  FilesInv'
<1> DEFINE f == Todo(p).file
           s == job[p].todo
           x == [file |-> pipe[f], end |-> kind[f]]
           moved == ref[f] = 1 /\ kind[f] \in Ends
           todo == IF moved THEN <<x>> \o Tail(s) ELSE Tail(s)
           j == [job[p] EXCEPT !.todo = todo]
<1>1. /\ Busy(p) /\ Todo(p).end = "none"
      /\ ref' = [ref EXCEPT ![f] = @ - 1]
      /\ kind' = IF ref[f] = 1 THEN [kind EXCEPT ![f] = "none"] ELSE kind
      /\ Goto(p, j) /\ UNCHANGED <<ofile, pipe, pipes>>
  BY DEF FileClose, Ends
<1>2. /\ job[p] \in Jobs /\ s \in Seq(Items) /\ s # <<>> /\ Todo(p) \in Items
      /\ f \in Files /\ Todo(p) = CloseOf(f)
      /\ (\A i \in DOMAIN Tail(s) : Tail(s)[i].end = "none") /\ Tail(s) \in Seq(Items)
      /\ (\A k, end : Closing(p, k, end) <=> Todo(p) = [file |-> k, end |-> end])
      /\ job[p].pc \in {"user", "exits"} /\ job[p].call # "open" /\ Todo(p) = Head(s)
      /\ 1 \in DOMAIN s /\ s[1] = CloseOf(f)
  BY <1>1, FirstClose DEF Todo
<1>3. /\ kind \in [Files -> Ends \cup {"none", "inode"}] /\ ref \in [Files -> Int]
      /\ ofile[p] \in [Fds -> Files \cup {0}] /\ job \in [Procs -> Jobs]
  BY DEF Shaped, ResTyped
<1>4. /\ moved => /\ x \in Items /\ x.end \in Ends /\ <<x>> \o Tail(s) \in Seq(Items)
                  /\ <<x>> \o Tail(s) # <<>> /\ Head(<<x>> \o Tail(s)) = x
                  /\ \A i \in DOMAIN (<<x>> \o Tail(s)) \ {1} : (<<x>> \o Tail(s))[i].end = "none"
  <2>1. ASSUME moved PROVE x \in Items /\ x.end \in Ends
    BY <2>1, <1>2 DEF Items, FilesInv, KindsExact
  <2>2. ASSUME moved PROVE /\ <<x>> \o Tail(s) \in Seq(Items)
                           /\ 1 \in DOMAIN (<<x>> \o Tail(s)) /\ (<<x>> \o Tail(s))[1] = x
                           /\ DOMAIN (<<x>> \o Tail(s)) = DOMAIN s
                           /\ \A i \in DOMAIN s : i # 1 => (<<x>> \o Tail(s))[i] = s[i]
    <3>1. x \in Items
      BY <2>1, <2>2
    <3> HIDE DEF x, s
    <3>2. QED
      BY <3>1, <1>2, RestFits
  <2>3. \A i \in DOMAIN s \ {1} : s[i].end = "none"
    BY DEF FilesInv, EndsExact
  <2>4. ASSUME moved PROVE <<x>> \o Tail(s) # <<>> /\ Head(<<x>> \o Tail(s)) = x
    <3> DEFINE t == <<x>> \o Tail(s)
    <3>1. t \in Seq(Items) /\ 1 \in DOMAIN t /\ t[1] = x
      BY <2>2, <2>4
    <3> HIDE DEF t
    <3>2. t # <<>> /\ Head(t) = x
      BY <3>1, LenProperties, EmptySeq
    <3>3. QED
      BY <3>2 DEF t
  <2>5. ASSUME moved
        PROVE  \A i \in DOMAIN (<<x>> \o Tail(s)) \ {1} : (<<x>> \o Tail(s))[i].end = "none"
    <3> DEFINE t == <<x>> \o Tail(s)
    <3>1. DOMAIN t = DOMAIN s /\ \A i \in DOMAIN s : i # 1 => t[i] = s[i]
      BY <2>2, <2>5
    <3> HIDE DEF t
    <3>2. \A i \in DOMAIN t \ {1} : t[i].end = "none"
      BY <3>1, <2>3
    <3>3. QED
      BY <3>2 DEF t
  <2>6. QED
    BY <2>1, <2>2, <2>4, <2>5
<1>5. todo \in Seq(Items) /\ \A i \in DOMAIN todo \ {1} : todo[i].end = "none"
  <2> HIDE DEF x, moved
  <2>1. QED
    BY <1>2, <1>4
<1>6. /\ j.todo = todo /\ j.made = job[p].made /\ j.pc = job[p].pc /\ j.call = job[p].call
  <2> HIDE DEF todo
  <2>1. QED
    BY <1>2, <1>5 DEF Jobs
<1> HIDE DEF j
<1>7. job'[p] = j /\ \A q \in Procs \ {p} : job'[q] = job[q]
  BY <1>1, <1>3 DEF Goto
<1>8. ASSUME NEW g \in Files
      PROVE  /\ ref'[g] = ref[g] - Is(f, g) /\ ref[g] \in Nat /\ Is(f, g) \in {0, 1}
             /\ Is(f, g) <= Held(ofile[p], job[p], g) /\ Held(ofile[p], job[p], g) <= ref[g]
             /\ Held(ofile[p], job[p], g) \in Nat
             /\ Held(ofile'[p], job'[p], g) = Held(ofile[p], job[p], g) - Is(f, g)
  <2>1. ref'[g] = ref[g] - Is(f, g) /\ Is(f, g) \in {0, 1}
    <3> HIDE DEF f
    <3>1. CASE g = f
      BY <3>1, <1>1, <1>2, <1>3 DEF Is
    <3>2. CASE g # f
      BY <3>2, <1>1, <1>2, <1>3 DEF Is
    <3>3. QED
      BY <3>1, <3>2
  <2>2. /\ Held(ofile[p], job[p], g) \in Nat /\ Held(ofile[p], job[p], g) <= ref[g]
        /\ ref[g] \in Nat
    BY UsesCounted DEF FilesInv
  <2>3. Is(f, g) <= Held(ofile[p], job[p], g)
    <3>1. CASE f = g
      <4>1. \E i \in DOMAIN job[p].todo : job[p].todo[i] = CloseOf(g)
        BY <1>2, <3>1
      <4>2. Uses(p, g) > 0
        BY <4>1, Used
      <4>3. Uses(p, g) = Held(ofile[p], job[p], g)
        BY UsesCounted DEF FilesInv
      <4>4. QED
        BY <4>2, <4>3, <2>1, <2>2
    <3>2. CASE f # g
      BY <3>2, <2>2 DEF Is
    <3>3. QED
      BY <3>1, <3>2
  <2>4. /\ Occurs(ofile[p], g) \in Nat /\ Occurs(s, CloseOf(g)) \in Nat
        /\ Occurs(job[p].made, g) \in Nat
    BY <1>2, <1>3, HeldType
  <2>5. Occurs(todo, CloseOf(g)) + Is(f, g) = Occurs(s, CloseOf(g)) /\ Occurs(todo, CloseOf(g)) \in Nat
    <3>1. Is(Head(s), CloseOf(g)) = Is(f, g)
      <4>1. Head(s) = CloseOf(f) /\ (CloseOf(f) = CloseOf(g) <=> f = g)
        BY <1>2 DEF CloseOf
      <4> HIDE DEF f, s
      <4>2. QED
        BY <4>1 DEF Is
    <3>2. Occurs(todo, CloseOf(g)) \in Nat
      BY <1>5, SeqFinite, OccursType
    <3> DEFINE e == CloseOf(g)
    <3>3. CASE ~moved
      <4>1. todo = Tail(s)
        BY <3>3
      <4> HIDE DEF todo, s, e
      <4>2. \A y \in Items : Occurs(Tail(s), e) + Is(Head(s), e) = Occurs(s, e)
        BY <1>2, OccursRest
      <4>3. Occurs(Tail(s), e) + Is(Head(s), e) = Occurs(s, e)
        BY <1>2, <4>2
      <4>4. QED
        BY <4>1, <4>3, <3>1, <3>2 DEF e
    <3>4. CASE moved
      <4>1. todo = <<x>> \o Tail(s) /\ x \in Items /\ x.end \in Ends
        BY <3>4, <1>4
      <4>2. Is(x, e) = 0
        BY <4>1 DEF Is, CloseOf, Ends
      <4> HIDE DEF todo, s, x, e
      <4>3. Occurs(<<x>> \o Tail(s), e) + Is(Head(s), e) = Occurs(s, e) + Is(x, e)
        BY <4>1, <1>2, OccursRest
      <4>4. Occurs(todo, e) + Is(Head(s), e) = Occurs(s, e)
        BY <4>1, <4>2, <4>3, <2>4 DEF e
      <4>5. QED
        BY <4>4, <3>1, <3>2 DEF e
    <3>5. QED
      BY <3>3, <3>4
  <2>6. Held(ofile'[p], job'[p], g) = Occurs(ofile[p], g) + Occurs(todo, CloseOf(g)) + Occurs(job[p].made, g)
    <3> HIDE DEF todo
    <3>1. QED
      BY <1>1, <1>6, <1>7 DEF Held
  <2>7. Held(ofile[p], job[p], g) = Occurs(ofile[p], g) + Occurs(s, CloseOf(g)) + Occurs(job[p].made, g)
    BY DEF Held
  <2> HIDE DEF todo, s, f
  <2>8. Held(ofile'[p], job'[p], g) = Held(ofile[p], job[p], g) - Is(f, g)
    BY <2>1, <2>4, <2>5, <2>6, <2>7
  <2>9. QED
    BY <2>1, <2>2, <2>3, <2>8
<1>9. /\ kind'[f] = (IF ref[f] = 1 THEN "none" ELSE kind[f])
      /\ \A g \in Files \ {f} : kind'[g] = kind[g] /\ ref'[g] = ref[g]
      /\ ref'[f] = ref[f] - 1 /\ ref[f] > 0 /\ ref[f] \in Nat
  <2>1. Is(f, f) = 1 /\ \A g \in Files \ {f} : Is(f, g) = 0
    BY DEF Is
  <2>a. f \in Files
    BY <1>2
  <2>b. /\ ref'[f] = ref[f] - Is(f, f) /\ ref[f] \in Nat /\ Held(ofile[p], job[p], f) \in Nat
        /\ Is(f, f) <= Held(ofile[p], job[p], f) /\ Held(ofile[p], job[p], f) <= ref[f]
    <3> HIDE DEF f
    <3>1. QED
      BY <2>a, <1>8
  <2>2. ref'[f] = ref[f] - 1 /\ ref[f] > 0 /\ ref[f] \in Nat
    <3> DEFINE h == Held(ofile[p], job[p], f)
    <3>1. Is(f, f) = 1 /\ h \in Nat /\ Is(f, f) <= h /\ h <= ref[f]
      BY <2>1, <2>b
    <3> HIDE DEF h, f
    <3>2. QED
      BY <3>1, <2>b
  <2>3. \A g \in Files \ {f} : ref'[g] = ref[g]
    BY <1>1, <1>3
  <2> HIDE DEF f
  <2>4. QED
    BY <2>2, <2>3, <1>1, <1>2, <1>3
<1> HIDE DEF f
<1>10. KindsExact'
  <2>1. ASSUME NEW g \in Files
        PROVE  (kind'[g] # "none" => ref'[g] > 0) /\ (kind'[g] \in Ends => pipe'[g] \in Pipes)
    <3>1. CASE g # f
      BY <3>1, <1>1, <1>9 DEF FilesInv, KindsExact
    <3>2. CASE g = f
      <4>1. kind'[f] # "none" => ref[f] # 1 /\ kind'[f] = kind[f]
        BY <1>9
      <4>2. kind'[f] # "none" => ref'[f] > 0
        BY <4>1, <1>9
      <4>3. "none" \notin Ends
        BY DEF Ends
      <4>4. QED
        BY <3>2, <4>1, <4>2, <4>3, <1>1, <1>2 DEF FilesInv, KindsExact
    <3>3. QED
      BY <3>1, <3>2
  <2>2. QED
    BY <2>1 DEF KindsExact
<1>11. EndsExact'
  <2>1. \A q \in Procs : \A i \in DOMAIN job'[q].todo \ {1} : job'[q].todo[i].end = "none"
    <3> HIDE DEF todo
    <3>1. QED
      BY <1>5, <1>6, <1>7 DEF FilesInv, EndsExact
  <2>2. ASSUME NEW k \in Pipes, NEW end \in Ends PROVE ~Closing(p, k, end)
    <3>1. Closing(p, k, end) => Todo(p) = [file |-> k, end |-> end]
      BY <1>2
    <3>2. Todo(p) = [file |-> k, end |-> end] => Todo(p).end = end
      OBVIOUS
    <3>3. QED
      BY <3>1, <3>2, <1>1 DEF Ends
  <2>3. CASE ~moved
    <3>1. ASSUME NEW k \in Pipes, NEW end \in Ends
          PROVE  /\ \A g \in Files : EndOf(g, k, end)' <=> EndOf(g, k, end)
                 /\ \A q \in Procs : Closing(q, k, end)' <=> Closing(q, k, end)
      <4>1. ~Closing(p, k, end)'
        <5>1. job'[p].todo = Tail(s)
          BY <1>6, <1>7, <2>3
        <5> DEFINE t == Tail(s)
        <5>2. t \in Seq(Items) /\ \A i \in DOMAIN t : t[i].end = "none"
          BY <1>2
        <5>3. job'[p].todo = t
          BY <5>1
        <5> HIDE DEF t, s
        <5>4. ~(t # <<>> /\ Head(t) = [file |-> k, end |-> end])
          BY <5>2, NotClosing
        <5>5. QED
          BY <5>3, <5>4 DEF Closing
      <4>2. \A q \in Procs : Closing(q, k, end)' <=> Closing(q, k, end)
        BY <4>1, <2>2, <1>7 DEF Closing
      <4>3. (kind'[f] = end) <=> (kind[f] = end)
        <5>1. CASE ref[f] = 1
          <6>1. kind[f] \notin Ends /\ kind'[f] = "none"
            BY <5>1, <2>3, <1>9
          <6>2. QED
            BY <6>1 DEF Ends
        <5>2. CASE ref[f] # 1
          BY <5>2, <1>9
        <5>3. QED
          BY <5>1, <5>2
      <4>4. ASSUME NEW g \in Files PROVE EndOf(g, k, end)' <=> EndOf(g, k, end)
        <5>1. (kind'[g] = end) <=> (kind[g] = end)
          BY <4>3, <1>9
        <5>2. pipe'[g] = pipe[g]
          BY <1>1
        <5>3. QED
          BY <5>1, <5>2 DEF EndOf
      <4>5. QED
        BY <4>2, <4>4
    <3>2. \A k \in Pipes : /\ pipes'[k].there = pipes[k].there
                           /\ pipes'[k].readopen = pipes[k].readopen
                           /\ pipes'[k].writeopen = pipes[k].writeopen
      BY <1>1
    <3>3. QED
      BY <2>1, <3>1, <3>2, EndsKept DEF FilesInv
  <2>4. CASE moved
    <3>1. kind'[f] = "none" /\ pipe[f] \in Pipes /\ kind[f] \in Ends
      BY <2>4, <1>2, <1>9 DEF FilesInv, KindsExact
    <3>2. \A k, end : Closing(p, k, end)' <=> (k = pipe[f] /\ end = kind[f])
      <4>1. job'[p].todo # <<>> /\ Head(job'[p].todo) = x
        <5> HIDE DEF x
        <5>1. QED
          BY <2>4, <1>4, <1>6, <1>7
      <4>2. QED
        BY <4>1 DEF Closing
    <3>3. \A q \in Procs \ {p} : \A k, end : Closing(q, k, end)' <=> Closing(q, k, end)
      BY <1>7 DEF Closing
    <3>4. \A g \in Files, k \in Pipes, end \in Ends : EndOf(g, k, end)' <=> EndOf(g, k, end) /\ g # f
      BY <3>1, <1>1, <1>9 DEF EndOf, Ends
    <3>5. \A k \in Pipes, end \in Ends : EndOf(f, k, end) <=> (k = pipe[f] /\ end = kind[f])
      BY DEF EndOf
    <3>6. ASSUME NEW k \in Pipes, NEW end \in Ends PROVE EndFits(k, end)'
      <4>1. EndFits(k, end)
        BY DEF FilesInv, EndsExact
      <4>2. IsOpen(k, end)' <=> IsOpen(k, end)
        BY <1>1 DEF IsOpen
      <4>3. CASE k = pipe[f] /\ end = kind[f]
        <5>1. EndOf(f, k, end) /\ f \in Files /\ IsOpen(k, end)
          BY <4>1, <4>3, <3>5, <1>2 DEF EndFits
        <5>2. \A g \in Files : ~EndOf(g, k, end)'
          BY <5>1, <4>1, <3>4 DEF EndFits
        <5>3. \A q \in Procs : Closing(q, k, end)' <=> q = p
          BY <5>1, <4>1, <4>3, <3>2, <3>3 DEF EndFits
        <5>4. QED
          BY <5>1, <5>2, <5>3, <4>2 DEF EndFits
      <4>4. CASE ~(k = pipe[f] /\ end = kind[f])
        <5>1. \A g \in Files : EndOf(g, k, end)' <=> EndOf(g, k, end)
          BY <4>4, <3>4, <3>5
        <5>2. \A q \in Procs : Closing(q, k, end)' <=> Closing(q, k, end)
          BY <4>4, <3>2, <3>3, <2>2
        <5>3. QED
          BY <5>1, <5>2, <4>1, <4>2 DEF EndFits
      <4>5. QED
        BY <4>3, <4>4
    <3>7. \A k \in Pipes : pipes'[k].there <=> pipes'[k].readopen \/ pipes'[k].writeopen
      BY <1>1 DEF FilesInv, EndsExact
    <3>8. QED
      BY <2>1, <3>6, <3>7 DEF EndsExact
  <2>5. QED
    BY <2>3, <2>4
<1>12. ASSUME NEW g \in Files
       PROVE  /\ ref'[g] + Held(ofile[p], job[p], g) = ref[g] + Held(ofile'[p], job'[p], g)
              /\ Held(ofile[p], job[p], g) = 0 /\ ref[g] > 0 => ref'[g] = ref[g]
              /\ kind'[g] # kind[g] => ref[g] = Held(ofile[p], job[p], g)
  <2> DEFINE h == Held(ofile[p], job[p], g)
             i == Is(f, g)
  <2>1. /\ ref'[g] = ref[g] - i /\ ref[g] \in Nat /\ i \in {0, 1} /\ i <= h /\ h <= ref[g]
        /\ h \in Nat /\ Held(ofile'[p], job'[p], g) = h - i
    BY <1>8
  <2>2. kind'[g] # kind[g] => i = 1 /\ ref[g] = 1
    BY <1>9 DEF Is
  <2> HIDE DEF h, i
  <2>3. /\ ref'[g] + h = ref[g] + Held(ofile'[p], job'[p], g)
        /\ h = 0 /\ ref[g] > 0 => ref'[g] = ref[g]
        /\ kind'[g] # kind[g] => ref[g] = h
    BY <2>1, <2>2
  <2>4. QED
    BY <2>3 DEF h
<1>13. ~Fresh(job'[p]) /\ ~Reading(job'[p]) /\ ~Writing(job'[p])
  BY <1>2, <1>6, <1>7 DEF Fresh, Reading, Writing
<1>14. \A q \in Procs \ {p} : job'[q] = job[q] /\ ofile'[q] = ofile[q]
  BY <1>1, <1>7
<1>15. QED
  BY <1>10, <1>11, <1>12, <1>13, <1>14, FileStep

\* The counts, kinds and ends survive: pipeclose().
LEMMA PipeCloseFiles ==
  ASSUME Shaped, FilesInv, Shaped', NEW p \in Procs, PipeClose(p)
  PROVE  FilesInv'
<1>1. /\ Busy(p) /\ Todo(p).end # "none" /\ UNCHANGED <<ofile, ref, kind, pipe>>
      /\ ResTyped /\ ResTyped'
  BY DEF PipeClose, files, Shaped
<1>2. /\ job[p] \in Jobs /\ job[p].todo \in Seq(Items) /\ job[p].todo # <<>>
      /\ Todo(p) \in Items /\ Todo(p) = Head(job[p].todo)
      /\ (\A i \in DOMAIN Tail(job[p].todo) : Tail(job[p].todo)[i].end = "none")
      /\ Tail(job[p].todo) \in Seq(Items)
      /\ (\A k, end : Closing(p, k, end) <=> Todo(p) = [file |-> k, end |-> end])
      /\ job[p].pc \in {"user", "exits"} /\ job[p].call # "open"
  BY <1>1, FirstClose DEF Todo
<1>3. PICK k0 \in Pipes, e \in Ends : Todo(p) = [file |-> k0, end |-> e]
  BY <1>1, <1>2 DEF Items
<1> DEFINE q == IF e = "write" THEN [pipes[k0] EXCEPT !.writeopen = FALSE]
                               ELSE [pipes[k0] EXCEPT !.readopen = FALSE]
           gone == ~q.readopen /\ ~q.writeopen
           j == [job[p] EXCEPT !.todo = Tail(@)]
           l == IF e = "write" THEN "nread" ELSE "nwrite"
<1>4. /\ pipes' = [pipes EXCEPT ![k0] = IF gone THEN NoPipe ELSE q]
      /\ Wakeup(p, j, k0, l)
  <2>1. Todo(p).file = k0 /\ Todo(p).end = e
    BY <1>3
  <2>2. QED
    BY <2>1 DEF PipeClose
<1>5. j \in Jobs /\ j.pc = job[p].pc /\ j.call = job[p].call /\ j.made = job[p].made /\ j.todo = Tail(job[p].todo)
  BY <1>2 DEF Jobs
<1> HIDE DEF j
<1>6. job'[p] = j /\ \A x \in Procs \ {p} : Alike(job[x], job'[x])
  <2>1. l \in {"nread", "nwrite"}
    OBVIOUS
  <2>2. job \in [Procs -> Jobs]
    BY <1>1 DEF ResTyped
  <2> HIDE DEF l
  <2>3. QED
    BY <2>1, <2>2, <1>4, <1>5, WakeupSteps
<1>7. \A x \in Procs \ {p} :
        /\ job'[x].todo = job[x].todo /\ job'[x].made = job[x].made /\ job'[x].file = job[x].file
        /\ (Fresh(job'[x]) <=> Fresh(job[x])) /\ (Reading(job'[x]) <=> Reading(job[x]))
        /\ (Writing(job'[x]) <=> Writing(job[x]))
  <2>1. \A x \in Procs : job[x] \in Jobs /\ JobFits(job[x])
    BY DEF Shaped, ResTyped
  <2>2. QED
    BY <2>1, <1>6, AlikeFits
<1>8. CountsExact'
  <2>1. ASSUME NEW f \in Files
        PROVE  ref'[f] + Held(ofile[p], job[p], f) = ref[f] + Held(ofile'[p], job'[p], f)
    <3> DEFINE s == job[p].todo
               c == CloseOf(f)
    <3>1. Is(Head(s), c) = 0
      BY <1>2, <1>3 DEF Is, CloseOf, Ends
    <3>2. \A x \in Items : Occurs(Tail(s), c) + Is(Head(s), c) = Occurs(s, c)
      <4> HIDE DEF s, c
      <4>1. s \in Seq(Items) /\ s # <<>>
        BY <1>2 DEF s
      <4>2. QED
        BY <4>1, OccursRest
    <3>3. Occurs(s, c) \in Nat /\ Occurs(Tail(s), c) \in Nat
      BY <1>2, SeqFinite, OccursType
    <3>4. Occurs(Tail(s), c) = Occurs(s, c)
      <4> HIDE DEF s, c
      <4>1. QED
        BY <3>1, <3>2, <3>3, <1>2 DEF s
    <3>5. Held(ofile'[p], job'[p], f) = Held(ofile[p], job[p], f)
      <4>1. ofile'[p] = ofile[p] /\ job'[p].todo = Tail(s) /\ job'[p].made = job[p].made
        BY <1>1, <1>5, <1>6
      <4>2. QED
        BY <4>1, <3>4 DEF Held
    <3>6. ref'[f] = ref[f]
      BY <1>1
    <3>7. QED
      BY <3>5, <3>6
  <2>2. \A x \in Procs \ {p} : ofile'[x] = ofile[x]
    BY <1>1
  <2>3. QED
    BY <2>1, <2>2, <1>1, <1>7, CountStep DEF FilesInv
<1>9. KindsExact'
  BY <1>1 DEF FilesInv, KindsExact
<1>10. EndFits(k0, e) /\ Closing(p, k0, e) /\ IsOpen(k0, e)
  <2>1. EndFits(k0, e)
    BY DEF FilesInv, EndsExact
  <2>2. Closing(p, k0, e)
    BY <1>2, <1>3
  <2>3. QED
    BY <2>1, <2>2 DEF EndFits
<1>11. /\ \A k \in Pipes \ {k0} : pipes'[k] = pipes[k]
       /\ pipes[k0] \in PipeRecords
       /\ pipes'[k0] = IF gone THEN NoPipe ELSE q
  <2>1. pipes \in [Pipes -> PipeRecords]
    BY <1>1 DEF ResTyped
  <2> HIDE DEF gone, q
  <2>2. QED
    BY <2>1, <1>4
<1>12. /\ e = "read" => ~pipes'[k0].readopen /\ pipes'[k0].writeopen = pipes[k0].writeopen
       /\ e = "write" => ~pipes'[k0].writeopen /\ pipes'[k0].readopen = pipes[k0].readopen
       /\ pipes'[k0].there <=> (pipes'[k0].readopen \/ pipes'[k0].writeopen)
  <2>1. pipes[k0].there
    BY <1>10 DEF IsOpen, FilesInv, EndsExact
  <2>2. /\ NoPipe.readopen = FALSE /\ NoPipe.writeopen = FALSE /\ NoPipe.there = FALSE
    BY DEF NoPipe
  <2>3. /\ e = "read" => /\ q.readopen = FALSE /\ q.writeopen = pipes[k0].writeopen
                         /\ q.there = pipes[k0].there
        /\ e = "write" => /\ q.writeopen = FALSE /\ q.readopen = pipes[k0].readopen
                          /\ q.there = pipes[k0].there
    BY <1>11 DEF PipeRecords
  <2>4. e \in {"read", "write"} /\ pipes[k0].writeopen \in BOOLEAN /\ pipes[k0].readopen \in BOOLEAN
    BY <1>11 DEF Ends, PipeRecords
  <2> HIDE DEF q
  <2>5. CASE gone
    BY <2>2, <2>3, <2>4, <2>5, <1>11
  <2>6. CASE ~gone
    BY <2>1, <2>3, <2>4, <2>6, <1>11
  <2>7. QED
    BY <2>5, <2>6
<1> HIDE DEF q, gone, l
<1>13. ASSUME NEW k \in Pipes, NEW end \in Ends
       PROVE  /\ IsOpen(k, end)' <=> IsOpen(k, end) /\ ~(k = k0 /\ end = e)
              /\ ~Closing(p, k, end)' /\ (Closing(p, k, end) <=> k = k0 /\ end = e)
              /\ \A x \in Procs \ {p} : Closing(x, k, end)' <=> Closing(x, k, end)
              /\ \A f \in Files : EndOf(f, k, end)' <=> EndOf(f, k, end)
  <2>1. IsOpen(k, end)' <=> IsOpen(k, end) /\ ~(k = k0 /\ end = e)
    <3>1. CASE k # k0
      BY <3>1, <1>11 DEF IsOpen
    <3>2. CASE k = k0
      <4>1. e \in {"read", "write"} /\ end \in {"read", "write"}
        BY DEF Ends
      <4>2. QED
        BY <3>2, <4>1, <1>12 DEF IsOpen
    <3>3. QED
      BY <3>1, <3>2
  <2>2. ~Closing(p, k, end)'
    <3> DEFINE t == Tail(job[p].todo)
    <3>1. t \in Seq(Items) /\ (\A i \in DOMAIN t : t[i].end = "none") /\ job'[p].todo = t
      BY <1>2, <1>5, <1>6
    <3> HIDE DEF t
    <3>2. ~(t # <<>> /\ Head(t) = [file |-> k, end |-> end])
      BY <3>1, NotClosing
    <3>3. QED
      BY <3>1, <3>2 DEF Closing
  <2>3. Closing(p, k, end) <=> k = k0 /\ end = e
    <3>1. [file |-> k, end |-> end] = [file |-> k0, end |-> e] <=> k = k0 /\ end = e
      OBVIOUS
    <3>2. QED
      BY <3>1, <1>2, <1>3
  <2>4. \A x \in Procs \ {p} : Closing(x, k, end)' <=> Closing(x, k, end)
    BY <1>7 DEF Closing
  <2>5. \A f \in Files : EndOf(f, k, end)' <=> EndOf(f, k, end)
    BY <1>1 DEF EndOf
  <2>6. QED
    BY <2>1, <2>2, <2>3, <2>4, <2>5
<1>14. ASSUME NEW k \in Pipes, NEW end \in Ends PROVE EndFits(k, end)'
  <2>1. EndFits(k, end)
    BY DEF FilesInv, EndsExact
  <2>2. CASE k = k0 /\ end = e
    <3>1. \A f \in Files : ~EndOf(f, k, end)
      BY <1>10, <2>2 DEF EndFits
    <3>2. \A x \in Procs \ {p} : ~Closing(x, k, end)
      BY <1>10, <2>2 DEF EndFits
    <3>3. ~IsOpen(k, end)' /\ (\A f \in Files : ~EndOf(f, k, end)') /\ \A x \in Procs : ~Closing(x, k, end)'
      BY <2>2, <3>1, <3>2, <1>13
    <3>4. QED
      BY <3>3 DEF EndFits
  <2>3. CASE ~(k = k0 /\ end = e)
    <3>1. /\ IsOpen(k, end)' <=> IsOpen(k, end)
          /\ \A x \in Procs : Closing(x, k, end)' <=> Closing(x, k, end)
          /\ \A f \in Files : EndOf(f, k, end)' <=> EndOf(f, k, end)
      BY <2>3, <1>13
    <3>2. QED
      BY <2>1, <3>1 DEF EndFits
  <2>4. QED
    BY <2>2, <2>3
<1>15. EndsExact'
  <2>1. \A k \in Pipes : pipes'[k].there <=> (pipes'[k].readopen \/ pipes'[k].writeopen)
    BY <1>11, <1>12 DEF FilesInv, EndsExact
  <2>2. ASSUME NEW x \in Procs, NEW i \in DOMAIN job'[x].todo \ {1} PROVE job'[x].todo[i].end = "none"
    <3>1. CASE x = p
      <4>1. job'[p].todo = Tail(job[p].todo)
        BY <1>5, <1>6
      <4>2. QED
        BY <4>1, <3>1, <1>2
    <3>2. CASE x # p
      BY <3>2, <1>7 DEF FilesInv, EndsExact
    <3>3. QED
      BY <3>1, <3>2
  <2>3. QED
    BY <2>1, <2>2, <1>14 DEF EndsExact
<1>16. ~Fresh(job'[p]) /\ ~Reading(job'[p]) /\ ~Writing(job'[p])
  BY <1>2, <1>5, <1>6 DEF Fresh, Reading, Writing
<1>17. FreshFiles'
  <2>1. \A x \in Procs : Fresh(job'[x]) => Fresh(job[x]) /\ job'[x].made = job[x].made
    BY <1>7, <1>16
  <2>2. QED
    BY <2>1, <1>1 DEF FilesInv, FreshFiles
<1>18. UsersHold'
  <2>1. \A x \in Procs : /\ Reading(job'[x]) => Reading(job[x]) /\ job'[x].file = job[x].file
                         /\ Writing(job'[x]) => Writing(job[x]) /\ job'[x].file = job[x].file
    BY <1>7, <1>16
  <2>2. QED
    BY <2>1, <1>1 DEF FilesInv, UsersHold, HoldsEnd
<1>19. QED
  BY <1>8, <1>9, <1>15, <1>17, <1>18 DEF FilesInv

\* The two files of a pipe under construction.
LEMMA MadePair ==
  ASSUME Shaped, FilesInv, NEW p \in Procs, Len(job[p].made) = 2
  PROVE  \E r, v \in Files : job[p].made = <<r, v>> /\ DOMAIN job[p].made = {1, 2}
<1>1. job[p].made \in Seq(Files)
  BY DEF Shaped, ResTyped, Jobs
<1> DEFINE s == job[p].made
<1>2. s \in Seq(Files) /\ Len(s) = 2
  BY <1>1
<1> HIDE DEF s
<1>3. s[1] \in Files /\ s[2] \in Files /\ s = <<s[1], s[2]>> /\ DOMAIN s = {1, 2}
  BY <1>2
<1>4. QED
  BY <1>3 DEF s

\* The counts, kinds and ends survive: pipealloc() takes its page.
LEMMA PipeBufferFiles ==
  ASSUME Shaped, FilesInv, ResTyped', NEW p \in Procs, PipeBuffer(p)
  PROVE  FilesInv'
<1>1. /\ job[p].pc = "buffer" /\ job[p].todo = <<>> /\ UNCHANGED <<ofile, ref>>
      /\ job[p] \in Jobs /\ JobFits(job[p])
  BY DEF PipeBuffer, At, Shaped, ResTyped
<1>2. PICK r, v \in Files : job[p].made = <<r, v>> /\ DOMAIN job[p].made = {1, 2}
  BY <1>1, MadePair DEF JobFits
<1>3. /\ job[p].made[1] = r /\ job[p].made[2] = v
      /\ ref[r] = 1 /\ ref[v] = 1 /\ kind[r] = "none" /\ kind[v] = "none"
  <2>1. job[p].made[1] = r /\ job[p].made[2] = v
    BY <1>2
  <2>2. Fresh(job[p])
    BY <1>1 DEF Fresh
  <2>3. QED
    BY <2>1, <2>2, <1>2 DEF FilesInv, FreshFiles
<1>4. \A f \in Files : Held(ofile[p], job[p], f) >= Is(r, f) + Is(v, f)
                       /\ Held(ofile[p], job[p], f) \in Nat /\ Held(ofile[p], job[p], f) <= ref[f]
                       /\ ref[f] \in Nat
  <2>1. ASSUME NEW f \in Files
        PROVE  /\ Held(ofile[p], job[p], f) >= Is(r, f) + Is(v, f)
               /\ Held(ofile[p], job[p], f) \in Nat /\ Held(ofile[p], job[p], f) <= ref[f]
               /\ ref[f] \in Nat
    <3>1. Occurs(job[p].made, f) = Is(r, f) + Is(v, f)
      <4>1. Occurs(<<r, v>>, f) = Is(r, f) + Is(v, f)
        BY OccursPair
      <4>2. QED
        BY <4>1, <1>2, Zenon
    <3>2. ofile[p] \in [Fds -> Files \cup {0}]
      BY DEF Shaped, ResTyped
    <3>3. /\ Occurs(ofile[p], f) \in Nat /\ Occurs(job[p].todo, CloseOf(f)) \in Nat
          /\ Occurs(job[p].made, f) \in Nat /\ Held(ofile[p], job[p], f) \in Nat
      BY <1>1, <3>2, HeldType
    <3>4. Held(ofile[p], job[p], f) >= Occurs(job[p].made, f)
      BY <3>3 DEF Held
    <3>5. ref[f] \in Nat /\ Held(ofile[p], job[p], f) <= ref[f]
      BY UsesCounted DEF FilesInv
    <3>6. QED
      BY <3>1, <3>3, <3>4, <3>5
  <2>2. QED
    BY <2>1
<1>5. r # v
  <2>1. Held(ofile[p], job[p], r) >= Is(r, r) + Is(v, r) /\ Held(ofile[p], job[p], r) <= 1
        /\ Held(ofile[p], job[p], r) \in Nat
    BY <1>3, <1>4
  <2>2. r = v => Is(r, r) = 1 /\ Is(v, r) = 1
    BY DEF Is
  <2>3. QED
    BY <2>1, <2>2
<1>6. CASE Goto(p, [User EXCEPT !.todo = Closes(job[p].made)]) /\ UNCHANGED <<free, kind, pipe, pipes>>
  BY <1>1, <1>6, FailFiles
<1> DEFINE j == [job[p] EXCEPT !.pc = "installs"]
<1>7. CASE /\ \E k \in Pipes :
                /\ ~pipes[k].there
                /\ pipes' = [pipes EXCEPT ![k] = NewPipe]
                /\ pipe' = [pipe EXCEPT ![r] = k, ![v] = k]
           /\ kind' = [kind EXCEPT ![r] = "read", ![v] = "write"]
           /\ Goto(p, j)
  <2>1. PICK k0 \in Pipes : /\ ~pipes[k0].there
                            /\ pipes' = [pipes EXCEPT ![k0] = NewPipe]
                            /\ pipe' = [pipe EXCEPT ![r] = k0, ![v] = k0]
    BY <1>7
  <2>2. /\ j.made = job[p].made /\ j.todo = job[p].todo /\ j.pc = "installs" /\ j.call # "open"
    BY <1>1 DEF Jobs, JobFits
  <2>3. job'[p] = j /\ \A q \in Procs \ {p} : job'[q] = job[q]
    BY <1>7 DEF Goto, Shaped, ResTyped
  <2> HIDE DEF j
  <2>4. /\ kind'[r] = "read" /\ kind'[v] = "write" /\ \A f \in Files \ {r, v} : kind'[f] = kind[f]
    BY <1>5, <1>7 DEF Shaped, ResTyped
  <2>5. /\ pipe'[r] = k0 /\ pipe'[v] = k0 /\ \A f \in Files \ {r, v} : pipe'[f] = pipe[f]
    BY <1>5, <2>1 DEF Shaped, ResTyped
  <2>6. /\ \A k \in Pipes \ {k0} : pipes'[k] = pipes[k]
        /\ pipes'[k0].there /\ pipes'[k0].readopen /\ pipes'[k0].writeopen
    <3>1. NewPipe.there /\ NewPipe.readopen /\ NewPipe.writeopen
      BY DEF NewPipe, NoPipe
    <3>2. pipes \in [Pipes -> PipeRecords]
      BY DEF Shaped, ResTyped
    <3>3. QED
      BY <2>1, <3>1, <3>2
  <2>7. \A q \in Procs, k \in Pipes, end \in Ends : Closing(q, k, end)' <=> Closing(q, k, end)
    <3>1. \A q \in Procs : job'[q].todo = job[q].todo
      BY <2>2, <2>3
    <3>2. QED
      BY <3>1 DEF Closing
  <2>8. \A k \in Pipes, end \in Ends : EndFits(k, end)
    BY DEF FilesInv, EndsExact
  <2>9. ASSUME NEW k \in Pipes, NEW end \in Ends PROVE EndFits(k, end)'
    <3>1. CASE k # k0
      <4>1. \A f \in Files : EndOf(f, k, end)' <=> EndOf(f, k, end)
        <5>1. ~EndOf(r, k, end)' /\ ~EndOf(v, k, end)'
          BY <3>1, <2>5 DEF EndOf
        <5>2. ~EndOf(r, k, end) /\ ~EndOf(v, k, end)
          BY <1>3 DEF EndOf, Ends
        <5>3. ASSUME NEW f \in Files \ {r, v} PROVE EndOf(f, k, end)' <=> EndOf(f, k, end)
          BY <2>4, <2>5 DEF EndOf
        <5>4. QED
          BY <5>1, <5>2, <5>3
      <4>2. IsOpen(k, end)' <=> IsOpen(k, end)
        BY <3>1, <2>6 DEF IsOpen
      <4>3. \A q \in Procs : Closing(q, k, end)' <=> Closing(q, k, end)
        BY <2>7
      <4>4. EndFits(k, end)
        BY <2>8
      <4>5. QED
        BY <4>1, <4>2, <4>3, <4>4 DEF EndFits
    <3>2. CASE k = k0
      <4>1. ~IsOpen(k, end)
        BY <2>1, <3>2 DEF IsOpen, FilesInv, EndsExact
      <4>2. (\A f \in Files : ~EndOf(f, k, end)) /\ \A q \in Procs : ~Closing(q, k, end)
        <5>1. EndFits(k, end)
          BY <2>8
        <5>2. QED
          BY <4>1, <5>1 DEF EndFits
      <4>3. \A q \in Procs : ~Closing(q, k, end)'
        BY <4>2, <2>7
      <4>4. IsOpen(k, end)'
        BY <3>2, <2>6 DEF IsOpen
      <4>5. PICK g \in Files : g = IF end = "read" THEN r ELSE v
        OBVIOUS
      <4>6. ASSUME NEW f \in Files PROVE EndOf(f, k, end)' <=> f = g
        <5>1. end \in {"read", "write"}
          BY DEF Ends
        <5>2. CASE f \in {r, v}
          BY <5>1, <5>2, <4>5, <3>2, <1>5, <2>4, <2>5 DEF EndOf
        <5>3. CASE f \notin {r, v}
          <6>1. ~EndOf(f, k, end)' /\ f # g
            BY <5>3, <4>2, <4>5, <2>4, <2>5 DEF EndOf
          <6>2. QED
            BY <6>1
        <5>4. QED
          BY <5>2, <5>3
      <4>7. QED
        BY <4>3, <4>4, <4>6 DEF EndFits
    <3>3. QED
      BY <3>1, <3>2
  <2>10. EndsExact'
    <3>1. \A k \in Pipes : pipes'[k].there <=> (pipes'[k].readopen \/ pipes'[k].writeopen)
      BY <2>6 DEF FilesInv, EndsExact
    <3>2. \A q \in Procs : \A i \in DOMAIN job'[q].todo \ {1} : job'[q].todo[i].end = "none"
      <4>1. \A q \in Procs : job'[q].todo = job[q].todo
        BY <2>2, <2>3
      <4>2. QED
        BY <4>1 DEF FilesInv, EndsExact
    <3>3. QED
      BY <2>9, <3>1, <3>2 DEF EndsExact
  <2>11. KindsExact'
    <3>1. ASSUME NEW f \in Files
          PROVE  (kind'[f] # "none" => ref'[f] > 0) /\ (kind'[f] \in Ends => pipe'[f] \in Pipes)
      <4>1. CASE f \in {r, v}
        BY <4>1, <1>1, <1>3, <2>5
      <4>2. CASE f \notin {r, v}
        BY <4>2, <1>1, <2>4, <2>5 DEF FilesInv, KindsExact
      <4>3. QED
        BY <4>1, <4>2
    <3>2. QED
      BY <3>1 DEF KindsExact
  <2>12. ASSUME NEW f \in Files
         PROVE  /\ ref'[f] + Held(ofile[p], job[p], f) = ref[f] + Held(ofile'[p], job'[p], f)
                /\ Held(ofile[p], job[p], f) = 0 /\ ref[f] > 0 => ref'[f] = ref[f]
                /\ kind'[f] # kind[f] => ref[f] = Held(ofile[p], job[p], f)
    <3>1. Held(ofile'[p], job'[p], f) = Held(ofile[p], job[p], f) /\ ref'[f] = ref[f]
      BY <1>1, <2>2, <2>3 DEF Held
    <3>2. ASSUME f \in {r, v} PROVE ref[f] = Held(ofile[p], job[p], f)
      <4>1. Is(r, f) + Is(v, f) >= 1
        BY <3>2 DEF Is
      <4>2. Is(r, f) \in Nat /\ Is(v, f) \in Nat
        BY DEF Is
      <4>3. ref[f] = 1
        BY <3>2, <1>3
      <4>4. QED
        BY <4>1, <4>2, <4>3, <1>4
    <3>3. QED
      BY <3>1, <3>2, <2>4
  <2>13. ~Fresh(job'[p]) /\ ~Reading(job'[p]) /\ ~Writing(job'[p])
    BY <2>2, <2>3 DEF Fresh, Reading, Writing
  <2>14. \A q \in Procs \ {p} : job'[q] = job[q] /\ ofile'[q] = ofile[q]
    BY <2>3, <1>1
  <2>15. QED
    BY <2>10, <2>11, <2>12, <2>13, <2>14, FileStep
<1>8. QED
  <2>1. \/ Goto(p, [User EXCEPT !.todo = Closes(job[p].made)]) /\ UNCHANGED <<free, kind, pipe, pipes>>
        \/ /\ \E k \in Pipes :
                /\ ~pipes[k].there
                /\ pipes' = [pipes EXCEPT ![k] = NewPipe]
                /\ pipe' = [pipe EXCEPT ![job[p].made[1]] = k, ![job[p].made[2]] = k]
           /\ kind' = [kind EXCEPT ![job[p].made[1]] = "read", ![job[p].made[2]] = "write"]
           /\ Goto(p, [job[p] EXCEPT !.pc = "installs"])
    BY DEF PipeBuffer
  <2>2. job[p].made[1] = r /\ job[p].made[2] = v
    BY <1>3
  <2>3. QED
    BY <2>1, <2>2, <1>6, <1>7

\* A file entered at a free descriptor.
LEMMA OccursEntered ==
  ASSUME NEW s, DOMAIN s = Fds, NEW t, DOMAIN t = Fds, NEW x \in Fds,
         \A y \in Fds \ {x} : t[y] = s[y], s[x] = 0, NEW f \in Files
  PROVE  Occurs(t, f) = Occurs(s, f) + Is(t[x], f)
<1>1. /\ IsFiniteSet(DOMAIN s) /\ DOMAIN t = DOMAIN s /\ x \in DOMAIN s
      /\ \A y \in DOMAIN s \ {x} : t[y] = s[y]
  BY Basics
<1>2. /\ Occurs(t, f) + Is(s[x], f) = Occurs(s, f) + Is(t[x], f)
      /\ Occurs(s, f) \in Nat /\ Occurs(t, f) \in Nat
  BY <1>1, OccursChange
<1>3. Is(s[x], f) = 0 /\ Is(t[x], f) \in Nat
  BY Basics DEF Is
<1>4. QED
  BY <1>2, <1>3

\* fdalloc() finds different free descriptors for the two ends of a pipe.
LEMMA FreeDescriptors ==
  ASSUME Shaped, NEW p \in Procs, NEW n \in {1, 2}, Cardinality(FreeFds(p)) >= n
  PROVE  /\ \A i \in 1..n : Nth(FreeFds(p), i) \in Fds /\ ofile[p][Nth(FreeFds(p), i)] = 0
         /\ n = 2 => Nth(FreeFds(p), 1) # Nth(FreeFds(p), 2)
<1> DEFINE S == FreeFds(p)
           c == Cardinality(S)
<1>1. S \subseteq Fds /\ \A x \in S : ofile[p][x] = 0
  BY DEF FreeFds
<1>2. S \in SUBSET Nat /\ IsFiniteSet(S)
  BY <1>1, Basics, FS_Subset
<1>3. c >= n
  OBVIOUS
<1> HIDE DEF S
<1>4. /\ c \in Nat /\ (\A i \in 1..c : Nth(S, i) \in S)
      /\ \A i, j \in 1..c : Nth(S, i) = Nth(S, j) => i = j
  BY <1>2, NthElement
<1> HIDE DEF c
<1>5. \A i \in 1..n : i \in 1..c
  BY <1>3, <1>4
<1>6. n = 2 => 1 \in 1..c /\ 2 \in 1..c
  BY <1>5
<1>7. (\A i \in 1..n : Nth(S, i) \in Fds /\ ofile[p][Nth(S, i)] = 0) /\ (n = 2 => Nth(S, 1) # Nth(S, 2))
  BY <1>1, <1>4, <1>5, <1>6
<1>8. QED
  BY <1>7 DEF S

\* The table with the files of a call entered.
Entered(p) ==
  [x \in Fds |->
     IF \E i \in DOMAIN job[p].made : x = Nth(FreeFds(p), i)
     THEN job[p].made[CHOOSE i \in DOMAIN job[p].made : x = Nth(FreeFds(p), i)]
     ELSE ofile[p][x]]

\* The files of a call that enters them move from the call to the descriptors.
LEMMA Installed ==
  ASSUME Shaped, FilesInv, NEW p \in Procs, job[p].pc = "installs",
         Cardinality(FreeFds(p)) >= Len(job[p].made), NEW f \in Files
  PROVE  Occurs(Entered(p), f) = Occurs(ofile[p], f) + Occurs(job[p].made, f)
<1>1. ofile[p] \in [Fds -> Files \cup {0}] /\ JobFits(job[p]) /\ job[p].made \in Seq(Files)
  BY DEF Shaped, ResTyped, Jobs
<1> DEFINE fs == job[p].made
           o == ofile[p]
           nth(i) == Nth(FreeFds(p), i)
           tab == Entered(p)
<1>2. /\ tab = [x \in Fds |-> IF \E i \in DOMAIN fs : x = nth(i)
                            THEN fs[CHOOSE i \in DOMAIN fs : x = nth(i)] ELSE o[x]]
      /\ o \in [Fds -> Files \cup {0}] /\ fs \in Seq(Files)
  BY <1>1 DEF Entered
<1> HIDE DEF tab
<1>3. CASE Len(job[p].made) = 1
  <2> DEFINE a == nth(1)
             g == fs[1]
  <2>1. nth(1) \in Fds /\ o[nth(1)] = 0
    BY <1>3, FreeDescriptors
  <2> HIDE DEF fs, o, nth
  <2>2. fs = <<g>> /\ DOMAIN fs = {1} /\ g \in Files
    BY <1>2, <1>3 DEF fs
  <2>3. a \in Fds /\ o[a] = 0
    BY <2>1
  <2> HIDE DEF a, g
  <2>4. DOMAIN tab = Fds /\ tab[a] = g /\ \A x \in Fds \ {a} : tab[x] = o[x]
    <3>1. tab[a] = g
      <4>1. (CHOOSE i \in DOMAIN fs : a = nth(i)) = 1
        BY <2>2 DEF a
      <4>2. \E i \in DOMAIN fs : a = nth(i)
        BY <2>2 DEF a
      <4>3. QED
        BY <4>1, <4>2, <1>2, <2>3 DEF g
    <3>2. ASSUME NEW x \in Fds \ {a} PROVE tab[x] = o[x]
      <4>1. ~\E i \in DOMAIN fs : x = nth(i)
        BY <3>2, <2>2 DEF a
      <4>2. QED
        BY <4>1, <1>2
    <3>3. DOMAIN tab = Fds
      BY <1>2
    <3>4. QED
      BY <3>1, <3>2, <3>3
  <2>5. Occurs(tab, f) = Occurs(o, f) + Is(g, f)
    <3>1. DOMAIN o = Fds
      BY <1>2
    <3>2. Occurs(tab, f) = Occurs(o, f) + Is(tab[a], f)
      BY <2>4, <3>1, <2>3, OccursEntered
    <3>3. QED
      BY <2>4, <3>2
  <2>6. Occurs(fs, f) = Is(g, f)
    <3>1. Occurs(<<g>>, f) = Is(g, f)
      BY OccursFew
    <3>2. QED
      BY <3>1, <2>2, Zenon
  <2>7. QED
    BY <2>5, <2>6 DEF fs, o, tab
<1>4. CASE Len(job[p].made) = 2
  <2> DEFINE a == nth(1)
             b == nth(2)
  <2>1. /\ nth(1) \in Fds /\ o[nth(1)] = 0 /\ nth(2) \in Fds /\ o[nth(2)] = 0
        /\ nth(1) # nth(2)
    <3>1. 1 \in 1..2 /\ 2 \in 1..2
      OBVIOUS
    <3>2. QED
      BY <3>1, <1>4, FreeDescriptors
  <2>2. PICK g, h \in Files : fs = <<g, h>> /\ DOMAIN fs = {1, 2}
    BY <1>4, MadePair
  <2>3. fs[1] = g /\ fs[2] = h
    BY <2>2
  <2> HIDE DEF fs, o, nth
  <2>4. a \in Fds /\ o[a] = 0 /\ b \in Fds /\ o[b] = 0 /\ a # b
    BY <2>1
  <2>5. a = nth(1) /\ b = nth(2)
    OBVIOUS
  <2> HIDE DEF a, b
  <2> DEFINE u == [o EXCEPT ![a] = g]
  <2>6. /\ u \in [Fds -> Files \cup {0}] /\ u[b] = 0 /\ u[a] = g
        /\ \A x \in Fds \ {a, b} : u[x] = o[x]
    BY <1>2, <2>4
  <2>14. DOMAIN u = Fds /\ DOMAIN o = Fds /\ \A x \in Fds \ {a} : u[x] = o[x]
    BY <1>2
  <2> HIDE DEF u
  <2>7. Occurs(u, f) = Occurs(o, f) + Is(g, f)
    <3>1. Occurs(u, f) = Occurs(o, f) + Is(u[a], f)
      BY <2>4, <2>14, OccursEntered
    <3>2. QED
      BY <3>1, <2>6
  <2>8. DOMAIN tab = Fds /\ tab[b] = h /\ \A x \in Fds \ {b} : tab[x] = u[x]
    <3>1. tab[a] = g
      <4>1. (CHOOSE i \in DOMAIN fs : a = nth(i)) = 1
        BY <2>2, <2>4, <2>5
      <4>2. \E i \in DOMAIN fs : a = nth(i)
        BY <2>2, <2>5
      <4>3. QED
        BY <4>1, <4>2, <1>2, <2>3, <2>4
    <3>2. tab[b] = h
      <4>1. (CHOOSE i \in DOMAIN fs : b = nth(i)) = 2
        BY <2>2, <2>4, <2>5
      <4>2. \E i \in DOMAIN fs : b = nth(i)
        BY <2>2, <2>5
      <4>3. QED
        BY <4>1, <4>2, <1>2, <2>3, <2>4
    <3>3. ASSUME NEW x \in Fds \ {a, b} PROVE tab[x] = o[x]
      <4>1. ~\E i \in DOMAIN fs : x = nth(i)
        BY <3>3, <2>2, <2>5
      <4>2. QED
        BY <4>1, <1>2
    <3>4. DOMAIN tab = Fds
      BY <1>2
    <3>5. QED
      BY <3>1, <3>2, <3>3, <3>4, <2>4, <2>6
  <2>9. Occurs(tab, f) = Occurs(u, f) + Is(h, f)
    <3>1. Occurs(tab, f) = Occurs(u, f) + Is(tab[b], f)
      <4>1. u[b] = 0
        BY <2>6
      <4>2. QED
        BY <2>4, <2>8, <2>14, <4>1, OccursEntered
    <3>2. QED
      BY <3>1, <2>8
  <2>10. Occurs(fs, f) = Is(g, f) + Is(h, f)
    <3>1. Occurs(<<g, h>>, f) = Is(g, f) + Is(h, f)
      BY OccursPair
    <3>2. QED
      BY <3>1, <2>2, Zenon
  <2>11. Occurs(o, f) \in Nat /\ Is(g, f) \in Nat /\ Is(h, f) \in Nat
    <3>1. IsFiniteSet(DOMAIN o)
      BY <1>2, Basics
    <3>2. QED
      BY <3>1, OccursType DEF Is
  <2>12. Occurs(tab, f) = Occurs(o, f) + Occurs(fs, f)
    BY <2>7, <2>9, <2>10, <2>11
  <2>13. QED
    BY <2>12 DEF o, fs, tab
<1>5. QED
  BY <1>1, <1>3, <1>4 DEF JobFits

\* The counts, kinds and ends survive: fdalloc() for the new files.
LEMMA InstallFiles ==
  ASSUME Shaped, FilesInv, ResTyped', NEW p \in Procs, Install(p)
  PROVE  FilesInv'
<1> DEFINE fs == job[p].made
<1>1. /\ job[p].pc = "installs" /\ job[p].todo = <<>> /\ UNCHANGED <<ref, pipe, pipes>>
      /\ \/ Goto(p, [User EXCEPT !.todo = Closes(job[p].made)]) /\ UNCHANGED <<ofile, kind>>
         \/ /\ Cardinality(FreeFds(p)) >= Len(fs)
            /\ ofile' = [ofile EXCEPT ![p] = Entered(p)]
            /\ kind' = IF job[p].call = "open" THEN [kind EXCEPT ![fs[1]] = "inode"] ELSE kind
            /\ Goto(p, User)
  BY DEF Install, At, Return, Entered
<1>2. /\ job[p] \in Jobs /\ JobFits(job[p]) /\ fs \in Seq(Files)
      /\ ofile \in [Procs -> [Fds -> Files \cup {0}]] /\ kind \in [Files -> Ends \cup {"none", "inode"}]
      /\ job \in [Procs -> Jobs]
  BY DEF Shaped, ResTyped, Jobs
<1>3. CASE Goto(p, [User EXCEPT !.todo = Closes(job[p].made)]) /\ UNCHANGED <<ofile, kind>>
  BY <1>1, <1>3, FailFiles
<1>4. CASE /\ Cardinality(FreeFds(p)) >= Len(fs)
           /\ ofile' = [ofile EXCEPT ![p] = Entered(p)]
           /\ kind' = IF job[p].call = "open" THEN [kind EXCEPT ![fs[1]] = "inode"] ELSE kind
           /\ Goto(p, User)
  <2>1. \A f \in Files : Occurs(Entered(p), f) = Occurs(ofile[p], f) + Occurs(fs, f)
    BY <1>1, <1>4, Installed
  <2>2. /\ ofile'[p] = Entered(p) /\ job'[p] = User
        /\ \A q \in Procs \ {p} : job'[q] = job[q] /\ ofile'[q] = ofile[q]
    BY <1>2, <1>4 DEF Goto
  <2>3. \A f \in Files : /\ Occurs(fs, f) \in Nat /\ Occurs(ofile[p], f) \in Nat
                         /\ Held(ofile[p], job[p], f) = Occurs(ofile[p], f) + Occurs(fs, f)
                         /\ Held(ofile'[p], job'[p], f) = Held(ofile[p], job[p], f)
    <3>1. ASSUME NEW f \in Files
          PROVE  /\ Occurs(fs, f) \in Nat /\ Occurs(ofile[p], f) \in Nat
                 /\ Held(ofile[p], job[p], f) = Occurs(ofile[p], f) + Occurs(fs, f)
                 /\ Held(ofile'[p], job'[p], f) = Held(ofile[p], job[p], f)
      <4>1. Occurs(fs, f) \in Nat /\ Occurs(ofile[p], f) \in Nat
        BY <1>2, HeldType
      <4>2. Occurs(job[p].todo, CloseOf(f)) = 0 /\ Occurs(User.todo, CloseOf(f)) = 0 /\ Occurs(User.made, f) = 0
        BY <1>1, OccursFew DEF User
      <4> HIDE DEF fs
      <4>3. Held(ofile[p], job[p], f) = Occurs(ofile[p], f) + Occurs(fs, f)
        BY <4>1, <4>2 DEF Held, fs
      <4>4. Held(Entered(p), User, f) = Occurs(Entered(p), f)
        BY <2>1, <4>1, <4>2 DEF Held
      <4>5. QED
        BY <4>1, <4>3, <4>4, <2>1, <2>2
    <3>2. QED
      BY <3>1
  <2>4. \A f \in Files : \/ kind'[f] = kind[f]
                         \/ /\ kind[f] = "none" /\ kind'[f] = "inode"
                            /\ ref[f] = 1 /\ Occurs(fs, f) >= 1
    <3>1. CASE job[p].call = "open"
      <4>1. 1 \in DOMAIN fs /\ fs[1] \in Files
        <5>1. Len(fs) = 1
          BY <1>1, <1>2, <3>1 DEF JobFits
        <5> DEFINE s == job[p].made
        <5>2. s \in Seq(Files) /\ Len(s) = 1
          BY <5>1, <1>2
        <5> HIDE DEF s
        <5>3. 1 \in DOMAIN s /\ s[1] \in Files
          BY <5>2
        <5>4. QED
          BY <5>3 DEF s
      <4>2. ref[fs[1]] = 1 /\ kind[fs[1]] = "none"
        BY <3>1, <4>1 DEF FilesInv, FreshFiles, Fresh
      <4>3. PICK g \in Files : g = fs[1]
        BY <4>1
      <4>4. Occurs(fs, g) >= 1
        <5>1. IsFiniteSet(DOMAIN fs)
          BY <1>2, SeqFinite
        <5>2. Occurs(fs, g) \in Nat /\ Occurs(fs, g) # 0
          BY <5>1, <4>1, <4>3, OccursType
        <5>3. QED
          BY <5>2
      <4>5. kind' = [kind EXCEPT ![g] = "inode"]
        BY <3>1, <1>4, <4>3
      <4>6. QED
        BY <4>2, <4>3, <4>4, <4>5, <1>2
    <3>2. CASE job[p].call # "open"
      BY <3>2, <1>4
    <3>3. QED
      BY <3>1, <3>2
  <2>5. KindsExact'
    BY <1>1, <2>4 DEF FilesInv, KindsExact, Ends
  <2>6. User.todo = <<>> /\ ~Fresh(User) /\ ~Reading(User) /\ ~Writing(User)
    BY DEF User, Fresh, Reading, Writing
  <2>7. EndsExact'
    <3>1. \A f \in Files : kind'[f] = kind[f] \/ (kind[f] = "none" /\ kind'[f] = "inode")
      BY <2>4
    <3>2. job'[p].todo = job[p].todo
      BY <1>1, <2>2, <2>6
    <3>3. UNCHANGED <<pipe, pipes>>
      BY <1>1
    <3>4. QED
      BY <2>2, <3>1, <3>2, <3>3, EndsSame
  <2>8. ASSUME NEW f \in Files
        PROVE  /\ ref'[f] + Held(ofile[p], job[p], f) = ref[f] + Held(ofile'[p], job'[p], f)
               /\ Held(ofile[p], job[p], f) = 0 /\ ref[f] > 0 => ref'[f] = ref[f]
               /\ kind'[f] # kind[f] => ref[f] = Held(ofile[p], job[p], f)
    <3>1. ref'[f] = ref[f]
      BY <1>1
    <3>2. ref[f] \in Nat /\ Held(ofile[p], job[p], f) \in Nat /\ Held(ofile[p], job[p], f) <= ref[f]
      BY UsesCounted DEF FilesInv
    <3>3. kind'[f] # kind[f] => ref[f] = 1 /\ Occurs(fs, f) >= 1
      BY <2>4
    <3> HIDE DEF fs
    <3>4. kind'[f] # kind[f] => ref[f] = Held(ofile[p], job[p], f)
      BY <3>2, <3>3, <2>3
    <3>5. QED
      BY <3>1, <3>4, <2>3
  <2>9. QED
    BY <2>2, <2>5, <2>6, <2>7, <2>8, FileStep
<1>5. QED
  BY <1>1, <1>3, <1>4

\* The counts, kinds and ends are exact when the system starts.
LEMMA InitFiles ==
  ASSUME ResInit
  PROVE  FilesInv
<1>1. PICK shared \in BOOLEAN :
        LET live == IF shared THEN {1, 2} ELSE {1}
        IN /\ ofile = [p \in Procs |-> [fd \in Fds |->
                        IF shared /\ p \in live /\ fd < 2 THEN fd + 1 ELSE 0]]
           /\ ref = [f \in Files |-> IF shared /\ f <= 2 THEN 2 ELSE 0]
           /\ kind = [f \in Files |->
                        IF shared /\ f <= 2 THEN IF f = 1 THEN "read" ELSE "write" ELSE "none"]
           /\ pipe = [f \in Files |-> IF shared /\ f <= 2 THEN 1 ELSE 0]
           /\ pipes = [k \in Pipes |-> IF shared /\ k = 1 THEN NewPipe ELSE NoPipe]
           /\ job = [p \in Procs |-> User]
  BY DEF ResInit
<1>2. \A p \in Procs, fd \in Fds :
        ofile[p][fd] = IF shared /\ p \in {1, 2} /\ fd < 2 THEN fd + 1 ELSE 0
  BY <1>1
<1>3. \A p \in Procs :
        /\ job[p].todo = <<>> /\ job[p].made = <<>> /\ ~Fresh(job[p])
        /\ ~Reading(job[p]) /\ ~Writing(job[p])
  BY <1>1 DEF User, Fresh, Reading, Writing
<1>4. ASSUME NEW p \in Procs, NEW f \in Files
      PROVE  Uses(p, f) = IF shared /\ p \in {1, 2} /\ f <= 2 THEN 1 ELSE 0
  <2> DEFINE S == {fd \in DOMAIN ofile[p] : ofile[p][fd] = f}
  <2>1. DOMAIN ofile[p] = Fds
    BY <1>1
  <2>2. Files \subseteq Nat \ {0}
    BY Basics
  <2>3. S = IF shared /\ p \in {1, 2} /\ f <= 2 THEN {f - 1} ELSE {}
    <3>1. \A fd \in Fds : fd \in Nat
      BY Basics
    <3>2. f <= 2 => f - 1 \in {0, 1} /\ f - 1 \in Fds
      BY <2>2, Basics
    <3>3. ASSUME NEW fd \in Fds
          PROVE  ofile[p][fd] = f <=> (shared /\ p \in {1, 2} /\ f <= 2 /\ fd = f - 1)
      <4>1. fd \in Nat /\ f \in Nat \ {0}
        BY <3>1, <2>2
      <4>2. CASE shared /\ p \in {1, 2} /\ fd < 2
        <5>1. ofile[p][fd] = fd + 1
          BY <4>2, <1>2
        <5>2. QED
          BY <5>1, <4>1, <4>2
      <4>3. CASE ~(shared /\ p \in {1, 2} /\ fd < 2)
        <5>1. ofile[p][fd] = 0
          BY <4>3, <1>2
        <5>2. QED
          BY <5>1, <4>1, <4>3
      <4>4. QED
        BY <4>2, <4>3
    <3>4. QED
      BY <2>1, <3>2, <3>3
  <2>4. Cardinality(S) = IF shared /\ p \in {1, 2} /\ f <= 2 THEN 1 ELSE 0
    BY <2>3, FS_Singleton, FS_EmptySet
  <2>5. Occurs(ofile[p], f) = Cardinality(S)
    BY DEF Occurs
  <2>6. Occurs(job[p].todo, CloseOf(f)) = 0 /\ Occurs(job[p].made, f) = 0
    BY <1>3, OccursFew
  <2> HIDE DEF S
  <2>7. QED
    BY <2>4, <2>5, <2>6 DEF Uses
<1>5. CountsExact
  <2> SUFFICES ASSUME NEW f \in Files
               PROVE  ref[f] = SumFunctionOnSet([p \in Procs |-> Uses(p, f)], Procs)
    BY DEF CountsExact
  <2> DEFINE u == [p \in Procs |-> Uses(p, f)]
             y == [p \in Procs |-> IF p = 1 THEN 1 ELSE 0]
             z == [p \in Procs |-> 0]
  <2>1. IsFiniteSet(Procs) /\ 1 \in Procs /\ 2 \in Procs
    BY Basics
  <2>2. ref[f] = IF shared /\ f <= 2 THEN 2 ELSE 0
    BY <1>1
  <2>3. CASE shared /\ f <= 2
    <3>1. \A p \in Procs : /\ u[p] = IF p \in {1, 2} THEN 1 ELSE 0
                           /\ y[p] = IF p = 1 THEN 1 ELSE 0
                           /\ z[p] = 0
      BY <2>3, <1>4
    <3> HIDE DEF u, y, z
    <3>2. SumFunctionOnSet(z, Procs) = 0
      BY <2>1, <3>1, SumType
    <3>3. SumFunctionOnSet(y, Procs) = SumFunctionOnSet(z, Procs) + (IF 1 \in Procs THEN y[1] - z[1] ELSE 0)
      <4>1. \A p \in Procs : z[p] \in Int /\ y[p] \in Int
        BY <3>1
      <4>2. \A p \in Procs \ {1} : y[p] = z[p]
        BY <3>1
      <4>3. QED
        BY <2>1, <4>1, <4>2, SumUpdate
    <3>4. SumFunctionOnSet(u, Procs) = SumFunctionOnSet(y, Procs) + (IF 2 \in Procs THEN u[2] - y[2] ELSE 0)
      <4>1. \A p \in Procs : u[p] \in Int /\ y[p] \in Int
        BY <3>1
      <4>2. \A p \in Procs \ {2} : u[p] = y[p]
        BY <3>1
      <4>3. QED
        BY <2>1, <4>1, <4>2, SumUpdate
    <3>5. SumFunctionOnSet(u, Procs) = 2
      BY <3>1, <3>2, <3>3, <3>4, <2>1
    <3>6. QED
      BY <2>2, <2>3, <3>5 DEF u
  <2>4. CASE ~(shared /\ f <= 2)
    <3>1. \A p \in Procs : u[p] = 0
      BY <2>4, <1>4
    <3> HIDE DEF u
    <3>2. \A p \in Procs : u[p] \in Int
      BY <3>1
    <3>3. SumFunctionOnSet(u, Procs) = 0
      BY <2>1, <3>1, <3>2, SumType
    <3>4. QED
      BY <2>2, <2>4, <3>3 DEF u
  <2>5. QED
    BY <2>3, <2>4
<1>6. KindsExact
  <2>1. 1 \in Pipes
    BY Basics
  <2>2. QED
    BY <1>1, <2>1 DEF KindsExact, Ends
<1>7. EndsExact
  <2>1. \A k \in Pipes : IF shared /\ k = 1
                         THEN pipes[k].there /\ pipes[k].readopen /\ pipes[k].writeopen
                         ELSE ~pipes[k].there /\ ~pipes[k].readopen /\ ~pipes[k].writeopen
    <3>1. NewPipe.there /\ NewPipe.readopen /\ NewPipe.writeopen
      BY DEF NewPipe, NoPipe
    <3>2. ~NoPipe.there /\ ~NoPipe.readopen /\ ~NoPipe.writeopen
      BY DEF NoPipe
    <3>3. QED
      BY <1>1, <3>1, <3>2
  <2>2. ASSUME NEW k \in Pipes, NEW end \in Ends PROVE EndFits(k, end)
    <3>1. (\A p \in Procs : ~Closing(p, k, end)) /\ (IsOpen(k, end) <=> shared /\ k = 1)
      BY <1>3, <2>1 DEF Closing, IsOpen
    <3>2. PICK g \in Files : g = (IF end = "read" THEN 1 ELSE 2)
      BY Basics
    <3>3. ASSUME NEW f \in Files PROVE EndOf(f, k, end) <=> (shared /\ k = 1 /\ f = g)
      <4>1. f \in Nat \ {0} /\ end \in {"read", "write"} /\ k # 0
        BY Basics DEF Ends
      <4>2. /\ kind[f] = IF shared /\ f <= 2 THEN IF f = 1 THEN "read" ELSE "write" ELSE "none"
            /\ pipe[f] = IF shared /\ f <= 2 THEN 1 ELSE 0
        BY <1>1
      <4>3. f <= 2 <=> f \in {1, 2}
        BY <4>1
      <4>4. QED
        BY <4>1, <4>2, <4>3, <3>2 DEF EndOf
    <3>4. QED
      BY <3>1, <3>3 DEF EndFits
  <2>3. \A k \in Pipes : pipes[k].there <=> (pipes[k].readopen \/ pipes[k].writeopen)
    BY <2>1
  <2>4. \A p \in Procs : \A i \in DOMAIN job[p].todo \ {1} : job[p].todo[i].end = "none"
    <3>1. DOMAIN <<>> = {}
      OBVIOUS
    <3>2. QED
      BY <1>3, <3>1
  <2>5. QED
    BY <2>2, <2>3, <2>4 DEF EndsExact
<1>8. FreshFiles /\ UsersHold
  BY <1>3 DEF FreshFiles, UsersHold
<1>9. QED
  BY <1>5, <1>6, <1>7, <1>8 DEF FilesInv

\* Every step keeps the counts, kinds and ends exact.
LEMMA StepFiles ==
  ASSUME Shaped, FilesInv, [ResNext]_resvars
  PROVE  Shaped' /\ FilesInv'
<1>1. CASE UNCHANGED resvars
  <2>1. UNCHANGED <<free, state, parent, killed, kstack, space, size, ofile, ref, kind, pipe,
                    pipes, job, calls, panicked>>
    BY <1>1 DEF resvars, procs, memory, files
  <2>2. ResTyped'
    BY <2>1 DEF Shaped, ResTyped
  <2>3. Shaped'
    BY <2>1, <2>2 DEF Shaped, EntryFits, CallFits, Missing, Target
  <2>4. \A p \in Procs : job'[p].todo = job[p].todo /\ job'[p].made = job[p].made
    BY <2>1
  <2>5. QED
    BY <2>1, <2>2, <2>3, <2>4, QuietStep DEF FilesInv, UsersHold, files
<1>2. CASE ResNext
  <2>1. PICK p \in Procs :
          \/ \E c \in Procs : Fork(p, c) \/ Kill(p, c) \/ Wait(p, c)
          \/ \E n \in 0..MaxSize : (n >= 2 /\ Exec(p, n)) \/ Grow(p, n) \/ Shrink(p, n)
          \/ Stack(p) \/ SetupKvm(p) \/ NextPage(p) \/ MapPage(p)
          \/ ForkDone(p) \/ ExecDone(p) \/ GrowDone(p)
          \/ Grep(p) \/ GrepDone(p)
          \/ \E call \in {"open", "pipe"} : Open(p, call)
          \/ SecondFile(p) \/ PipeBuffer(p) \/ Install(p)
          \/ FileClose(p) \/ PipeClose(p)
          \/ \E fd \in Fds : Dup(p, fd) \/ Close(p, fd) \/ \E n \in Sizes : Transfer(p, fd, n)
          \/ ReadTry(p) \/ WriteTry(p)
          \/ Exit(p) \/ Zombie(p)
    BY <1>2 DEF ResNext
  <2>2. (\A f \in Files : ref[f] \in Nat) /\ \A f \in Files : kind[f] \in Ends => pipe[f] \in Pipes
    BY UsesCounted DEF FilesInv, KindsExact
  <2>4. ASSUME NEW c \in Procs, Fork(p, c) \/ Kill(p, c) \/ Wait(p, c) PROVE Shaped' /\ FilesInv'
    <3>1. Shaped'
      BY <2>4, ForkShaped, KillShaped, WaitShaped
    <3>2. QED
      <4>1. 0 \in 0..MaxSize
        BY ResourcesAssumption DEF ResourcesAssumption
      <4>2. QED
        BY <2>4, <3>1, <4>1, MemoryFiles, KillFiles
  <2>5. ASSUME NEW n \in 0..MaxSize, Exec(p, n) \/ Grow(p, n) \/ Shrink(p, n) PROVE Shaped' /\ FilesInv'
    <3>1. Shaped'
      BY <2>5, ExecShaped, GrowShaped, ShrinkShaped
    <3>2. QED
      BY <2>5, <3>1, MemoryFiles
  <2>6. ASSUME \/ Stack(p) \/ SetupKvm(p) \/ NextPage(p) \/ MapPage(p) \/ ExecDone(p) \/ GrowDone(p)
               \/ Grep(p) \/ GrepDone(p) \/ Zombie(p)
        PROVE  Shaped' /\ FilesInv'
    <3>1. Shaped'
      BY <2>6, StackShaped, SetupKvmShaped, NextPageShaped, MapPageShaped, ExecDoneShaped, GrowDoneShaped,
         GrepShaped, GrepDoneShaped, ZombieShaped
    <3>2. QED
      <4>1. 0 \in 0..MaxSize
        BY ResourcesAssumption DEF ResourcesAssumption
      <4>2. QED
        BY <2>6, <3>1, <4>1, MemoryFiles
  <2>7. ASSUME ForkDone(p) PROVE Shaped' /\ FilesInv'
    BY <2>7, ForkDoneShaped, ForkDoneFiles
  <2>8. ASSUME NEW call \in {"open", "pipe"}, Open(p, call) PROVE Shaped' /\ FilesInv'
    <3>1. Shaped' /\ ResTyped'
      <4>1. Shaped'
        BY <2>2, <2>8, OpenShaped
      <4>2. QED
        BY <4>1 DEF Shaped
    <3>2. QED
      BY <2>8, <3>1, OpenFiles
  <2>9. ASSUME SecondFile(p) \/ PipeBuffer(p) \/ Install(p) PROVE Shaped' /\ FilesInv'
    <3>1. Shaped' /\ ResTyped'
      <4>1. Shaped'
        BY <2>2, <2>9, SecondFileShaped, PipeBufferShaped, InstallShaped
      <4>2. QED
        BY <4>1 DEF Shaped
    <3>2. QED
      BY <2>9, <3>1, SecondFileFiles, PipeBufferFiles, InstallFiles
  <2>10. ASSUME FileClose(p) \/ PipeClose(p) PROVE Shaped' /\ FilesInv'
    <3>1. Shaped' /\ ResTyped'
      <4>1. Shaped'
        BY <2>2, <2>10, FileCloseShaped, PipeCloseShaped
      <4>2. QED
        BY <4>1 DEF Shaped
    <3>2. QED
      BY <2>10, <3>1, FileCloseFiles, PipeCloseFiles
  <2>11. ASSUME NEW fd \in Fds, Dup(p, fd) \/ Close(p, fd) PROVE Shaped' /\ FilesInv'
    <3>1. Shaped' /\ ResTyped'
      <4>1. Shaped'
        BY <2>11, DupShaped, CloseShaped
      <4>2. QED
        BY <4>1 DEF Shaped
    <3>2. QED
      BY <2>11, <3>1, DupFiles, CloseFiles
  <2>12. ASSUME NEW fd \in Fds, NEW n \in Sizes, Transfer(p, fd, n) PROVE Shaped' /\ FilesInv'
    BY <2>12, TransferShaped, TransferFiles
  <2>13. ASSUME ReadTry(p) \/ WriteTry(p) PROVE Shaped' /\ FilesInv'
    <3>1. PipeOf(p) \in Pipes
      <4>1. Reading(job[p]) \/ Writing(job[p])
        BY <2>13 DEF ReadTry, WriteTry, At, Reading, Writing
      <4>2. QED
        BY <4>1, PipeHeld
    <3>2. Shaped'
      BY <2>13, <3>1, ReadTryShaped, WriteTryShaped
    <3>3. QED
      BY <2>13, <3>2, ReadTryFiles, WriteTryFiles
  <2>14. ASSUME Exit(p) PROVE Shaped' /\ FilesInv'
    <3>1. Shaped' /\ ResTyped'
      <4>1. Shaped'
        BY <2>14, ExitShaped
      <4>2. QED
        BY <4>1 DEF Shaped
    <3>2. QED
      BY <2>14, <3>1, ExitFiles
  <2>15. QED
    BY <2>1, <2>4, <2>5, <2>6, <2>7, <2>8, <2>9, <2>10, <2>11, <2>12, <2>13, <2>14
<1>3. QED
  BY <1>1, <1>2

\* The counts, kinds and ends are exact in every reachable state.
LEMMA FilesInvariant == ResSpec => [](Shaped /\ FilesInv)
<1>1. ResInit => Shaped /\ FilesInv
  BY InitShaped, InitFiles
<1>2. Shaped /\ FilesInv /\ [ResNext]_resvars => (Shaped /\ FilesInv)'
  BY StepFiles
<1>3. QED
  BY <1>1, <1>2, PTL DEF ResSpec

\* In every state a file's count is the number of its users, a file that is in use
\* has one, and an end of a pipe is open exactly as long as a file, or the call that
\* is closing it, needs it: fileclose() and pipeclose() never close an end that a
\* descriptor still reaches and never leave one open that none does.
THEOREM FilesCounted == ResSpec => []FilesExact
<1>1. Shaped /\ FilesInv => FilesExact
  <2> SUFFICES ASSUME Shaped, FilesInv PROVE FilesExact
    OBVIOUS
  <2>1. \A f \in Files : /\ ref[f] = SumFunctionOnSet([p \in Procs |-> Uses(p, f)], Procs)
                         /\ kind[f] # "none" => ref[f] > 0
    BY DEF FilesInv, CountsExact, KindsExact
  <2>2. ASSUME NEW k \in Pipes, NEW end \in {"read", "write"}
        PROVE  (IF end = "read" THEN pipes[k].readopen ELSE pipes[k].writeopen) <=>
                 \/ \E f \in Files : kind[f] = end /\ pipe[f] = k
                 \/ \E p \in Procs : \E i \in DOMAIN job[p].todo :
                      job[p].todo[i] = [file |-> k, end |-> end]
    <3>1. EndFits(k, end)
      BY DEF FilesInv, EndsExact, Ends
    <3>2. ASSUME NEW p \in Procs
          PROVE  Closing(p, k, end) <=> \E i \in DOMAIN job[p].todo : job[p].todo[i] = [file |-> k, end |-> end]
      <4> DEFINE s == job[p].todo
                 x == [file |-> k, end |-> end]
      <4>1. s \in Seq(Items) /\ x.end # "none" /\ \A i \in DOMAIN s \ {1} : s[i].end = "none"
        BY DEF Shaped, ResTyped, Jobs, FilesInv, EndsExact
      <4>2. Closing(p, k, end) <=> s # <<>> /\ Head(s) = x
        BY DEF Closing
      <4> HIDE DEF s, x
      <4>3. s # <<>> => Head(s) = s[1] /\ 1 \in DOMAIN s
        BY <4>1, LenProperties, EmptySeq
      <4>4. s = <<>> => DOMAIN s = {}
        OBVIOUS
      <4>5. Closing(p, k, end) <=> \E i \in DOMAIN s : s[i] = x
        BY <4>1, <4>2, <4>3, <4>4
      <4>6. QED
        BY <4>5 DEF s, x
    <3>3. QED
      BY <3>1, <3>2 DEF EndFits, IsOpen, EndOf
  <2>3. QED
    BY <2>1, <2>2 DEF FilesExact
<1>2. QED
  BY <1>1, FilesInvariant, PTL

-----------------------------------------------------------------------------
(* Pages: each is free or has one owner. *)

There == {k \in Pipes : pipes[k].there}
PagesCounted == NPages = free + SumFunctionOnSet([p \in Procs |-> Owned(p)], Procs) + Cardinality(There)

\* Once a copy has panicked nothing moves any more.
Broken == panicked => \E p \in Procs : state[p] = "live" /\ 0 \notin space[p].pages

\* What a process owns is a sum of numbers.
LEMMA OwnedParts ==
  ASSUME Shaped, NEW q \in Procs
  PROVE  /\ kstack[q] \in Nat /\ Pages(space[q]) \in Nat /\ Pages(job[q].new) \in Nat
         /\ job[q].mem \in Nat /\ Owned(q) \in Nat
         /\ Owned(q) = kstack[q] + Pages(space[q]) + Pages(job[q].new) + job[q].mem
<1>1. /\ kstack[q] \in {0, 1} /\ space[q] \in Spaces /\ job[q].new \in Spaces /\ job[q].mem \in Nat
  BY DEF Shaped, ResTyped, Jobs
<1>2. Pages(space[q]) \in Nat /\ Pages(job[q].new) \in Nat
  BY <1>1, PagesType
<1>3. QED
  BY <1>1, <1>2 DEF Owned

\* The same after the step.
LEMMA OwnedNext ==
  ASSUME Shaped', NEW q \in Procs
  PROVE  /\ kstack'[q] \in Nat /\ Pages(space'[q]) \in Nat /\ Pages(job'[q].new) \in Nat
         /\ job'[q].mem \in Nat /\ Owned(q)' \in Nat
         /\ Owned(q)' = kstack'[q] + Pages(space'[q]) + Pages(job'[q].new) + job'[q].mem
<1>1. /\ kstack'[q] \in {0, 1} /\ space'[q] \in Spaces /\ job'[q].new \in Spaces /\ job'[q].mem \in Nat
  BY DEF Shaped, ResTyped, Jobs
<1>2. Pages(space'[q]) \in Nat /\ Pages(job'[q].new) \in Nat
  BY <1>1, PagesType
<1>3. kstack'[q] \in Nat
  BY <1>1
<1>4. Owned(q)' = kstack'[q] + Pages(space'[q]) + Pages(job'[q].new) + job'[q].mem
  BY DEF Owned, Pages
<1>5. PICK a, b, c, d \in Nat : a = kstack'[q] /\ b = Pages(space'[q]) /\ c = Pages(job'[q].new) /\ d = job'[q].mem
  BY <1>1, <1>2, <1>3
<1>6. Owned(q)' = a + b + c + d
  BY <1>4, <1>5
<1>7. Owned(q)' \in Nat
  BY <1>6
<1>8. QED
  BY <1>1, <1>2, <1>3, <1>4, <1>7

\* The pipes that exist are finitely many.
LEMMA ThereType ==
  ASSUME Shaped
  PROVE  IsFiniteSet(There) /\ Cardinality(There) \in Nat /\ free \in Nat
<1>1. IsFiniteSet(There)
  BY Basics, FS_Subset DEF There
<1>2. QED
  BY <1>1, FS_CardinalityType DEF Shaped, ResTyped

\* The same after the step.
LEMMA ThereNext ==
  ASSUME Shaped'
  PROVE  Cardinality(There') \in Nat /\ free' \in Nat
<1>1. IsFiniteSet(There')
  BY Basics, FS_Subset DEF There
<1>2. QED
  BY <1>1, FS_CardinalityType DEF Shaped, ResTyped

\* Nothing of what q owns changes.
Keeps(q) == UNCHANGED <<kstack[q], space[q], job[q].new, job[q].mem>>

\* What the list of free pages gains, the owners of a step lose.
Balance(p) == free' + Owned(p)' + Cardinality(There') = free + Owned(p) + Cardinality(There)
Exchange(p, c) == free' + Owned(p)' + Owned(c)' = free + Owned(p) + Owned(c)

\* A step of p that moves pages between the free list, p and the pipes.
LEMMA OneOwner ==
  ASSUME Shaped, Shaped', PagesCounted, NEW p \in Procs,
         \A q \in Procs \ {p} : Keeps(q),
         Balance(p)
  PROVE  PagesCounted'
<1> DEFINE u == [q \in Procs |-> Owned(q)]
           v == [q \in Procs |-> Owned(q)']
<1>1. \A q \in Procs : u[q] \in Int /\ u[q] = Owned(q)
  BY OwnedParts
<1>2. \A q \in Procs : v[q] \in Int /\ v[q] = Owned(q)'
  BY OwnedNext
<1>3. \A q \in Procs \ {p} : v[q] = u[q]
  BY DEF Keeps, Owned
<1>4. NPages = free + SumFunctionOnSet(u, Procs) + Cardinality(There)
  BY DEF PagesCounted
<1>5. PagesCounted' <=> NPages = free' + SumFunctionOnSet(v, Procs) + Cardinality(There')
  BY DEF PagesCounted
<1>6. /\ Cardinality(There) \in Int /\ free \in Int
  BY ThereType
<1>7. Cardinality(There') \in Int /\ free' \in Int
  BY ThereNext
<1> HIDE DEF u, v
<1>8. SumFunctionOnSet(v, Procs) = SumFunctionOnSet(u, Procs) + (v[p] - u[p])
  BY <1>1, <1>2, <1>3, Basics, SumUpdate
<1>9. SumFunctionOnSet(u, Procs) \in Int
  BY <1>1, Basics, SumType
<1> DEFINE a == Owned(p)
           b == Owned(p)'
           t == Cardinality(There)
           r == Cardinality(There')
<1>10. a \in Int /\ b \in Int /\ u[p] = a /\ v[p] = b /\ free' + b + r = free + a + t /\ r \in Int /\ t \in Int
  BY <1>1, <1>2, <1>6, <1>7 DEF Balance
<1>11. NPages = free + SumFunctionOnSet(u, Procs) + t
  BY <1>4
<1>12. PICK x \in Int : x = free'
  BY <1>7
<1> HIDE DEF a, b, t, r
<1>15. x + b + r = free + a + t
  BY <1>10, <1>12
<1>16. SumFunctionOnSet(v, Procs) = SumFunctionOnSet(u, Procs) + (b - a)
  BY <1>8, <1>10
<1>17. a \in Int /\ b \in Int /\ r \in Int /\ t \in Int /\ free \in Int
  BY <1>6, <1>10
<1>13. NPages = x + SumFunctionOnSet(v, Procs) + r
  BY <1>9, <1>11, <1>15, <1>16, <1>17
<1>14. QED
  BY <1>5, <1>12, <1>13 DEF r

\* A step that moves pages between the free list and two processes.
LEMMA TwoOwners ==
  ASSUME Shaped, Shaped', PagesCounted, NEW p \in Procs, NEW c \in Procs, p # c,
         \A q \in Procs \ {p, c} : Keeps(q), There' = There,
         Exchange(p, c)
  PROVE  PagesCounted'
<1> DEFINE u == [q \in Procs |-> Owned(q)]
           v == [q \in Procs |-> Owned(q)']
           w == [q \in Procs |-> IF q = p THEN v[p] ELSE u[q]]
<1>1. \A q \in Procs : u[q] \in Int /\ u[q] = Owned(q)
  BY OwnedParts
<1>2. \A q \in Procs : v[q] \in Int /\ v[q] = Owned(q)'
  BY OwnedNext
<1>3. \A q \in Procs \ {p, c} : v[q] = u[q]
  BY DEF Keeps, Owned
<1>4. NPages = free + SumFunctionOnSet(u, Procs) + Cardinality(There)
  BY DEF PagesCounted
<1>5. PagesCounted' <=> NPages = free' + SumFunctionOnSet(v, Procs) + Cardinality(There)
  BY DEF PagesCounted
<1>6. /\ Cardinality(There) \in Int /\ free \in Int
  BY ThereType
<1>7. free' \in Int
  BY ThereNext
<1> HIDE DEF u, v
<1>8. /\ \A q \in Procs : w[q] \in Int
      /\ (\A q \in Procs \ {p} : w[q] = u[q]) /\ (\A q \in Procs \ {c} : v[q] = w[q])
      /\ w[p] = v[p] /\ w[c] = u[c]
  BY <1>1, <1>2, <1>3
<1> HIDE DEF w
<1>9. SumFunctionOnSet(w, Procs) = SumFunctionOnSet(u, Procs) + (v[p] - u[p])
  <2>1. SumFunctionOnSet(w, Procs) = SumFunctionOnSet(u, Procs) + (IF p \in Procs THEN w[p] - u[p] ELSE 0)
    BY <1>1, <1>8, Basics, SumUpdate
  <2>2. QED
    BY <2>1, <1>8
<1>10. SumFunctionOnSet(v, Procs) = SumFunctionOnSet(w, Procs) + (v[c] - u[c])
  <2>1. SumFunctionOnSet(v, Procs) = SumFunctionOnSet(w, Procs) + (IF c \in Procs THEN v[c] - w[c] ELSE 0)
    <3>1. \A q \in Procs : v[q] \in Int
      BY <1>2
    <3>2. (\A q \in Procs : w[q] \in Int) /\ \A q \in Procs \ {c} : v[q] = w[q]
      BY <1>8
    <3>3. IsFiniteSet(Procs)
      BY Basics
    <3>4. QED
      BY <3>1, <3>2, <3>3, SumUpdate
  <2>2. QED
    BY <2>1, <1>8
<1>11. SumFunctionOnSet(u, Procs) \in Int
  BY <1>1, Basics, SumType
<1> DEFINE a == Owned(p)
           b == Owned(p)'
           d == Owned(c)
           e == Owned(c)'
           t == Cardinality(There)
<1>12. /\ a \in Int /\ b \in Int /\ u[p] = a /\ v[p] = b /\ d \in Int /\ e \in Int /\ u[c] = d /\ v[c] = e
       /\ free' + b + e = free + a + d /\ t \in Int
  BY <1>1, <1>2, <1>6 DEF Exchange
<1>13. NPages = free + SumFunctionOnSet(u, Procs) + t
  BY <1>4
<1>14. PICK x \in Int : x = free'
  BY <1>7
<1> HIDE DEF a, b, d, e, t
<1>17. x + b + e = free + a + d
  BY <1>12, <1>14
<1>18. SumFunctionOnSet(v, Procs) = SumFunctionOnSet(u, Procs) + (b - a) + (e - d)
  BY <1>9, <1>10, <1>12
<1>19. a \in Int /\ b \in Int /\ d \in Int /\ e \in Int /\ t \in Int /\ free \in Int
  BY <1>6, <1>12
<1>15. NPages = x + SumFunctionOnSet(v, Procs) + t
  BY <1>11, <1>13, <1>17, <1>18, <1>19
<1>16. QED
  BY <1>5, <1>14, <1>15 DEF t

\* A step that moves no page.
LEMMA PagesKept ==
  ASSUME Shaped, Shaped', PagesCounted, \A q \in Procs : Keeps(q), UNCHANGED free,
         \A k \in Pipes : pipes'[k].there = pipes[k].there
  PROVE  PagesCounted'
<1>1. There' = There
  BY DEF There
<1>2. PICK p \in Procs : p = 1
  BY Basics
<1>3. Owned(p)' = Owned(p)
  BY DEF Keeps, Owned
<1>4. Balance(p)
  BY <1>1, <1>3 DEF Balance
<1>5. QED
  BY <1>4, OneOwner

\* A call that holds no page.
Bare(j) == j.new = NoSpace /\ j.mem = 0

\* A process at a place where its call holds no page is bare.
LEMMA BareAt ==
  ASSUME NEW j, JobFits(j), \/ j.pc \notin {"table", "page", "map", "searches"}
                            \/ j.call = "sbrk" /\ j.pc = "page"
  PROVE  Bare(j)
  BY DEF JobFits, Bare

\* The step of a call that holds no page before or after.
LEMMA BareStep ==
  ASSUME Shaped, Shaped', PagesCounted, UNCHANGED <<free, kstack, space>>, NEW p \in Procs,
         \A k \in Pipes : pipes'[k].there = pipes[k].there,
         \A q \in Procs \ {p} : Alike(job[q], job'[q]), Bare(job[p]), Bare(job'[p])
  PROVE  PagesCounted'
<1>1. ASSUME NEW q \in Procs PROVE Keeps(q)
  <2>1. CASE q = p
    BY <2>1 DEF Keeps, Bare
  <2>2. CASE q # p
    <3>1. job[q] \in Jobs /\ JobFits(job[q]) /\ Alike(job[q], job'[q])
      BY <2>2 DEF Shaped, ResTyped
    <3>2. job'[q].new = job[q].new /\ job'[q].mem = job[q].mem
      BY <3>1, AlikeFits
    <3>3. QED
      BY <3>2 DEF Keeps
  <2>3. QED
    BY <2>1, <2>2
<1>2. QED
  BY <1>1, PagesKept

\* A bare process goes to another place where it is bare.
LEMMA GotoPages ==
  ASSUME Shaped, Shaped', PagesCounted, UNCHANGED <<free, kstack, space, pipes>>, NEW p \in Procs,
         NEW j, Goto(p, j), Bare(j), Bare(job[p])
  PROVE  PagesCounted'
<1>1. job'[p] = j /\ \A q \in Procs \ {p} : job'[q] = job[q]
  BY DEF Goto, Shaped, ResTyped
<1>2. Bare(job'[p]) /\ \A q \in Procs \ {p} : Alike(job[q], job'[q])
  BY <1>1 DEF Alike
<1>3. \A k \in Pipes : pipes'[k].there = pipes[k].there
  OBVIOUS
<1>4. QED
  BY <1>2, <1>3, BareStep

\* Where the call of a process holds no page.
LEMMA BareUser ==
  ASSUME Shaped, NEW p \in Procs
  PROVE  /\ job[p].pc \notin {"table", "page", "map", "searches"} => Bare(job[p])
         /\ job[p].call = "sbrk" /\ job[p].pc = "page" => Bare(job[p])
         /\ Bare(User) /\ job[p] \in Jobs /\ job \in [Procs -> Jobs]
<1>1. JobFits(job[p]) /\ job[p] \in Jobs /\ job \in [Procs -> Jobs]
  BY DEF Shaped, ResTyped
<1>2. Bare(User)
  BY DEF Bare, User
<1>3. QED
  BY <1>1, <1>2, BareAt

\* The calls that take and give back no page.
LEMMA BarePages ==
  ASSUME Shaped, PagesCounted, Shaped', NEW p \in Procs, NEW c \in Procs, NEW n, NEW fd \in Fds, NEW call,
         \/ Fork(p, c) \/ Exec(p, n) \/ Grow(p, n) \/ GrowDone(p) \/ Open(p, call) \/ SecondFile(p)
         \/ Install(p) \/ FileClose(p) \/ Dup(p, fd) \/ Close(p, fd) \/ Transfer(p, fd, n)
         \/ Kill(p, c) \/ Exit(p) \/ Zombie(p)
  PROVE  PagesCounted'
<1>1. /\ job[p].pc \notin {"table", "page", "map", "searches"} => Bare(job[p])
      /\ job[p].call = "sbrk" /\ job[p].pc = "page" => Bare(job[p])
      /\ Bare(User) /\ job[p] \in Jobs /\ job \in [Procs -> Jobs]
  BY BareUser
<1>2. CASE Fork(p, c) \/ Exec(p, n) \/ Grow(p, n) \/ Open(p, call) \/ Close(p, fd) \/ Transfer(p, fd, n)
           \/ Exit(p)
  <2>1. At(p, "user") /\ UNCHANGED <<free, kstack, space, pipes>> /\ \E j : Goto(p, j) /\ Bare(j)
    <3>1. CASE Fork(p, c)
      <4>1. Bare([User EXCEPT !.call = "fork", !.pc = "stack", !.child = c, !.goal = size[p]])
        BY DEF Bare, User
      <4>2. QED
        BY <3>1, <4>1 DEF Fork, Call, memory
    <3>2. CASE Exec(p, n)
      <4>1. Bare([User EXCEPT !.call = "exec", !.pc = "table", !.goal = n])
        BY DEF Bare, User
      <4>2. QED
        BY <3>2, <4>1 DEF Exec, Call, memory
    <3>3. CASE Grow(p, n)
      <4>1. Bare([User EXCEPT !.call = "sbrk", !.pc = "page", !.goal = n])
        BY DEF Bare, User
      <4>2. QED
        BY <3>3, <4>1 DEF Grow, Call, memory
    <3>4. CASE Open(p, call)
      <4> DEFINE j == [User EXCEPT !.call = call, !.pc = IF call = "open" THEN "installs" ELSE "second",
                                   !.made = <<NewFile>>]
      <4>1. Bare(j)
        BY DEF Bare, User
      <4>2. Goto(p, j)
        BY <3>4 DEF Open
      <4> HIDE DEF j
      <4>3. QED
        BY <3>4, <4>1, <4>2 DEF Open, Call, memory
    <3>5. CASE Close(p, fd)
      <4> DEFINE j == [User EXCEPT !.todo = <<CloseOf(ofile[p][fd])>>]
      <4>1. Bare(j)
        BY DEF Bare, User
      <4>2. Goto(p, j)
        BY <3>5 DEF Close
      <4> HIDE DEF j
      <4>3. QED
        BY <3>5, <4>1, <4>2 DEF Close, Call, memory
    <3>6. CASE Transfer(p, fd, n)
      <4> DEFINE j == [User EXCEPT !.pc = IF kind[ofile[p][fd]] = "read" THEN "reads" ELSE "writes",
                                   !.file = ofile[p][fd], !.n = n]
      <4>1. Bare(j)
        BY DEF Bare, User
      <4>2. Goto(p, j)
        BY <3>6 DEF Transfer
      <4> HIDE DEF j
      <4>3. QED
        BY <3>6, <4>1, <4>2 DEF Transfer, Call, memory
    <3>7. CASE Exit(p)
      <4>1. PICK t : Goto(p, [User EXCEPT !.pc = "exits", !.todo = t])
        BY <3>7 DEF Exit
      <4>2. Bare([User EXCEPT !.pc = "exits", !.todo = t])
        BY DEF Bare, User
      <4>3. QED
        BY <3>7, <4>1, <4>2 DEF Exit, memory
    <3>8. QED
      BY <1>2, <3>1, <3>2, <3>3, <3>4, <3>5, <3>6, <3>7
  <2>2. Bare(job[p])
    BY <1>1, <2>1 DEF At
  <2>3. QED
    BY <2>1, <2>2, GotoPages
<1>3. CASE SecondFile(p) \/ Install(p)
  <2>1. Bare(job[p]) /\ UNCHANGED <<free, kstack, space, pipes>>
    BY <1>1, <1>3 DEF SecondFile, Install, At, memory
  <2>2. \A t : Bare([User EXCEPT !.todo = t])
    BY DEF Bare, User
  <2>3. \A s : Bare([job[p] EXCEPT !.pc = "buffer", !.made = s])
    BY <1>1, <2>1 DEF Bare, Jobs
  <2>4. \E j : Goto(p, j) /\ Bare(j)
    <3>1. CASE SecondFile(p)
      BY <3>1, <2>2, <2>3 DEF SecondFile
    <3>2. CASE Install(p)
      <4>1. Goto(p, User) \/ \E t : Goto(p, [User EXCEPT !.todo = t])
        BY <3>2 DEF Install, Return
      <4>2. QED
        BY <4>1, <2>2, <1>1
    <3>3. QED
      BY <1>3, <3>1, <3>2
  <2>5. QED
    BY <2>1, <2>4, GotoPages
<1>4. CASE FileClose(p)
  <2>1. PICK t : Goto(p, [job[p] EXCEPT !.todo = t])
    BY <1>4 DEF FileClose
  <2>2. job[p].todo # <<>> /\ UNCHANGED <<free, kstack, space, pipes>>
    BY <1>4 DEF FileClose, Busy, memory
  <2>3. Bare(job[p])
    BY <1>1, <2>2 DEF Shaped, JobFits
  <2>4. Bare([job[p] EXCEPT !.todo = t])
    BY <1>1, <2>3 DEF Bare, Jobs
  <2>5. QED
    BY <2>1, <2>2, <2>3, <2>4, GotoPages
<1>5. CASE GrowDone(p) \/ Zombie(p)
  <2>1. Bare(job[p]) /\ UNCHANGED <<free, kstack, space, pipes>> /\ Goto(p, User)
    BY <1>1, <1>5 DEF GrowDone, Zombie, At, memory, Return
  <2>2. QED
    BY <1>1, <2>1, GotoPages
<1>6. CASE Dup(p, fd) \/ Kill(p, c)
  <2>1. UNCHANGED <<free, kstack, space, pipes>>
    BY <1>6 DEF Dup, Kill, memory
  <2>2. ASSUME NEW q \in Procs PROVE job'[q].new = job[q].new /\ job'[q].mem = job[q].mem
    <3>1. \/ job'[q] = job[q]
          \/ \E l : job'[q] = [job[q] EXCEPT !.pc = l]
      <4>1. CASE Dup(p, fd)
        BY <4>1 DEF Dup
      <4>2. CASE Kill(p, c)
        <5>1. PICK l : job' = [job EXCEPT ![c] = [job[c] EXCEPT !.pc = l]]
          BY <4>2 DEF Kill
        <5>2. QED
          BY <5>1, <1>1
      <4>3. QED
        BY <1>6, <4>1, <4>2
    <3>2. job[q] \in Jobs
      BY <1>1
    <3>3. QED
      BY <3>1, <3>2 DEF Jobs
  <2>3. (\A q \in Procs : Keeps(q)) /\ \A k \in Pipes : pipes'[k].there = pipes[k].there
    BY <2>1, <2>2 DEF Keeps
  <2>4. QED
    BY <2>1, <2>3, PagesKept
<1>7. QED
  BY <1>2, <1>3, <1>4, <1>5, <1>6

\* The count of pages survives: piperead().
LEMMA ReadTryPages ==
  ASSUME Shaped, FilesInv, PagesCounted, Shaped', NEW p \in Procs, ReadTry(p)
  PROVE  PagesCounted'
<1> DEFINE k == pipe[job[p].file]
           j == [job[p] EXCEPT !.pc = "nread"]
           m == Min({job[p].n, Count(pipes[k])})
           after == [pipes[k] EXCEPT !.nread = (@ + m) % CounterSize]
<1>1. /\ job[p].pc = "reads" /\ UNCHANGED <<free, memory>>
      /\ \/ Goto(p, User) /\ UNCHANGED pipes
         \/ Goto(p, j) /\ UNCHANGED pipes
         \/ pipes' = [pipes EXCEPT ![k] = after] /\ Wakeup(p, User, k, "nwrite")
  BY DEF ReadTry, At, Return
<1>2. Bare(User) /\ job[p] \in Jobs /\ Bare(job[p]) /\ User \in Jobs
  BY <1>1, BareUser, UserFits
<1>3. k \in Pipes /\ pipes \in [Pipes -> PipeRecords]
  BY <1>1, PipeHeld DEF Reading, PipeOf, Shaped, ResTyped
<1>4. j \in Jobs /\ Bare(j)
  BY <1>2 DEF Jobs, Bare
<1>5. after.there = pipes[k].there
  BY <1>3 DEF PipeRecords
<1> HIDE DEF j, after, k
<1>6. (\A q \in Procs \ {p} : Alike(job[q], job'[q])) /\ job'[p] \in {User, j}
  BY <1>1, <1>2, <1>4, GotoSteps, WakeupSteps
<1>7. \A x \in Pipes : pipes'[x].there = pipes[x].there
  BY <1>1, <1>3, <1>5
<1>8. QED
  BY <1>1, <1>2, <1>4, <1>6, <1>7, BareStep DEF memory

\* The count of pages survives: pipewrite().
LEMMA WriteTryPages ==
  ASSUME Shaped, FilesInv, PagesCounted, Shaped', NEW p \in Procs, WriteTry(p)
  PROVE  PagesCounted'
<1> DEFINE k == pipe[job[p].file]
           m == Min({job[p].n, Room(pipes[k])})
           left == job[p].n - m
           j == [job[p] EXCEPT !.pc = "nwrite", !.n = left]
<1>1. /\ job[p].pc = "writes" /\ UNCHANGED <<free, memory>>
      /\ pipes' = [pipes EXCEPT ![k] = PipePut(pipes[k], m)]
      /\ \/ Wakeup(p, User, k, "nread")
         \/ Wakeup(p, j, k, "nread")
         \/ job' = [x \in Procs |->
              IF x = p THEN User
              ELSE IF m > 0 /\ Sleeps(x, k, "nread")
                   THEN [job[x] EXCEPT !.missed = TRUE] ELSE job[x]]
  BY DEF WriteTry, At
<1>2. Bare(User) /\ job[p] \in Jobs /\ Bare(job[p]) /\ job \in [Procs -> Jobs]
  BY <1>1, BareUser
<1>3. k \in Pipes /\ pipes \in [Pipes -> PipeRecords]
  BY <1>1, PipeHeld DEF Writing, PipeOf, Shaped, ResTyped
<1>4. Bare(j)
  BY <1>2 DEF Jobs, Bare
<1>5. PipePut(pipes[k], m).there = pipes[k].there
  BY <1>3 DEF PipePut, PipeRecords
<1> HIDE DEF j, k, m
<1>6. \A x \in Pipes : pipes'[x].there = pipes[x].there
  BY <1>1, <1>3, <1>5
<1>7. ASSUME NEW q \in Procs PROVE Keeps(q)
  <2>1. UNCHANGED <<kstack[q], space[q]>>
    BY <1>1 DEF memory
  <2>2. job'[q].new = job[q].new /\ job'[q].mem = job[q].mem
    <3>1. CASE q = p
      <4>1. job'[q] \in {User, j}
        BY <3>1, <1>1 DEF Wakeup
      <4>2. QED
        BY <4>1, <3>1, <1>2, <1>4 DEF Bare
    <3>2. CASE q # p
      <4>1. \/ job'[q] = job[q]
            \/ \E l, b : job'[q] = [job[q] EXCEPT !.pc = l, !.missed = b]
            \/ job'[q] = [job[q] EXCEPT !.missed = TRUE]
        <5>1. CASE Wakeup(p, User, k, "nread")
          <6>1. \/ job'[q] = job[q]
                \/ job'[q] = [job[q] EXCEPT !.pc = "reads", !.missed = FALSE]
            BY <3>2, <5>1 DEF Wakeup
          <6>2. QED
            BY <6>1
        <5>2. CASE Wakeup(p, j, k, "nread")
          <6>1. \/ job'[q] = job[q]
                \/ job'[q] = [job[q] EXCEPT !.pc = "reads", !.missed = FALSE]
            BY <3>2, <5>2 DEF Wakeup
          <6>2. QED
            BY <6>1
        <5>3. CASE job' = [x \in Procs |->
              IF x = p THEN User
              ELSE IF m > 0 /\ Sleeps(x, k, "nread")
                   THEN [job[x] EXCEPT !.missed = TRUE] ELSE job[x]]
          BY <3>2, <5>3
        <5>4. QED
          BY <1>1, <5>1, <5>2, <5>3
      <4>2. job[q] \in Jobs
        BY <1>2
      <4>3. QED
        BY <4>1, <4>2 DEF Jobs
    <3>3. QED
      BY <3>1, <3>2
  <2>3. QED
    BY <2>1, <2>2 DEF Keeps
<1>8. QED
  BY <1>1, <1>6, <1>7, PagesKept DEF memory

Gains(d) == free' = free + d
Loses(p, d) == Owned(p)' + d = Owned(p)

\* The step of p that moves d of the pages it owns to the list of free pages.
LEMMA Released ==
  ASSUME Shaped, Shaped', NEW p \in Procs, NEW d \in Int, Gains(d), Loses(p, d), There' = There
  PROVE  Balance(p)
<1>1. Owned(p) \in Int /\ free \in Int /\ Cardinality(There) \in Int
  BY OwnedParts, ThereType
<1>2. Owned(p)' \in Int /\ free' \in Int
  BY OwnedNext, ThereNext
<1>3. PICK x \in Int, y \in Int : x = free' /\ y = Owned(p)'
  BY <1>2
<1> DEFINE a == Owned(p)
           t == Cardinality(There)
<1>4. a \in Int /\ t \in Int /\ y + d = a /\ x = free + d
  BY <1>1, <1>3 DEF Gains, Loses
<1> HIDE DEF a, t
<1>5. x + y + t = free + a + t
  BY <1>1, <1>4
<1>6. free' + Owned(p)' + Cardinality(There') = x + y + t
  BY <1>3 DEF t
<1>7. QED
  BY <1>5, <1>6 DEF Balance, a, t

\* The pages above a size are those that are not below it.
LEMMA PagesSplit ==
  ASSUME NEW s \in Spaces, NEW t, NEW n,
         t = [s EXCEPT !.pages = {i \in s.pages : i < n}], n \in Nat
  PROVE  Pages(s) = Pages(t) + Cardinality({i \in s.pages : i >= n})
<1> DEFINE A == {i \in s.pages : i < n}
           B == {i \in s.pages : i >= n}
<1>1. s.pages \in SUBSET Nat /\ IsFiniteSet(s.pages) /\ s.dir \in Nat /\ s.ktabs \in Nat
      /\ Cardinality(s.utabs) \in Nat
  BY FS_CardinalityType DEF Spaces, FiniteParts
<1>2. A = s.pages \ B /\ s.pages \cap B = B /\ IsFiniteSet(B)
  BY <1>1, FS_Subset
<1>3. Cardinality(A) = Cardinality(s.pages) - Cardinality(B) /\ Cardinality(B) \in Nat
      /\ Cardinality(s.pages) \in Nat
  <2>1. IsFiniteSet(s.pages) /\ A = s.pages \ B /\ s.pages \cap B = B /\ IsFiniteSet(B)
    BY <1>1, <1>2
  <2> HIDE DEF A, B
  <2>2. Cardinality(s.pages \ B) = Cardinality(s.pages) - Cardinality(s.pages \cap B)
    BY <2>1, FS_Difference
  <2>3. Cardinality(B) \in Nat /\ Cardinality(s.pages) \in Nat
    BY <2>1, FS_CardinalityType
  <2>4. QED
    BY <2>1, <2>2, <2>3
<1>4. t.pages = A /\ t.dir = s.dir /\ t.ktabs = s.ktabs /\ t.utabs = s.utabs
  BY DEF Spaces
<1> HIDE DEF A
<1>5. Cardinality(t.pages) = Cardinality(s.pages) - Cardinality(B)
  BY <1>3, <1>4
<1> DEFINE a == Cardinality(s.pages)
           b == Cardinality(B)
           u == Cardinality(s.utabs)
<1>6. Pages(t) = s.dir + s.ktabs + u + (a - b) /\ Pages(s) = s.dir + s.ktabs + u + a
      /\ a \in Int /\ b \in Int /\ u \in Int
  BY <1>1, <1>3, <1>4, <1>5 DEF Pages
<1> HIDE DEF a, b, u
<1>7. Pages(s) = Pages(t) + b
  BY <1>1, <1>6
<1>8. QED
  BY <1>7 DEF b

\* A failed call gives back what it took.
LEMMA GiveUpPages ==
  ASSUME Shaped, Shaped', PagesCounted, NEW p \in Procs, state[p] = "live",
         job[p].call \in {"fork", "exec", "sbrk"}, GiveUp(p), UNCHANGED <<files, pipes>>
  PROVE  PagesCounted'
<1> DEFINE s == [space[p] EXCEPT !.pages = {i \in @ : i < size[p]}]
<1>1. /\ Gains(Taken(p)) /\ Goto(p, User)
      /\ kstack' = IF job[p].call = "fork" THEN [kstack EXCEPT ![job[p].child] = 0] ELSE kstack
      /\ space' = IF job[p].call = "sbrk" THEN [space EXCEPT ![p] = s] ELSE space
  BY DEF GiveUp, Return, kfree, Gains
<1>2. job'[p] = User /\ \A q \in Procs \ {p} : job'[q] = job[q]
  BY <1>1 DEF Goto, Shaped, ResTyped
<1>3. /\ kstack[p] \in Nat /\ Pages(space[p]) \in Nat /\ Pages(job[p].new) \in Nat /\ job[p].mem \in Nat
  BY OwnedParts
<1>4. Pages(User.new) = 0 /\ User.mem = 0
  BY UserFits, PagesType DEF User
<1>5. There' = There
  BY DEF There
<1>6. /\ Taken(p) \in Nat
      /\ Taken(p) = job[p].mem +
              (IF job[p].call = "sbrk" THEN Cardinality({i \in space[p].pages : i >= size[p]})
               ELSE IF job[p].call = "fork" THEN Pages(job[p].new) + kstack[job[p].child]
               ELSE Pages(job[p].new))
  BY TakenType
<1>7. CASE job[p].call = "exec"
  <2>1. kstack' = kstack /\ space' = space
    BY <1>1, <1>7
  <2>2. PICK k, t, n, m \in Nat : k = kstack[p] /\ t = Pages(space[p]) /\ n = Pages(job[p].new) /\ m = job[p].mem
    BY <1>3
  <2>3. /\ kstack'[p] = k /\ Pages(space'[p]) = t /\ Pages(job'[p].new) = 0 /\ job'[p].mem = 0
    BY <2>1, <2>2, <1>2, <1>4
  <2>4. Owned(p)' = k + t + 0 + 0 /\ Owned(p) = k + t + n + m
    BY <2>2, <2>3, OwnedParts, OwnedNext
  <2>5. Loses(p, m + n) /\ Taken(p) = m + n
    <3>1. Owned(p)' + (m + n) = k + t + n + m
      BY <2>4
    <3>2. QED
      BY <3>1, <2>2, <2>4, <1>6, <1>7 DEF Loses
  <2>6. Balance(p)
    BY <2>5, <1>1, <1>5, <1>6, Released
  <2>7. \A q \in Procs \ {p} : Keeps(q)
    BY <1>2, <2>1 DEF Keeps
  <2>8. QED
    BY <2>6, <2>7, OneOwner
<1>8. CASE job[p].call = "sbrk"
  <2>1. kstack' = kstack /\ space' = [space EXCEPT ![p] = s]
    BY <1>1, <1>8
  <2>2. /\ space \in [Procs -> Spaces] /\ size[p] \in Nat /\ JobFits(job[p])
    BY MissingType DEF Shaped, ResTyped
  <2>3. space'[p] = s /\ \A q \in Procs \ {p} : space'[q] = space[q]
    <3> HIDE DEF s
    <3>1. QED
      BY <2>1, <2>2
  <2>4. s = [space[p] EXCEPT !.pages = {i \in space[p].pages : i < size[p]}]
    OBVIOUS
  <2> DEFINE b == Cardinality({i \in space[p].pages : i >= size[p]})
  <2>5. Pages(space[p]) = Pages(s) + b
    <3>1. space[p] \in Spaces
      BY <2>2
    <3> HIDE DEF s
    <3>2. QED
      BY <2>2, <2>4, <3>1, PagesSplit
  <2>6. Pages(job[p].new) = 0
    <3>1. job[p].new = NoSpace
      BY <2>2, <1>8 DEF JobFits
    <3>2. QED
      BY <3>1, UserFits, PagesType
  <2>7. Pages(s) \in Nat
    <3>1. Pages(space'[p]) \in Nat
      BY OwnedNext
    <3>2. QED
      BY <3>1, <2>3
  <2>8. b \in Nat
    <3>1. /\ space[p].pages \in SUBSET Nat /\ IsFiniteSet(space[p].pages)
      BY <2>2 DEF Spaces, FiniteParts
    <3>2. IsFiniteSet({i \in space[p].pages : i >= size[p]})
      BY <3>1, FS_Subset
    <3>3. QED
      BY <3>2, FS_CardinalityType
  <2> HIDE DEF s
  <2>9. PICK k, t, m, x \in Nat : k = kstack[p] /\ t = Pages(s) /\ m = job[p].mem /\ x = b
    BY <1>3, <2>7, <2>8
  <2>10. /\ kstack'[p] = k /\ Pages(space'[p]) = t /\ Pages(job'[p].new) = 0 /\ job'[p].mem = 0
         /\ Pages(space[p]) = t + x /\ Pages(job[p].new) = 0
    BY <2>1, <2>3, <2>5, <2>6, <2>9, <1>2, <1>4
  <2>11. Owned(p)' = k + t + 0 + 0 /\ Owned(p) = k + (t + x) + 0 + m
    BY <2>9, <2>10, OwnedParts, OwnedNext
  <2>12. Taken(p) = m + x
    BY <2>9, <1>6, <1>8
  <2>13. Loses(p, m + x)
    <3>1. Owned(p)' + (m + x) = k + (t + x) + 0 + m
      BY <2>11
    <3>2. QED
      BY <2>11, <3>1 DEF Loses
  <2>14. Balance(p)
    BY <2>12, <2>13, <1>1, <1>5, <1>6, Released
  <2>15. \A q \in Procs \ {p} : Keeps(q)
    BY <1>2, <2>1, <2>3 DEF Keeps
  <2>16. QED
    BY <2>14, <2>15, OneOwner
<1>9. CASE job[p].call = "fork"
  <2> PICK c : c = job[p].child
    OBVIOUS
  <2>1. kstack' = [kstack EXCEPT ![c] = 0] /\ space' = space
    BY <1>1, <1>9
  <2>2. c \in Procs /\ c # p /\ job[c] = User /\ kstack \in [Procs -> {0, 1}]
    <3>1. JobFits(job[p]) /\ CallFits(p)
      BY DEF Shaped
    <3>2. c \in Procs /\ state[c] = "embryo"
      BY <3>1, <1>9 DEF JobFits, CallFits
    <3>3. EntryFits(c)
      BY <3>2 DEF Shaped
    <3>4. QED
      BY <3>2, <3>3 DEF EntryFits, Shaped, ResTyped
  <2>3. kstack'[c] = 0 /\ (\A q \in Procs \ {c} : kstack'[q] = kstack[q]) /\ kstack[c] \in Nat
    BY <2>1, <2>2
  <2>4. PICK k, t, n, m, h, w \in Nat :
          /\ k = kstack[p] /\ t = Pages(space[p]) /\ n = Pages(job[p].new) /\ m = job[p].mem
          /\ h = kstack[c] /\ w = Pages(space[c])
    BY <1>3, <2>2, <2>3, OwnedParts
  <2>5. /\ kstack'[p] = k /\ Pages(space'[p]) = t /\ Pages(job'[p].new) = 0 /\ job'[p].mem = 0
    BY <2>1, <2>2, <2>3, <2>4, <1>2, <1>4
  <2>6. /\ job'[c] = User /\ kstack'[c] = 0 /\ Pages(space'[c]) = w
    BY <2>1, <2>2, <2>3, <2>4, <1>2
  <2>7. Owned(p)' = k + t + 0 + 0 /\ Owned(p) = k + t + n + m
    BY <2>4, <2>5, OwnedParts, OwnedNext
  <2>8. Owned(c)' = 0 + w + 0 + 0 /\ Owned(c) = h + w + 0 + 0
    <3>1. Pages(job[c].new) = 0 /\ job[c].mem = 0 /\ Pages(job'[c].new) = 0 /\ job'[c].mem = 0
      BY <2>2, <2>6, <1>4
    <3>2. Owned(c) = h + w + 0 + 0
      BY <3>1, <2>2, <2>4, OwnedParts
    <3>3. Owned(c)' = kstack'[c] + Pages(space'[c]) + Pages(job'[c].new) + job'[c].mem
      BY <2>2, OwnedNext
    <3>4. Owned(c)' = 0 + w + 0 + 0
      BY <3>1, <3>3, <2>6
    <3>5. QED
      BY <3>2, <3>4
  <2>9. Taken(p) = m + (n + h)
    BY <2>4, <1>6, <1>9
  <2>10. free' = free + (m + (n + h)) /\ free \in Int
    BY <2>9, <1>1, ThereType DEF Gains
  <2>11. Exchange(p, c)
    <3>1. free' + Owned(p)' + Owned(c)' = free' + (k + t + 0 + 0) + (0 + w + 0 + 0)
      BY <2>7, <2>8
    <3>2. PICK x \in Int : x = free'
      BY ThereNext
    <3>3. x + (k + t + 0 + 0) + (0 + w + 0 + 0) = free + (k + t + n + m) + (h + w + 0 + 0)
      BY <2>10, <3>2
    <3>4. QED
      BY <2>7, <2>8, <3>1, <3>2, <3>3 DEF Exchange
  <2>12. \A q \in Procs \ {p, c} : Keeps(q)
    BY <1>2, <2>1, <2>3 DEF Keeps
  <2>13. QED
    BY <2>2, <2>11, <2>12, <1>5, TwoOwners
<1>10. QED
  BY <1>7, <1>8, <1>9

\* A step of p in which the free list gains what p loses.
LEMMA MemoryStep ==
  ASSUME Shaped, Shaped', PagesCounted, NEW p \in Procs, NEW d \in Int, Gains(d), Loses(p, d),
         \A q \in Procs \ {p} : Keeps(q), There' = There
  PROVE  PagesCounted'
<1>1. Balance(p)
  BY Released
<1>2. QED
  BY <1>1, OneOwner

\* The count of pages survives: grep_syscall() takes its page.
LEMMA GrepPages ==
  ASSUME Shaped, Shaped', PagesCounted, NEW p \in Procs, Grep(p) \/ GrepDone(p)
  PROVE  PagesCounted'
<1>1. There' = There /\ UNCHANGED <<kstack, space>>
  BY DEF Grep, GrepDone, There, memory
<1>2. job[p] \in Jobs /\ JobFits(job[p]) /\ job \in [Procs -> Jobs]
  BY DEF Shaped, ResTyped
<1>3. CASE Grep(p)
  <2> DEFINE j == [User EXCEPT !.call = "grep", !.pc = "searches", !.mem = 1]
  <2>1. Goto(p, j) /\ kalloc(1) /\ job[p].pc = "user"
    BY <1>3 DEF Grep, Call, At
  <2>2. j.new = NoSpace /\ j.mem = 1
    BY DEF User
  <2> HIDE DEF j
  <2>3. job'[p].new = NoSpace /\ job'[p].mem = 1 /\ \A q \in Procs \ {p} : job'[q] = job[q]
    BY <2>1, <2>2, <1>2 DEF Goto
  <2>4. job[p].new = NoSpace /\ job[p].mem = 0
    BY <2>1, <1>2 DEF JobFits
  <2>5. PICK k, s \in Nat : k = kstack[p] /\ s = Pages(space[p])
    BY OwnedParts
  <2>6. Owned(p) = k + s + 0 + 0
    BY <2>4, <2>5, OwnedParts, UserFits, PagesType
  <2>7. Owned(p)' = k + s + 0 + 1
    <3>1. Owned(p)' = kstack'[p] + Pages(space'[p]) + Pages(job'[p].new) + job'[p].mem
      BY OwnedNext
    <3>2. QED
      BY <3>1, <2>3, <2>5, <1>1, UserFits, PagesType
  <2>8. Loses(p, -1)
    <3>1. Owned(p)' + (-1) = k + s + 0 + 0
      BY <2>7
    <3>2. QED
      BY <3>1, <2>6 DEF Loses
  <2>9. Gains(-1)
    BY <2>1, ThereType DEF Gains, kalloc
  <2>10. \A q \in Procs \ {p} : Keeps(q)
    BY <2>3, <1>1 DEF Keeps
  <2>11. QED
    BY <2>8, <2>9, <2>10, <1>1, MemoryStep
<1>4. CASE GrepDone(p)
  <2>1. Goto(p, User) /\ kfree(job[p].mem) /\ job[p].pc = "searches"
    BY <1>4 DEF GrepDone, At, Return
  <2>2. User.new = NoSpace /\ User.mem = 0
    BY DEF User
  <2>3. job'[p].new = NoSpace /\ job'[p].mem = 0 /\ \A q \in Procs \ {p} : job'[q] = job[q]
    BY <2>1, <2>2, <1>2 DEF Goto
  <2>4. job[p].new = NoSpace /\ job[p].mem = 1
    BY <2>1, <1>2 DEF JobFits
  <2>5. PICK k, s \in Nat : k = kstack[p] /\ s = Pages(space[p])
    BY OwnedParts
  <2>6. Owned(p) = k + s + 0 + 1
    BY <2>4, <2>5, OwnedParts, UserFits, PagesType
  <2>7. Owned(p)' = k + s + 0 + 0
    <3>1. Owned(p)' = kstack'[p] + Pages(space'[p]) + Pages(job'[p].new) + job'[p].mem
      BY OwnedNext
    <3>2. QED
      BY <3>1, <2>3, <2>5, <1>1, UserFits, PagesType
  <2>8. Loses(p, 1)
    <3>1. Owned(p)' + 1 = k + s + 0 + 1
      BY <2>7
    <3>2. QED
      BY <3>1, <2>6 DEF Loses
  <2>9. Gains(1)
    BY <2>1, <2>4 DEF Gains, kfree
  <2>10. \A q \in Procs \ {p} : Keeps(q)
    BY <2>3, <1>1 DEF Keeps
  <2>11. QED
    BY <2>8, <2>9, <2>10, <1>1, MemoryStep
<1>5. QED
  BY <1>3, <1>4

\* The count of pages survives: sbrk() gives pages back.
LEMMA ShrinkPages ==
  ASSUME Shaped, Shaped', PagesCounted, NEW p \in Procs, NEW n \in 0..MaxSize, Shrink(p, n)
  PROVE  PagesCounted'
<1> DEFINE gone == {i \in space[p].pages : i >= n}
           s == [space[p] EXCEPT !.pages = @ \ gone]
<1>1. /\ Gains(Cardinality(gone)) /\ space' = [space EXCEPT ![p] = s]
      /\ UNCHANGED <<kstack, pipes, job>>
  BY DEF Shrink, kfree, Gains
<1>2. /\ space \in [Procs -> Spaces] /\ space[p] \in Spaces /\ space[p].pages \in SUBSET Nat
      /\ IsFiniteSet(space[p].pages) /\ n \in Nat
  BY DEF Shaped, ResTyped, Spaces, FiniteParts
<1>3. s = [space[p] EXCEPT !.pages = {i \in space[p].pages : i < n}]
  <2>1. space[p].pages \ gone = {i \in space[p].pages : i < n}
    BY <1>2
  <2>2. QED
    BY <2>1
<1> HIDE DEF s
<1>4. Pages(space[p]) = Pages(s) + Cardinality(gone)
  BY <1>2, <1>3, PagesSplit
<1>5. Cardinality(gone) \in Nat
  <2>1. IsFiniteSet(gone)
    BY <1>2, FS_Subset
  <2>2. QED
    BY <2>1, FS_CardinalityType
<1> HIDE DEF gone
<1>6. space'[p] = s /\ \A q \in Procs \ {p} : space'[q] = space[q]
  BY <1>1, <1>2
<1>7. Pages(s) \in Nat
  <2>1. Pages(space'[p]) \in Nat
    BY OwnedNext
  <2>2. QED
    BY <2>1, <1>6
<1>8. PICK k, t, x, h, m \in Nat : /\ k = kstack[p] /\ t = Pages(s) /\ x = Cardinality(gone)
                                   /\ h = Pages(job[p].new) /\ m = job[p].mem
  BY <1>5, <1>7, OwnedParts
<1>9. Owned(p) = k + (t + x) + h + m
  BY <1>4, <1>8, OwnedParts
<1>10. Owned(p)' = k + t + h + m
  <2>1. Owned(p)' = kstack'[p] + Pages(space'[p]) + Pages(job'[p].new) + job'[p].mem
    BY OwnedNext
  <2>2. QED
    BY <2>1, <1>1, <1>6, <1>8
<1>11. Loses(p, x)
  <2>1. Owned(p)' + x = k + (t + x) + h + m
    BY <1>10
  <2>2. QED
    BY <2>1, <1>9 DEF Loses
<1>12. There' = There /\ \A q \in Procs \ {p} : Keeps(q)
  BY <1>1, <1>6 DEF There, Keeps
<1>13. QED
  BY <1>1, <1>8, <1>11, <1>12, MemoryStep

\* The count of pages survives: allocproc() allocates a kernel stack.
LEMMA StackPages ==
  ASSUME Shaped, Shaped', PagesCounted, NEW p \in Procs, Stack(p)
  PROVE  PagesCounted'
<1>1. /\ state[p] = "live" /\ job[p].pc = "stack" /\ UNCHANGED <<files, pipes>>
  BY DEF Stack, At
<1>2. JobFits(job[p]) /\ CallFits(p) /\ job \in [Procs -> Jobs] /\ job[p] \in Jobs
      /\ kstack \in [Procs -> {0, 1}]
  BY DEF Shaped, ResTyped
<1>3. job[p].call = "fork"
  BY <1>1, <1>2 DEF JobFits
<1>4. CASE GiveUp(p)
  BY <1>1, <1>3, <1>4, GiveUpPages
<1>5. CASE /\ kalloc(1)
           /\ kstack' = [kstack EXCEPT ![job[p].child] = 1]
           /\ Goto(p, [job[p] EXCEPT !.pc = "table"])
           /\ UNCHANGED <<state, space>>
  <2> PICK c : c = job[p].child
    OBVIOUS
  <2>1. c \in Procs /\ kstack[c] = 0
    BY <1>1, <1>2, <1>3 DEF JobFits, CallFits
  <2>2. kstack'[c] = 1 /\ \A q \in Procs \ {c} : kstack'[q] = kstack[q]
    BY <1>2, <1>5, <2>1
  <2>3. \A q \in Procs : job'[q].new = job[q].new /\ job'[q].mem = job[q].mem
    <3> DEFINE j == [job[p] EXCEPT !.pc = "table"]
    <3>1. j.new = job[p].new /\ j.mem = job[p].mem
      BY <1>2 DEF Jobs
    <3> HIDE DEF j
    <3>2. Goto(p, j)
      BY <1>5 DEF j
    <3>3. QED
      BY <3>1, <3>2, <1>2 DEF Goto
  <2>4. PICK s, n, m \in Nat : s = Pages(space[c]) /\ n = Pages(job[c].new) /\ m = job[c].mem
    BY <2>1, OwnedParts
  <2>5. Owned(c) = 0 + s + n + m
    BY <2>1, <2>4, OwnedParts
  <2>6. Owned(c)' = 1 + s + n + m
    <3>1. Owned(c)' = kstack'[c] + Pages(space'[c]) + Pages(job'[c].new) + job'[c].mem
      BY <2>1, OwnedNext
    <3>2. QED
      BY <3>1, <2>1, <2>2, <2>3, <2>4, <1>5
  <2>7. Loses(c, -1)
    <3>1. Owned(c)' + (-1) = 0 + s + n + m
      BY <2>6
    <3>2. QED
      BY <3>1, <2>5 DEF Loses
  <2>8. Gains(-1)
    BY <1>5, ThereType DEF Gains, kalloc
  <2>9. There' = There /\ \A q \in Procs \ {c} : Keeps(q)
    BY <1>1, <1>5, <2>2, <2>3 DEF There, Keeps
  <2>10. QED
    BY <2>1, <2>7, <2>8, <2>9, MemoryStep
<1>6. QED
  BY <1>4, <1>5 DEF Stack

\* The count of pages survives: wait() frees an entry.
LEMMA WaitPages ==
  ASSUME Shaped, Shaped', PagesCounted, NEW p \in Procs, NEW c \in Procs, Wait(p, c)
  PROVE  PagesCounted'
<1>1. /\ Gains(kstack[c] + Pages(space[c]))
      /\ kstack' = [kstack EXCEPT ![c] = 0] /\ space' = [space EXCEPT ![c] = NoSpace]
      /\ UNCHANGED <<pipes, job>>
  BY DEF Wait, kfree, Gains
<1>2. kstack \in [Procs -> {0, 1}] /\ space \in [Procs -> Spaces]
  BY DEF Shaped, ResTyped
<1>3. PICK k, s, n, m \in Nat : /\ k = kstack[c] /\ s = Pages(space[c])
                                /\ n = Pages(job[c].new) /\ m = job[c].mem
  BY OwnedParts
<1>4. Owned(c) = k + s + n + m
  BY <1>3, OwnedParts
<1>5. kstack'[c] = 0 /\ space'[c] = NoSpace
      /\ \A q \in Procs \ {c} : kstack'[q] = kstack[q] /\ space'[q] = space[q]
  BY <1>1, <1>2
<1>6. Owned(c)' = 0 + 0 + n + m
  <2>1. Owned(c)' = kstack'[c] + Pages(space'[c]) + Pages(job'[c].new) + job'[c].mem
    BY OwnedNext
  <2>2. Pages(NoSpace) = 0
    BY UserFits, PagesType
  <2>3. QED
    BY <2>1, <2>2, <1>1, <1>3, <1>5
<1>7. Loses(c, k + s)
  <2>1. Owned(c)' + (k + s) = k + s + n + m
    BY <1>6
  <2>2. QED
    BY <2>1, <1>4 DEF Loses
<1>8. There' = There /\ \A q \in Procs \ {c} : Keeps(q)
  BY <1>1, <1>5 DEF There, Keeps
<1>9. Gains(k + s) /\ k + s \in Int
  BY <1>1, <1>3
<1>10. QED
  BY <1>7, <1>8, <1>9, MemoryStep

\* The count of pages survives: setupkvm() takes a page.
LEMMA SetupKvmPages ==
  ASSUME Shaped, Shaped', PagesCounted, NEW p \in Procs, SetupKvm(p)
  PROVE  PagesCounted'
<1> DEFINE s == job[p].new
           t == IF s.dir = 0 THEN [s EXCEPT !.dir = 1] ELSE [s EXCEPT !.ktabs = @ + 1]
           j == [job[p] EXCEPT !.new = t, !.pc = IF t.ktabs = KernelTables THEN "page" ELSE @]
<1>1. /\ state[p] = "live" /\ job[p].pc = "table" /\ UNCHANGED <<files, pipes>>
      /\ \/ GiveUp(p)
         \/ kalloc(1) /\ Goto(p, j) /\ UNCHANGED <<state, kstack, space>>
  BY DEF SetupKvm, At
<1>2. JobFits(job[p]) /\ job[p] \in Jobs /\ s \in Spaces /\ job \in [Procs -> Jobs]
  BY DEF Shaped, ResTyped, Jobs
<1>3. job[p].call \in {"fork", "exec"}
  BY <1>1, <1>2 DEF JobFits
<1>4. CASE GiveUp(p)
  BY <1>1, <1>3, <1>4, GiveUpPages
<1>5. CASE kalloc(1) /\ Goto(p, j) /\ UNCHANGED <<state, kstack, space>>
  <2>1. /\ t.utabs = s.utabs /\ t.pages = s.pages
        /\ \/ s.dir = 0 /\ t.dir = 1 /\ t.ktabs = s.ktabs
           \/ t.dir = s.dir /\ t.ktabs = s.ktabs + 1
        /\ s.dir \in Nat /\ s.ktabs \in Nat
    BY <1>2 DEF Spaces
  <2>2. j.new = t /\ j.mem = job[p].mem
    BY <1>2 DEF Jobs
  <2> HIDE DEF j, t
  <2>3. PICK a, b \in Nat : a = Cardinality(s.utabs) /\ b = Cardinality(s.pages)
    BY <1>2, PagesType
  <2>4. Pages(s) = s.dir + s.ktabs + a + b /\ Pages(t) = t.dir + t.ktabs + a + b
    BY <2>1, <2>3 DEF Pages
  <2>5. Pages(t) = Pages(s) + 1
    BY <2>1, <2>3, <2>4
  <2>6. job'[p].new = t /\ job'[p].mem = job[p].mem /\ \A q \in Procs \ {p} : job'[q] = job[q]
    BY <1>2, <1>5, <2>2 DEF Goto
  <2>7. PICK k, h, n, m \in Nat : k = kstack[p] /\ h = Pages(space[p]) /\ n = Pages(s) /\ m = job[p].mem
    BY OwnedParts
  <2>8. Owned(p) = k + h + n + m
    BY <2>7, OwnedParts
  <2>9. Owned(p)' = k + h + (n + 1) + m
    <3>1. Owned(p)' = kstack'[p] + Pages(space'[p]) + Pages(job'[p].new) + job'[p].mem
      BY OwnedNext
    <3>2. QED
      BY <3>1, <2>5, <2>6, <2>7, <1>5
  <2>10. Loses(p, -1)
    <3>1. Owned(p)' + (-1) = k + h + n + m
      BY <2>9
    <3>2. QED
      BY <3>1, <2>8 DEF Loses
  <2>11. Gains(-1)
    BY <1>5, ThereType DEF Gains, kalloc
  <2>12. There' = There /\ \A q \in Procs \ {p} : Keeps(q)
    BY <1>1, <1>5, <2>6 DEF There, Keeps
  <2>13. QED
    BY <2>10, <2>11, <2>12, MemoryStep
<1>6. QED
  BY <1>1, <1>4, <1>5

\* The count of pages survives: copyuvm() or allocuvm() takes a page.
LEMMA NextPagePages ==
  ASSUME Shaped, Shaped', PagesCounted, NEW p \in Procs, NextPage(p)
  PROVE  PagesCounted'
<1> DEFINE j == [job[p] EXCEPT !.pc = "map", !.mem = 1]
<1>1. /\ state[p] = "live" /\ job[p].pc = "page" /\ UNCHANGED <<files, pipes>>
      /\ \/ UNCHANGED <<free, state, kstack, space, job>>
         \/ GiveUp(p)
         \/ kalloc(1) /\ Goto(p, j) /\ UNCHANGED <<state, kstack, space>>
  BY DEF NextPage, At
<1>2. JobFits(job[p]) /\ job[p] \in Jobs /\ job \in [Procs -> Jobs]
  BY DEF Shaped, ResTyped
<1>3. job[p].call \in {"fork", "exec", "sbrk"} /\ job[p].mem = 0
  BY <1>1, <1>2 DEF JobFits
<1>4. CASE GiveUp(p)
  BY <1>1, <1>3, <1>4, GiveUpPages
<1>5. CASE UNCHANGED <<free, state, kstack, space, job>>
  <2>1. (\A q \in Procs : Keeps(q)) /\ \A k \in Pipes : pipes'[k].there = pipes[k].there
    BY <1>1, <1>5 DEF Keeps
  <2>2. QED
    BY <1>5, <2>1, PagesKept
<1>6. CASE kalloc(1) /\ Goto(p, j) /\ UNCHANGED <<state, kstack, space>>
  <2>1. j.new = job[p].new /\ j.mem = 1
    BY <1>2 DEF Jobs
  <2> HIDE DEF j
  <2>2. job'[p].new = job[p].new /\ job'[p].mem = 1 /\ \A q \in Procs \ {p} : job'[q] = job[q]
    BY <1>2, <1>6, <2>1 DEF Goto
  <2>3. PICK k, h, n \in Nat : k = kstack[p] /\ h = Pages(space[p]) /\ n = Pages(job[p].new)
    BY OwnedParts
  <2>4. Owned(p) = k + h + n + 0
    BY <1>3, <2>3, OwnedParts
  <2>5. Owned(p)' = k + h + n + 1
    <3>1. Owned(p)' = kstack'[p] + Pages(space'[p]) + Pages(job'[p].new) + job'[p].mem
      BY OwnedNext
    <3>2. QED
      BY <3>1, <2>2, <2>3, <1>6
  <2>6. Loses(p, -1)
    <3>1. Owned(p)' + (-1) = k + h + n + 0
      BY <2>5
    <3>2. QED
      BY <3>1, <2>4 DEF Loses
  <2>7. Gains(-1)
    BY <1>6, ThereType DEF Gains, kalloc
  <2>8. There' = There /\ \A q \in Procs \ {p} : Keeps(q)
    BY <1>1, <1>6, <2>2 DEF There, Keeps
  <2>9. QED
    BY <2>6, <2>7, <2>8, MemoryStep
<1>7. QED
  BY <1>1, <1>4, <1>5, <1>6

\* The count of pages survives: mappages() enters a page.
LEMMA MapPagePages ==
  ASSUME Shaped, Shaped', PagesCounted, NEW p \in Procs, MapPage(p)
  PROVE  PagesCounted'
<1> DEFINE i == Min(Missing(p))
           s == Target(p)
           t == [s EXCEPT !.utabs = @ \cup {i \div TablePages}, !.pages = @ \cup {i}]
           more == Cardinality(t.utabs) - Cardinality(s.utabs)
           j == [job[p] EXCEPT !.pc = "page", !.mem = 0]
           j2 == [j EXCEPT !.new = t]
<1>1. /\ state[p] = "live" /\ job[p].pc = "map" /\ UNCHANGED <<files, pipes>>
      /\ \/ GiveUp(p)
         \/ kalloc(more) /\ Build(p, t, j) /\ UNCHANGED <<state, kstack>>
  BY DEF MapPage, At
<1>2. JobFits(job[p]) /\ CallFits(p) /\ job[p] \in Jobs /\ job \in [Procs -> Jobs]
      /\ space \in [Procs -> Spaces]
  BY DEF Shaped, ResTyped
<1>3. job[p].call \in {"fork", "exec", "sbrk"} /\ Missing(p) # {} /\ job[p].mem = 1
  BY <1>1, <1>2 DEF JobFits, CallFits
<1>4. CASE GiveUp(p)
  BY <1>1, <1>3, <1>4, GiveUpPages
<1>5. CASE kalloc(more) /\ Build(p, t, j) /\ UNCHANGED <<state, kstack>>
  <2>1. i \in Missing(p) /\ s \in Spaces
    BY <1>3, MissingType
  <2>2. Pages(t) = Pages(s) + more + 1 /\ more \in Int
    <3> HIDE DEF i
    <3>1. /\ t.dir = s.dir /\ t.ktabs = s.ktabs
          /\ Cardinality(t.pages) = Cardinality(s.pages) + 1
          /\ Cardinality(t.utabs) \in Nat /\ Cardinality(s.utabs) \in Nat /\ Cardinality(s.pages) \in Nat
      BY <2>1, MapPageTable
    <3>2. s.dir \in Nat /\ s.ktabs \in Nat
      BY <2>1 DEF Spaces
    <3> HIDE DEF t, s
    <3> DEFINE a == Cardinality(t.utabs)
               b == Cardinality(s.utabs)
               c == Cardinality(s.pages)
    <3>3. /\ Pages(t) = s.dir + s.ktabs + a + (c + 1) /\ Pages(s) = s.dir + s.ktabs + b + c
          /\ a \in Nat /\ b \in Nat /\ c \in Nat /\ more = a - b
      BY <3>1 DEF Pages
    <3> HIDE DEF a, b, c, more
    <3>4. QED
      BY <3>2, <3>3
  <2>3. j.new = job[p].new /\ j.mem = 0 /\ j.call = job[p].call /\ j2.new = t /\ j2.mem = 0
    BY <1>2 DEF Jobs
  <2>4. Gains(-more)
    BY <1>5, <2>2, ThereType DEF Gains, kalloc
  <2>5. CASE job[p].call = "sbrk"
    <3>1. Goto(p, j) /\ space' = [space EXCEPT ![p] = t] /\ s = space[p]
      BY <1>5, <2>3, <2>5 DEF Build, Target
    <3> HIDE DEF j, j2, t, s, more
    <3>2. /\ job'[p].new = job[p].new /\ job'[p].mem = 0 /\ \A q \in Procs \ {p} : job'[q] = job[q]
          /\ space'[p] = t /\ \A q \in Procs \ {p} : space'[q] = space[q]
      BY <3>1, <1>2, <2>3 DEF Goto
    <3>3. PICK k, h, n \in Nat : k = kstack[p] /\ h = Pages(s) /\ n = Pages(job[p].new)
      BY <3>1, OwnedParts
    <3>4. Owned(p) = k + h + n + 1
      BY <1>3, <3>1, <3>3, OwnedParts
    <3>5. Owned(p)' = k + (h + more + 1) + n + 0
      <4>1. Owned(p)' = kstack'[p] + Pages(space'[p]) + Pages(job'[p].new) + job'[p].mem
        BY OwnedNext
      <4>2. QED
        BY <4>1, <2>2, <3>2, <3>3, <1>5
    <3>6. Loses(p, -more)
      <4>1. Owned(p)' + (-more) = k + h + n + 1
        BY <3>5, <2>2
      <4>2. QED
        BY <4>1, <3>4 DEF Loses
    <3>7. There' = There /\ \A q \in Procs \ {p} : Keeps(q)
      BY <1>1, <1>5, <3>2 DEF There, Keeps
    <3>8. -more \in Int
      BY <2>2
    <3>9. QED
      BY <2>4, <3>6, <3>7, <3>8, MemoryStep
  <2>6. CASE job[p].call # "sbrk"
    <3>1. Goto(p, j2) /\ space' = space /\ s = job[p].new
      BY <1>5, <2>3, <2>6 DEF Build, Target
    <3> HIDE DEF j, j2, t, s, more
    <3>2. job'[p].new = t /\ job'[p].mem = 0 /\ \A q \in Procs \ {p} : job'[q] = job[q]
      BY <3>1, <1>2, <2>3 DEF Goto
    <3>3. PICK k, h, n \in Nat : k = kstack[p] /\ h = Pages(space[p]) /\ n = Pages(s)
      BY <3>1, OwnedParts
    <3>4. Owned(p) = k + h + n + 1
      BY <1>3, <3>1, <3>3, OwnedParts
    <3>5. Owned(p)' = k + h + (n + more + 1) + 0
      <4>1. Owned(p)' = kstack'[p] + Pages(space'[p]) + Pages(job'[p].new) + job'[p].mem
        BY OwnedNext
      <4>2. QED
        BY <4>1, <2>2, <3>1, <3>2, <3>3, <1>5
    <3>6. Loses(p, -more)
      <4>1. Owned(p)' + (-more) = k + h + n + 1
        BY <3>5, <2>2
      <4>2. QED
        BY <4>1, <3>4 DEF Loses
    <3>7. There' = There /\ \A q \in Procs \ {p} : Keeps(q)
      BY <1>1, <1>5, <3>1, <3>2 DEF There, Keeps
    <3>8. -more \in Int
      BY <2>2
    <3>9. QED
      BY <2>4, <3>6, <3>7, <3>8, MemoryStep
  <2>7. QED
    BY <2>5, <2>6
<1>6. QED
  BY <1>1, <1>4, <1>5

\* The count of pages survives: exec() ends.
LEMMA ExecDonePages ==
  ASSUME Shaped, Shaped', PagesCounted, NEW p \in Procs, ExecDone(p)
  PROVE  PagesCounted'
<1>1. /\ state[p] = "live" /\ job[p].pc = "page" /\ job[p].call = "exec" /\ UNCHANGED <<files, pipes>>
      /\ \/ /\ Gains(Pages(space[p])) /\ space' = [space EXCEPT ![p] = job[p].new]
            /\ Goto(p, User) /\ UNCHANGED kstack
         \/ GiveUp(p)
  BY DEF ExecDone, At, Return, kfree, Gains
<1>2. JobFits(job[p]) /\ job \in [Procs -> Jobs] /\ space \in [Procs -> Spaces]
  BY DEF Shaped, ResTyped
<1>3. job[p].mem = 0 /\ User.new = NoSpace /\ User.mem = 0 /\ Pages(NoSpace) = 0
  BY <1>1, <1>2, UserFits, PagesType DEF JobFits, User
<1>4. CASE GiveUp(p)
  BY <1>1, <1>4, GiveUpPages
<1>5. CASE /\ Gains(Pages(space[p])) /\ space' = [space EXCEPT ![p] = job[p].new]
           /\ Goto(p, User) /\ UNCHANGED kstack
  <2>1. /\ job'[p] = User /\ \A q \in Procs \ {p} : job'[q] = job[q]
        /\ space'[p] = job[p].new /\ \A q \in Procs \ {p} : space'[q] = space[q]
    BY <1>2, <1>5 DEF Goto
  <2>2. PICK k, h, n \in Nat : k = kstack[p] /\ h = Pages(space[p]) /\ n = Pages(job[p].new)
    BY OwnedParts
  <2>3. Owned(p) = k + h + n + 0
    BY <1>3, <2>2, OwnedParts
  <2>4. Owned(p)' = k + n + 0 + 0
    <3>1. Owned(p)' = kstack'[p] + Pages(space'[p]) + Pages(job'[p].new) + job'[p].mem
      BY OwnedNext
    <3>2. QED
      BY <3>1, <2>1, <2>2, <1>3, <1>5
  <2>5. Loses(p, h)
    <3>1. Owned(p)' + h = k + h + n + 0
      BY <2>4
    <3>2. QED
      BY <3>1, <2>3 DEF Loses
  <2>6. There' = There /\ (\A q \in Procs \ {p} : Keeps(q)) /\ Gains(h)
    BY <1>1, <1>5, <2>1, <2>2 DEF There, Keeps
  <2>7. QED
    BY <2>5, <2>6, MemoryStep
<1>6. QED
  BY <1>1, <1>4, <1>5

\* The count of pages survives: fork() ends.
LEMMA ForkDonePages ==
  ASSUME Shaped, Shaped', PagesCounted, NEW p \in Procs, ForkDone(p)
  PROVE  PagesCounted'
<1> PICK c : c = job[p].child
  OBVIOUS
<1>1. /\ state[p] = "live" /\ job[p].pc = "page" /\ job[p].call = "fork"
      /\ space' = [space EXCEPT ![c] = job[p].new] /\ Goto(p, User)
      /\ UNCHANGED <<free, kstack, pipes>>
  BY DEF ForkDone, At, Return
<1>2. JobFits(job[p]) /\ CallFits(p) /\ job \in [Procs -> Jobs] /\ space \in [Procs -> Spaces]
  BY DEF Shaped, ResTyped
<1>3. job[p].mem = 0 /\ User.new = NoSpace /\ User.mem = 0 /\ Pages(NoSpace) = 0
  BY <1>1, <1>2, UserFits, PagesType DEF JobFits, User
<1>4. c \in Procs /\ c # p /\ space[c] = NoSpace /\ job[c] = User
  <2>1. c \in Procs /\ state[c] = "embryo"
    BY <1>1, <1>2 DEF JobFits, CallFits
  <2>2. EntryFits(c)
    BY <2>1 DEF Shaped
  <2>3. QED
    BY <1>1, <2>1, <2>2 DEF EntryFits
<1>5. /\ job'[p] = User /\ \A q \in Procs \ {p} : job'[q] = job[q]
      /\ space'[c] = job[p].new /\ \A q \in Procs \ {c} : space'[q] = space[q]
  BY <1>1, <1>2, <1>4 DEF Goto
<1>6. PICK k, h, n, z \in Nat : k = kstack[p] /\ h = Pages(space[p]) /\ n = Pages(job[p].new) /\ z = kstack[c]
  BY <1>4, OwnedParts
<1>7. Owned(p) = k + h + n + 0 /\ Owned(c) = z + 0 + 0 + 0
  BY <1>3, <1>4, <1>6, OwnedParts
<1>8. Owned(p)' = k + h + 0 + 0
  <2>1. Owned(p)' = kstack'[p] + Pages(space'[p]) + Pages(job'[p].new) + job'[p].mem
    BY OwnedNext
  <2>2. QED
    BY <2>1, <1>1, <1>3, <1>4, <1>5, <1>6
<1>9. Owned(c)' = z + n + 0 + 0
  <2>1. Owned(c)' = kstack'[c] + Pages(space'[c]) + Pages(job'[c].new) + job'[c].mem
    BY <1>4, OwnedNext
  <2>2. QED
    BY <2>1, <1>1, <1>3, <1>4, <1>5, <1>6
<1>10. Exchange(p, c)
  <2>1. PICK x \in Int : x = free
    BY ThereType
  <2>2. free' + Owned(p)' + Owned(c)' = x + (k + h + 0 + 0) + (z + n + 0 + 0)
    BY <2>1, <1>1, <1>8, <1>9
  <2>3. free + Owned(p) + Owned(c) = x + (k + h + n + 0) + (z + 0 + 0 + 0)
    BY <2>1, <1>7
  <2>4. x + (k + h + n + 0) + (z + 0 + 0 + 0) = x + (k + h + 0 + 0) + (z + n + 0 + 0)
    BY <2>1
  <2>5. QED
    BY <2>2, <2>3, <2>4 DEF Exchange
<1>11. There' = There /\ \A q \in Procs \ {p, c} : Keeps(q)
  BY <1>1, <1>5 DEF There, Keeps
<1>12. QED
  BY <1>4, <1>10, <1>11, TwoOwners

\* The count of pages survives: pipealloc() takes its page.
LEMMA PipeBufferPages ==
  ASSUME Shaped, Shaped', PagesCounted, NEW p \in Procs, PipeBuffer(p)
  PROVE  PagesCounted'
<1> DEFINE j == [job[p] EXCEPT !.pc = "installs"]
           fails == [User EXCEPT !.todo = Closes(job[p].made)]
<1>1. /\ job[p].pc = "buffer" /\ UNCHANGED <<kstack, space>>
      /\ \/ Goto(p, fails) /\ UNCHANGED <<free, pipes>>
         \/ /\ kalloc(1) /\ Goto(p, j)
            /\ \E k \in Pipes : ~pipes[k].there /\ pipes' = [pipes EXCEPT ![k] = NewPipe]
  BY DEF PipeBuffer, At, memory
<1>2. job[p] \in Jobs /\ job \in [Procs -> Jobs] /\ pipes \in [Pipes -> PipeRecords] /\ Bare(job[p])
  BY <1>1, BareUser DEF Shaped, ResTyped
<1>3. CASE Goto(p, fails) /\ UNCHANGED <<free, pipes>>
  <2>1. Bare(fails)
    BY DEF Bare, User
  <2> HIDE DEF fails
  <2>2. QED
    BY <1>1, <1>2, <1>3, <2>1, GotoPages
<1>4. CASE /\ kalloc(1) /\ Goto(p, j)
           /\ \E k \in Pipes : ~pipes[k].there /\ pipes' = [pipes EXCEPT ![k] = NewPipe]
  <2>1. PICK k \in Pipes : ~pipes[k].there /\ pipes' = [pipes EXCEPT ![k] = NewPipe]
    BY <1>4
  <2>2. j.new = job[p].new /\ j.mem = job[p].mem
    BY <1>2 DEF Jobs
  <2> HIDE DEF j
  <2>3. \A q \in Procs : Keeps(q)
    BY <1>1, <1>2, <1>4, <2>2 DEF Goto, Keeps
  <2>4. Owned(p)' = Owned(p)
    BY <2>3 DEF Keeps, Owned
  <2>5. There' = There \cup {k} /\ k \notin There
    <3>1. NewPipe.there
      BY DEF NewPipe, NoPipe
    <3>2. \A x \in Pipes : pipes'[x].there <=> (pipes[x].there \/ x = k)
      BY <3>1, <2>1, <1>2
    <3>3. QED
      BY <3>2, <2>1 DEF There
  <2>6. Cardinality(There') = Cardinality(There) + 1
    BY <2>5, ThereType, FS_AddElement
  <2>7. PICK a, b, c \in Int : a = free /\ b = Cardinality(There) /\ c = Owned(p)
    BY ThereType, OwnedParts
  <2>8. free' = a - 1
    BY <2>7, <1>4 DEF kalloc
  <2>9. free' + Owned(p)' + Cardinality(There') = (a - 1) + c + (b + 1)
    BY <2>4, <2>6, <2>7, <2>8
  <2>10. Balance(p)
    <3>1. (a - 1) + c + (b + 1) = a + c + b
      BY <2>7
    <3>2. QED
      BY <2>7, <2>9, <3>1 DEF Balance
  <2>11. QED
    BY <2>3, <2>10, OneOwner
<1>5. QED
  BY <1>1, <1>3, <1>4

\* The count of pages survives: pipeclose().
LEMMA PipeClosePages ==
  ASSUME Shaped, FilesInv, Shaped', PagesCounted, NEW p \in Procs, PipeClose(p)
  PROVE  PagesCounted'
<1>1. /\ Busy(p) /\ Todo(p).end # "none" /\ UNCHANGED <<kstack, space>> /\ ResTyped
  BY DEF PipeClose, memory, Shaped
<1>2. /\ job[p] \in Jobs /\ Todo(p) \in Items /\ Todo(p) = Head(job[p].todo) /\ job[p].todo # <<>>
      /\ (\A k, end : Closing(p, k, end) <=> Todo(p) = [file |-> k, end |-> end])
  BY <1>1, FirstClose DEF Todo
<1>3. PICK k0 \in Pipes, e \in Ends : Todo(p) = [file |-> k0, end |-> e]
  BY <1>1, <1>2 DEF Items
<1> DEFINE q == IF e = "write" THEN [pipes[k0] EXCEPT !.writeopen = FALSE]
                               ELSE [pipes[k0] EXCEPT !.readopen = FALSE]
           gone == ~q.readopen /\ ~q.writeopen
           j == [job[p] EXCEPT !.todo = Tail(@)]
           l == IF e = "write" THEN "nread" ELSE "nwrite"
           d == IF gone THEN 1 ELSE 0
<1>4. /\ pipes' = [pipes EXCEPT ![k0] = IF gone THEN NoPipe ELSE q]
      /\ Wakeup(p, j, k0, l) /\ Gains(d)
  <2>1. Todo(p).file = k0 /\ Todo(p).end = e
    BY <1>3
  <2>2. QED
    BY <2>1 DEF PipeClose, kfree, Gains
<1>5. j.new = job[p].new /\ j.mem = job[p].mem /\ j \in Jobs
  <2>1. job[p].todo \in Seq(Items)
    BY <1>2 DEF Jobs
  <2>2. Tail(job[p].todo) \in Seq(Items)
    BY <2>1, <1>2
  <2>3. QED
    BY <2>2, <1>2 DEF Jobs
<1>6. pipes[k0].there
  <2>1. EndFits(k0, e) /\ (pipes[k0].there <=> (pipes[k0].readopen \/ pipes[k0].writeopen))
    BY DEF FilesInv, EndsExact
  <2>2. Closing(p, k0, e)
    BY <1>2, <1>3
  <2>3. QED
    BY <2>1, <2>2 DEF EndFits, IsOpen
<1>7. q.there = pipes[k0].there /\ pipes \in [Pipes -> PipeRecords]
  BY <1>1 DEF ResTyped, PipeRecords
<1> HIDE DEF j
<1>8. \A x \in Procs : Keeps(x)
  <2>1. l \in {"nread", "nwrite"}
    OBVIOUS
  <2> HIDE DEF l
  <2>2. job'[p] = j /\ \A x \in Procs \ {p} : Alike(job[x], job'[x])
    BY <1>4, <1>5, <2>1, WakeupSteps
  <2>3. \A x \in Procs : job[x] \in Jobs /\ JobFits(job[x])
    BY DEF Shaped, ResTyped
  <2>4. \A x \in Procs : job'[x].new = job[x].new /\ job'[x].mem = job[x].mem
    BY <2>2, <2>3, <1>5, AlikeFits
  <2>5. QED
    BY <2>4, <1>1 DEF Keeps
<1>9. Owned(p)' = Owned(p)
  BY <1>8 DEF Keeps, Owned
<1>10. There' = IF gone THEN There \ {k0} ELSE There
  <2>1. ~NoPipe.there
    BY DEF NoPipe
  <2> HIDE DEF q, gone
  <2>2. \A x \in Pipes : pipes'[x].there <=> IF x = k0 THEN ~gone /\ q.there ELSE pipes[x].there
    BY <2>1, <1>4, <1>7
  <2>3. QED
    BY <2>2, <1>6, <1>7 DEF There
<1>11. k0 \in There
  BY <1>6 DEF There
<1> HIDE DEF gone, q
<1>12. Cardinality(There') = Cardinality(There) - d
  <2>1. Cardinality(There \ {k0}) = Cardinality(There) - 1 /\ Cardinality(There) \in Int
    <3>1. IsFiniteSet(There) /\ Cardinality(There) \in Int
      BY ThereType
    <3>2. Cardinality(There \ {k0}) = Cardinality(There) - 1
      BY <3>1, <1>11, FS_RemoveElement
    <3>3. QED
      BY <3>1, <3>2
  <2>2. QED
    BY <2>1, <1>10
<1>13. PICK a, b, c \in Int : a = free /\ b = Cardinality(There) /\ c = Owned(p)
  BY ThereType, OwnedParts
<1>14. d \in Int
  OBVIOUS
<1> HIDE DEF d
<1>15. free' + Owned(p)' + Cardinality(There') = (a + d) + c + (b - d)
  BY <1>4, <1>9, <1>12, <1>13 DEF Gains
<1>16. Balance(p)
  <2>1. (a + d) + c + (b - d) = a + c + b
    BY <1>13, <1>14
  <2>2. QED
    BY <1>13, <1>15, <2>1 DEF Balance
<1>17. QED
  BY <1>8, <1>16, OneOwner

\* Every step keeps the count of pages.
LEMMA StepPages ==
  ASSUME Shaped, FilesInv, PagesCounted, Shaped', [ResNext]_resvars
  PROVE  PagesCounted'
<1>1. CASE UNCHANGED resvars
  <2>1. UNCHANGED <<free, kstack, space, job, pipes>>
    BY <1>1 DEF resvars, memory
  <2>2. (\A q \in Procs : Keeps(q)) /\ \A k \in Pipes : pipes'[k].there = pipes[k].there
    BY <2>1 DEF Keeps
  <2>3. QED
    BY <2>1, <2>2, PagesKept
<1>2. CASE ResNext
  <2>1. PICK p \in Procs :
          \/ \E c \in Procs : Fork(p, c) \/ Kill(p, c) \/ Wait(p, c)
          \/ \E n \in 0..MaxSize : (n >= 2 /\ Exec(p, n)) \/ Grow(p, n) \/ Shrink(p, n)
          \/ Stack(p) \/ SetupKvm(p) \/ NextPage(p) \/ MapPage(p)
          \/ ForkDone(p) \/ ExecDone(p) \/ GrowDone(p)
          \/ Grep(p) \/ GrepDone(p)
          \/ \E call \in {"open", "pipe"} : Open(p, call)
          \/ SecondFile(p) \/ PipeBuffer(p) \/ Install(p)
          \/ FileClose(p) \/ PipeClose(p)
          \/ \E fd \in Fds : Dup(p, fd) \/ Close(p, fd) \/ \E n \in Sizes : Transfer(p, fd, n)
          \/ ReadTry(p) \/ WriteTry(p)
          \/ Exit(p) \/ Zombie(p)
    BY <1>2 DEF ResNext
  <2>2. PICK c0 \in Procs, fd0 \in Fds : c0 = p /\ fd0 = 0
    BY Basics
  <2>3. ASSUME NEW c \in Procs, Fork(p, c) \/ Kill(p, c) \/ Wait(p, c) PROVE PagesCounted'
    BY <2>2, <2>3, BarePages, WaitPages
  <2>4. ASSUME NEW n \in 0..MaxSize, Exec(p, n) \/ Grow(p, n) \/ Shrink(p, n) PROVE PagesCounted'
    BY <2>2, <2>4, BarePages, ShrinkPages
  <2>5. CASE Stack(p) \/ SetupKvm(p) \/ NextPage(p) \/ MapPage(p) \/ ForkDone(p) \/ ExecDone(p)
             \/ Grep(p) \/ GrepDone(p) \/ PipeBuffer(p) \/ PipeClose(p) \/ ReadTry(p) \/ WriteTry(p)
    BY <2>5, StackPages, SetupKvmPages, NextPagePages, MapPagePages, ForkDonePages, ExecDonePages,
       GrepPages, PipeBufferPages, PipeClosePages, ReadTryPages, WriteTryPages
  <2>6. ASSUME NEW call, Open(p, call) PROVE PagesCounted'
    BY <2>2, <2>6, BarePages
  <2>7. ASSUME NEW fd \in Fds, NEW n, Dup(p, fd) \/ Close(p, fd) \/ Transfer(p, fd, n) PROVE PagesCounted'
    BY <2>2, <2>7, BarePages
  <2>8. CASE GrowDone(p) \/ SecondFile(p) \/ Install(p) \/ FileClose(p) \/ Exit(p) \/ Zombie(p)
    BY <2>2, <2>8, BarePages
  <2>9. QED
    BY <2>1, <2>3, <2>4, <2>5, <2>6, <2>7, <2>8
<1>3. QED
  BY <1>1, <1>2

\* A copy panics only for a page that is missing below the size of its parent.
LEMMA StepBroken ==
  ASSUME Shaped, Broken, [ResNext]_resvars
  PROVE  Broken'
<1>1. CASE UNCHANGED resvars
  <2>1. UNCHANGED <<panicked, state, space>>
    BY <1>1 DEF resvars, procs, memory
  <2>2. QED
    BY <2>1 DEF Broken
<1>2. CASE ResNext
  <2>1. PICK p \in Procs :
          \/ \E c \in Procs : Fork(p, c) \/ Kill(p, c) \/ Wait(p, c)
          \/ \E n \in 0..MaxSize : (n >= 2 /\ Exec(p, n)) \/ Grow(p, n) \/ Shrink(p, n)
          \/ Stack(p) \/ SetupKvm(p) \/ NextPage(p) \/ MapPage(p)
          \/ ForkDone(p) \/ ExecDone(p) \/ GrowDone(p)
          \/ Grep(p) \/ GrepDone(p)
          \/ \E call \in {"open", "pipe"} : Open(p, call)
          \/ SecondFile(p) \/ PipeBuffer(p) \/ Install(p)
          \/ FileClose(p) \/ PipeClose(p)
          \/ \E fd \in Fds : Dup(p, fd) \/ Close(p, fd) \/ \E n \in Sizes : Transfer(p, fd, n)
          \/ ReadTry(p) \/ WriteTry(p)
          \/ Exit(p) \/ Zombie(p)
    BY <1>2 DEF ResNext
  <2>2. ASSUME ~panicked, UNCHANGED panicked PROVE Broken'
    BY <2>2 DEF Broken
  <2>3. ASSUME NEW c \in Procs, Fork(p, c) \/ Kill(p, c) \/ Wait(p, c) PROVE Broken'
    <3>1. ~panicked /\ UNCHANGED panicked
      BY <2>3 DEF Fork, Kill, Wait, Call, At
    <3>2. QED
      BY <2>2, <3>1
  <2>4. ASSUME NEW n \in 0..MaxSize, Exec(p, n) \/ Grow(p, n) \/ Shrink(p, n) PROVE Broken'
    <3>1. ~panicked /\ UNCHANGED panicked
      BY <2>4 DEF Exec, Grow, Shrink, Call, At
    <3>2. QED
      BY <2>2, <3>1
  <2>5. CASE Stack(p) \/ SetupKvm(p) \/ MapPage(p) \/ ForkDone(p) \/ ExecDone(p) \/ GrowDone(p)
             \/ Grep(p) \/ GrepDone(p)
    <3>1. ~panicked /\ UNCHANGED panicked
      BY <2>5 DEF Stack, SetupKvm, MapPage, ForkDone, ExecDone, GrowDone, Grep, GrepDone, Call, At
    <3>2. QED
      BY <2>2, <3>1
  <2>6. ASSUME NEW call, Open(p, call) PROVE Broken'
    <3>1. ~panicked /\ UNCHANGED panicked
      BY <2>6 DEF Open, Call, At
    <3>2. QED
      BY <2>2, <3>1
  <2>7. CASE SecondFile(p) \/ PipeBuffer(p) \/ Install(p) \/ FileClose(p) \/ PipeClose(p)
    <3>1. ~panicked /\ UNCHANGED panicked
      BY <2>7 DEF SecondFile, PipeBuffer, Install, FileClose, PipeClose, At, Busy
    <3>2. QED
      BY <2>2, <3>1
  <2>8. ASSUME NEW fd \in Fds, NEW n, Dup(p, fd) \/ Close(p, fd) \/ Transfer(p, fd, n) PROVE Broken'
    <3>1. ~panicked /\ UNCHANGED panicked
      BY <2>8 DEF Dup, Close, Transfer, Call, At
    <3>2. QED
      BY <2>2, <3>1
  <2>9. CASE ReadTry(p) \/ WriteTry(p) \/ Exit(p) \/ Zombie(p)
    <3>1. ~panicked /\ UNCHANGED panicked
      BY <2>9 DEF ReadTry, WriteTry, Exit, Zombie, At
    <3>2. QED
      BY <2>2, <3>1
  <2>10. CASE NextPage(p)
    <3>1. CASE UNCHANGED panicked
      <4>1. ~panicked
        BY <2>10 DEF NextPage, At
      <4>2. QED
        BY <2>2, <3>1, <4>1
    <3>2. CASE ~UNCHANGED panicked
      <4>1. /\ state[p] = "live" /\ job[p].call = "fork" /\ Missing(p) # {}
            /\ Min(Missing(p)) \notin space[p].pages /\ UNCHANGED <<state, space>>
        BY <2>10, <3>2 DEF NextPage, At
      <4>2. PICK m : m = Min(Missing(p))
        OBVIOUS
      <4>3. m \in Missing(p) /\ size[p] \in Nat /\ job[p].goal \in Nat
        BY <4>1, <4>2, MissingType
      <4>4. CallFits(p) /\ EntryFits(p)
        BY DEF Shaped
      <4>5. m \in 0..size[p] - 1
        BY <4>1, <4>3, <4>4 DEF Missing, CallFits
      <4>6. 0 \notin space[p].pages
        BY <4>1, <4>2, <4>4, <4>5 DEF EntryFits
      <4>7. QED
        BY <4>1, <4>6 DEF Broken
    <3>3. QED
      BY <3>1, <3>2
  <2>11. QED
    BY <2>1, <2>3, <2>4, <2>5, <2>6, <2>7, <2>8, <2>9, <2>10
<1>3. QED
  BY <1>1, <1>2

\* The pages are all accounted for when the system starts.
LEMMA InitPages ==
  ASSUME ResInit
  PROVE  PagesCounted /\ Broken
<1>1. PICK shared \in BOOLEAN :
        LET live == IF shared THEN {1, 2} ELSE {1}
        IN /\ free = NPages - Cardinality(live) * (1 + Pages(Small)) - (IF shared THEN 1 ELSE 0)
           /\ kstack = [p \in Procs |-> IF p \in live THEN 1 ELSE 0]
           /\ space = [p \in Procs |-> IF p \in live THEN Small ELSE NoSpace]
           /\ pipes = [k \in Pipes |-> IF shared /\ k = 1 THEN NewPipe ELSE NoPipe]
           /\ job = [p \in Procs |-> User]
           /\ panicked = FALSE
  BY DEF ResInit
<1> PICK k0 : k0 = KernelTables + 4
  OBVIOUS
<1>2. k0 \in Nat /\ NPages \in Nat /\ 1 + Pages(Small) = k0
  <2>1. KernelTables \in Nat /\ NPages \in Nat /\ Pages(Small) = KernelTables + 3
    BY SmallType, ResourcesAssumption DEF ResourcesAssumption
  <2>2. QED
    BY <2>1
<1>3. ASSUME NEW p \in Procs
      PROVE  Owned(p) = IF p = 1 \/ (shared /\ p = 2) THEN k0 ELSE 0
  <2>1. job[p].new = NoSpace /\ job[p].mem = 0 /\ Pages(NoSpace) = 0
    BY <1>1, UserFits, PagesType DEF User
  <2>2. CASE p = 1 \/ (shared /\ p = 2)
    <3>1. kstack[p] = 1 /\ space[p] = Small
      BY <1>1, <2>2
    <3>2. Owned(p) = 1 + Pages(Small) + 0 + 0
      BY <2>1, <3>1 DEF Owned
    <3>3. Pages(Small) \in Nat
      BY SmallType, PagesType
    <3>4. QED
      BY <2>2, <3>2, <3>3, <1>2
  <2>3. CASE ~(p = 1 \/ (shared /\ p = 2))
    <3>1. kstack[p] = 0 /\ space[p] = NoSpace
      BY <1>1, <2>3
    <3>2. QED
      BY <2>1, <2>3, <3>1 DEF Owned
  <2>4. QED
    BY <2>2, <2>3
<1>4. Cardinality({1}) = 1 /\ Cardinality({1, 2}) = 2
  <2>1. IsFiniteSet({1}) /\ Cardinality({1}) = 1
    BY FS_Singleton
  <2>2. {1, 2} = {1} \cup {2}
    OBVIOUS
  <2>3. QED
    BY <2>1, <2>2, FS_AddElement
<1>5. Cardinality(There) = IF shared THEN 1 ELSE 0
  <2>1. NewPipe.there /\ ~NoPipe.there /\ 1 \in Pipes
    BY Basics DEF NewPipe, NoPipe
  <2>2. There = IF shared THEN {1} ELSE {}
    BY <1>1, <2>1 DEF There
  <2>3. QED
    BY <2>2, <1>4, FS_EmptySet
<1> DEFINE u == [p \in Procs |-> Owned(p)]
           y == [p \in Procs |-> IF p = 1 THEN k0 ELSE 0]
           z == [p \in Procs |-> 0]
<1>6. \A p \in Procs : /\ u[p] = IF p = 1 \/ (shared /\ p = 2) THEN k0 ELSE 0
                       /\ y[p] = IF p = 1 THEN k0 ELSE 0
                       /\ z[p] = 0
  BY <1>3
<1>7. PagesCounted <=> NPages = free + SumFunctionOnSet(u, Procs) + Cardinality(There)
  BY DEF PagesCounted
<1> HIDE DEF u, y, z
<1>8. IsFiniteSet(Procs) /\ 1 \in Procs /\ 2 \in Procs
  BY Basics
<1>9. SumFunctionOnSet(z, Procs) = 0
  BY <1>6, <1>8, SumType
<1>10. SumFunctionOnSet(y, Procs) = SumFunctionOnSet(z, Procs) + (IF 1 \in Procs THEN y[1] - z[1] ELSE 0)
  <2>1. \A p \in Procs : z[p] \in Int /\ y[p] \in Int
    BY <1>2, <1>6
  <2>2. \A p \in Procs \ {1} : y[p] = z[p]
    BY <1>6
  <2>3. QED
    BY <1>8, <2>1, <2>2, SumUpdate
<1>11. SumFunctionOnSet(u, Procs) = SumFunctionOnSet(y, Procs) + (IF 2 \in Procs THEN u[2] - y[2] ELSE 0)
  <2>1. \A p \in Procs : u[p] \in Int /\ y[p] \in Int
    BY <1>2, <1>6
  <2>2. \A p \in Procs \ {2} : u[p] = y[p]
    BY <1>6
  <2>3. QED
    BY <1>8, <2>1, <2>2, SumUpdate
<1>12. SumFunctionOnSet(u, Procs) = IF shared THEN k0 + k0 ELSE k0
  BY <1>2, <1>6, <1>8, <1>9, <1>10, <1>11
<1>13. free = IF shared THEN NPages - (k0 + k0) - 1 ELSE NPages - k0
  BY <1>1, <1>2, <1>4
<1>14. PagesCounted
  BY <1>2, <1>5, <1>7, <1>12, <1>13
<1>15. QED
  BY <1>1, <1>14 DEF Broken

\* The pages are all accounted for in every reachable state.
LEMMA PagesInvariant == ResSpec => [](Shaped /\ FilesInv /\ PagesCounted /\ Broken)
<1>1. ResInit => Shaped /\ FilesInv /\ PagesCounted /\ Broken
  BY InitShaped, InitFiles, InitPages
<1>2. Shaped /\ FilesInv /\ PagesCounted /\ Broken /\ [ResNext]_resvars
        => (Shaped /\ FilesInv /\ PagesCounted /\ Broken)'
  BY StepFiles, StepPages, StepBroken
<1>3. QED
  BY <1>1, <1>2, PTL DEF ResSpec

\* In every state each page of memory is on the free list or has exactly one owner:
\* a page table, a kernel stack, a pipe, or the call that has just allocated it,
\* whichever kalloc() of fork(), exec(), sbrk(), pipe() or grep_syscall() fails; and
\* copyuvm() panics only for a process that has given back all its memory.
THEOREM PagesAccounted == ResSpec => []PagesExact
<1>1. Shaped /\ FilesInv /\ PagesCounted /\ Broken => PagesExact
  <2> SUFFICES ASSUME Shaped, FilesInv, PagesCounted, Broken PROVE PagesExact
    OBVIOUS
  <2> DEFINE u == [p \in Procs |-> Owned(p)]
  <2>1. \A p \in Procs : u[p] \in Int /\ u[p] >= 0
    BY OwnedParts
  <2>2. NPages = free + SumFunctionOnSet(u, Procs) + Cardinality(There)
    BY DEF PagesCounted
  <2> HIDE DEF u
  <2>3. SumFunctionOnSet(u, Procs) \in Int /\ SumFunctionOnSet(u, Procs) >= 0
    BY <2>1, Basics, SumType
  <2>4. free \in 0..NPages
    <3>1. free \in Nat /\ Cardinality(There) \in Nat
      BY ThereType
    <3>2. QED
      BY <3>1, <2>2, <2>3
  <2>5. ref \in [Files -> Nat]
    <3>1. \A f \in Files : ref[f] \in Nat
      BY UsesCounted DEF FilesInv
    <3>2. ref \in [Files -> Int]
      BY DEF Shaped, ResTyped
    <3>3. QED
      BY <3>1, <3>2
  <2>6. kind \in [Files -> {"none", "inode", "read", "write"}]
    BY DEF Shaped, ResTyped, Ends
  <2>7. ResTypeOK
    BY <2>4, <2>5, <2>6 DEF ResTypeOK, Shaped, ResTyped
  <2>8. NPages = free + SumFunctionOnSet([p \in Procs |-> Owned(p)], Procs)
                   + Cardinality({k \in Pipes : pipes[k].there})
    BY <2>2 DEF u, There
  <2>9. QED
    BY <2>7, <2>8 DEF PagesExact, Broken
<1>2. QED
  BY <1>1, PagesInvariant, PTL

-----------------------------------------------------------------------------
(* Pipes: the bytes are in order and nobody sleeps for nothing. *)

\* The bytes between the counters are the last ones written.
Ordered(q) ==
  /\ Count(q) <= PIPESIZE
  /\ \A i \in 0..Count(q) - 1 :
       q.data[((q.nread + i) % CounterSize) % PIPESIZE] = (q.nread + i) % CounterSize

\* PIPESIZE divides 2^32: a counter that wraps keeps its place in the buffer.
LEMMA SamePlace ==
  ASSUME NEW x \in Int
  PROVE  (x % CounterSize) % PIPESIZE = x % PIPESIZE
<1>1. /\ CounterSize \in Nat \ {0} /\ PIPESIZE \in Nat \ {0} /\ CounterSize % PIPESIZE = 0
  BY ResourcesAssumption DEF ResourcesAssumption
<1>2. PICK d \in Int : CounterSize = PIPESIZE * d
  <2>1. CounterSize \in Int
    BY <1>1
  <2>2. PICK d \in Int : CounterSize = PIPESIZE * d + (CounterSize % PIPESIZE)
    BY <2>1, <1>1, Euclid
  <2>3. CounterSize = PIPESIZE * d
    BY <2>2, <1>1
  <2>4. QED
    BY <2>3
<1>3. PICK k \in Int, s \in 0..CounterSize - 1 : x = CounterSize * k + s /\ s = x % CounterSize
  BY <1>1, Euclid
<1>4. s \in Int
  BY <1>1, <1>3
<1>5. PICK l \in Int, t \in 0..PIPESIZE - 1 : s = PIPESIZE * l + t /\ t = s % PIPESIZE
  BY <1>1, <1>4, Euclid
<1>6. CounterSize * k = PIPESIZE * (d * k)
  BY <1>1, <1>2
<1>7. d * k \in Int
  OBVIOUS
<1>8. x = PIPESIZE * (d * k + l) + t
  <2> PICK e \in Int : e = d * k
    BY <1>7
  <2>1. x = PIPESIZE * e + (PIPESIZE * l + t)
    BY <1>3, <1>5, <1>6
  <2>2. QED
    BY <2>1, <1>1
<1>9. d * k + l \in Int
  BY <1>7
<1>10. x % PIPESIZE = t
  BY <1>1, <1>8, <1>9, Remainder
<1>11. QED
  BY <1>3, <1>5, <1>10

\* Count() is the distance between the counters.
LEMMA CountMeans ==
  ASSUME NEW q \in PipeRecords
  PROVE  /\ (q.nread + Count(q)) % CounterSize = q.nwrite
         /\ \A n \in Counters : (q.nread + n) % CounterSize = q.nwrite => n = Count(q)
<1>1. /\ Count(q) \in Counters /\ q.nread \in Int /\ q.nwrite \in Int
      /\ CounterSize \in Nat \ {0} /\ Counters \subseteq Nat
  BY CountType
<1>2. q.nread \in Counters /\ q.nwrite \in Counters
  BY DEF PipeRecords
<1> PICK c, r, w : c = Count(q) /\ r = q.nread /\ w = q.nwrite
  OBVIOUS
<1>6. c \in 0..CounterSize - 1 /\ r \in 0..CounterSize - 1 /\ w \in 0..CounterSize - 1
  BY <1>1, <1>2 DEF Counters
<1>3. (r + c) % CounterSize = w
  <2> DEFINE x == w + CounterSize - r
  <2>1. x \in Int /\ x + r = CounterSize * 1 + w /\ 1 \in Int /\ CounterSize * 1 + w \in Int /\ r \in Int
    BY <1>1, <1>6
  <2>2. c = x % CounterSize
    BY DEF Count
  <2> HIDE DEF x
  <2>3. ((x % CounterSize) + r) % CounterSize = (x + r) % CounterSize
    BY <2>1, <1>1, ResidueSum
  <2>4. (CounterSize * 1 + w) % CounterSize = w
    BY <2>1, <1>1, <1>6, Remainder
  <2>5. c + r = r + c
    BY <1>6
  <2>6. (c + r) % CounterSize = w
    BY <2>1, <2>2, <2>3, <2>4
  <2>7. QED
    BY <2>5, <2>6
<1>4. ASSUME NEW n \in 0..CounterSize - 1, (r + n) % CounterSize = w PROVE n = c
  <2>1. /\ r + n \in Int /\ r + c \in Int /\ r + n - CounterSize < r + c /\ r + c < r + n + CounterSize
    BY <1>1, <1>6
  <2>2. (r + n) % CounterSize = (r + c) % CounterSize
    BY <1>3, <1>4
  <2>3. r + n = r + c
    BY <2>1, <2>2, <1>1, Residues
  <2>4. QED
    BY <2>3, <1>6
<1>5. QED
  BY <1>3, <1>4 DEF Counters

\* The counters meet exactly when the pipe is empty, and the loop of pipewrite()
\* puts in what there is room for.
LEMMA RoomMeans ==
  ASSUME NEW q \in PipeRecords
  PROVE  /\ Count(q) = 0 <=> q.nread = q.nwrite
         /\ Count(q) <= PIPESIZE => Room(q) = PIPESIZE - Count(q)
<1>1. /\ Count(q) \in Counters /\ q.nread \in Counters /\ q.nwrite \in Counters
      /\ CounterSize \in Nat \ {0} /\ PIPESIZE \in Nat \ {0} /\ PIPESIZE < CounterSize
  BY CountType DEF PipeRecords
<1> PICK n, r, w : n = Count(q) /\ r = q.nread /\ w = q.nwrite
  OBVIOUS
<1>2. n \in 0..CounterSize - 1 /\ r \in 0..CounterSize - 1 /\ w \in 0..CounterSize - 1
  BY <1>1 DEF Counters
<1>3. (r + n) % CounterSize = w
  BY CountMeans
<1>4. n = 0 <=> r = w
  <2>1. ASSUME n = 0 PROVE r = w
    <3>1. r + n = CounterSize * 0 + r /\ r + n \in Int /\ 0 \in Int
      BY <2>1, <1>1, <1>2
    <3>2. QED
      BY <3>1, <1>1, <1>2, <1>3, Remainder
  <2>2. ASSUME r = w PROVE n = 0
    <3>1. 0 \in Counters /\ r + 0 = CounterSize * 0 + r /\ r + 0 \in Int /\ 0 \in Int
      BY <1>1, <1>2 DEF Counters
    <3>2. (r + 0) % CounterSize = r
      BY <3>1, <1>1, <1>2, Remainder
    <3>3. QED
      BY <3>1, <3>2, <2>2, CountMeans
  <2>3. QED
    BY <2>1, <2>2
<1>5. ASSUME n <= PIPESIZE PROVE Room(q) = PIPESIZE - n
  <2>1. PICK k \in Int : r + n = CounterSize * k + w
    <3>1. r + n \in Int
      BY <1>1, <1>2
    <3>2. /\ r + n = CounterSize * ((r + n) \div CounterSize) + ((r + n) % CounterSize)
          /\ (r + n) \div CounterSize \in Int
      BY <3>1, <1>1, Euclid
    <3>3. QED
      BY <3>2, <1>3
  <2> DEFINE x == r + PIPESIZE + CounterSize - w
  <2>2. x = CounterSize * (k + 1) + (PIPESIZE - n) /\ x \in Int /\ k + 1 \in Int
        /\ PIPESIZE - n \in 0..CounterSize - 1
    BY <2>1, <1>1, <1>2, <1>5
  <2>3. Room(q) = x % CounterSize
    BY DEF Room
  <2> HIDE DEF x
  <2>4. QED
    BY <2>2, <2>3, <1>1, Remainder
<1>6. QED
  BY <1>4, <1>5

\* piperead() takes m bytes.
LEMMA ReadOrdered ==
  ASSUME NEW q \in PipeRecords, Ordered(q), NEW m \in 0..Count(q),
         NEW t, t = [q EXCEPT !.nread = (@ + m) % CounterSize]
  PROVE  /\ t \in PipeRecords /\ Ordered(t) /\ Count(t) = Count(q) - m
         /\ t.readopen = q.readopen /\ t.writeopen = q.writeopen
<1>1. /\ Count(q) \in Counters /\ q.nread \in Counters /\ q.nwrite \in Counters
      /\ CounterSize \in Nat \ {0} /\ PIPESIZE \in Nat \ {0} /\ PIPESIZE < CounterSize
  BY CountType DEF PipeRecords
<1> PICK c, r, w : c = Count(q) /\ r = q.nread /\ w = q.nwrite
  OBVIOUS
<1>2. c \in 0..CounterSize - 1 /\ r \in 0..CounterSize - 1 /\ w \in 0..CounterSize - 1 /\ m \in 0..c
  BY <1>1 DEF Counters
<1>3. (r + m) % CounterSize \in Counters
  <2>1. r + m \in Int
    BY <1>1, <1>2
  <2>2. QED
    BY <2>1, <1>1, Euclid DEF Counters
<1>4. /\ t \in PipeRecords /\ t.nread = (r + m) % CounterSize /\ t.nwrite = w /\ t.data = q.data
      /\ t.readopen = q.readopen /\ t.writeopen = q.writeopen
  BY <1>3 DEF PipeRecords
<1>5. ASSUME NEW i \in Int PROVE (t.nread + i) % CounterSize = (r + (m + i)) % CounterSize
  <2>1. r + m \in Int /\ (r + m) + i = r + (m + i)
    BY <1>1, <1>2
  <2>2. (((r + m) % CounterSize) + i) % CounterSize = ((r + m) + i) % CounterSize
    BY <2>1, <1>1, ResidueSum
  <2>3. QED
    BY <2>1, <2>2, <1>4
<1>6. Count(t) = c - m
  <2>1. c - m \in Counters /\ c - m \in Int /\ m + (c - m) = c
    BY <1>1, <1>2 DEF Counters
  <2>2. (r + c) % CounterSize = w
    BY CountMeans
  <2>3. (t.nread + (c - m)) % CounterSize = w
    BY <2>1, <2>2, <1>5
  <2>4. QED
    BY <2>1, <2>3, <1>4, CountMeans
<1>7. Ordered(t)
  <2>1. ASSUME NEW i \in 0..Count(t) - 1
        PROVE  t.data[((t.nread + i) % CounterSize) % PIPESIZE] = (t.nread + i) % CounterSize
    <3>1. i \in Int /\ m + i \in 0..c - 1
      BY <1>1, <1>2, <1>6
    <3>2. q.data[((r + (m + i)) % CounterSize) % PIPESIZE] = (r + (m + i)) % CounterSize
      BY <3>1 DEF Ordered
    <3>3. QED
      BY <3>1, <3>2, <1>4, <1>5
  <2>2. Count(t) <= PIPESIZE
    BY <1>1, <1>2, <1>6 DEF Ordered
  <2>3. QED
    BY <2>1, <2>2 DEF Ordered
<1>8. QED
  BY <1>4, <1>6, <1>7

\* pipewrite() puts m bytes in, as many as there is room for at most.
LEMMA PutOrdered ==
  ASSUME NEW q \in PipeRecords, Ordered(q), NEW m \in 0..PIPESIZE - Count(q)
  PROVE  Ordered(PipePut(q, m)) /\ Count(PipePut(q, m)) = Count(q) + m
<1>1. /\ Count(q) \in Counters /\ q.nread \in Counters /\ q.nwrite \in Counters
      /\ CounterSize \in Nat \ {0} /\ PIPESIZE \in Nat \ {0} /\ PIPESIZE < CounterSize
  BY CountType DEF PipeRecords
<1> PICK c, r, w, t : c = Count(q) /\ r = q.nread /\ w = q.nwrite /\ t = PipePut(q, m)
  OBVIOUS
<1>2. /\ c \in 0..CounterSize - 1 /\ r \in 0..CounterSize - 1 /\ w \in 0..CounterSize - 1
      /\ c <= PIPESIZE
  BY <1>1 DEF Counters, Ordered
<1>3. m \in Nat /\ c + m <= PIPESIZE
  BY <1>1, <1>2
<1>4. t \in PipeRecords /\ t.nwrite = (w + m) % CounterSize /\ t.nread = r
  BY <1>3, PipePutType
<1> DEFINE new(x) == {j \in 0..m - 1 : (w + j) % PIPESIZE = x}
<1>5. \A x \in 0..PIPESIZE - 1 :
        t.data[x] = IF new(x) = {} THEN q.data[x] ELSE (w + Max(new(x))) % CounterSize
  <2> DEFINE data == [i \in DOMAIN q.data |->
                        IF new(i) = {} THEN q.data[i] ELSE (w + Max(new(i))) % CounterSize]
  <2>1. t = [q EXCEPT !.nwrite = (w + m) % CounterSize, !.data = data]
    BY DEF PipePut
  <2> HIDE DEF data
  <2>2. t.data = data /\ DOMAIN q.data = 0..PIPESIZE - 1
    BY <2>1 DEF PipeRecords
  <2> HIDE DEF new
  <2>3. QED
    BY <2>2 DEF data
<1>6. (r + c) % CounterSize = w
  BY CountMeans
<1>7. ASSUME NEW j \in Int PROVE (w + j) % CounterSize = (r + (c + j)) % CounterSize
  <2>1. r + c \in Int /\ (r + c) + j = r + (c + j)
    BY <1>1, <1>2
  <2>2. (((r + c) % CounterSize) + j) % CounterSize = ((r + c) + j) % CounterSize
    BY <2>1, <1>1, ResidueSum
  <2>3. QED
    BY <2>1, <2>2, <1>6
<1>8. Count(t) = c + m
  <2>1. c + m \in Counters /\ m \in Int
    BY <1>1, <1>2, <1>3 DEF Counters
  <2>2. (r + (c + m)) % CounterSize = (w + m) % CounterSize
    BY <2>1, <1>7
  <2>3. QED
    BY <2>1, <2>2, <1>4, CountMeans
\* Where the byte number j goes, and what else is there.
<1>9. ASSUME NEW j \in 0..m - 1, NEW i \in 0..c + m - 1
      PROVE  (w + j) % PIPESIZE = (r + i) % PIPESIZE <=> c + j = i
  <2>1. /\ r + (c + j) \in Int /\ r + i \in Int /\ w + j \in Int /\ j \in Int /\ i \in Int
        /\ c + j \in 0..PIPESIZE - 1 /\ i \in 0..PIPESIZE - 1
    BY <1>1, <1>2, <1>3
  <2>2. (w + j) % PIPESIZE = (r + (c + j)) % PIPESIZE
    <3>1. ((w + j) % CounterSize) % PIPESIZE = (w + j) % PIPESIZE
      BY <2>1, SamePlace
    <3>2. ((r + (c + j)) % CounterSize) % PIPESIZE = (r + (c + j)) % PIPESIZE
      BY <2>1, SamePlace
    <3>3. (w + j) % CounterSize = (r + (c + j)) % CounterSize
      BY <2>1, <1>7
    <3>4. QED
      BY <3>1, <3>2, <3>3
  <2>3. ASSUME (r + (c + j)) % PIPESIZE = (r + i) % PIPESIZE PROVE c + j = i
    <3>1. PICK a \in Int, b \in Int : a = r + (c + j) /\ b = r + i
      BY <2>1
    <3>2. a - PIPESIZE < b /\ b < a + PIPESIZE
      BY <2>1, <3>1, <1>1, <1>2
    <3>3. a % PIPESIZE = b % PIPESIZE
      BY <2>3, <3>1
    <3>4. a = b
      BY <3>2, <3>3, <1>1, Residues
    <3>5. QED
      BY <3>1, <3>4, <2>1, <1>1, <1>2
  <2>4. QED
    BY <2>2, <2>3
<1>10. ASSUME NEW i \in 0..c + m - 1
       PROVE  t.data[((r + i) % CounterSize) % PIPESIZE] = (r + i) % CounterSize
  <2>1. r + i \in Int /\ i \in Int
    BY <1>1, <1>2, <1>3
  <2> PICK x : x = (r + i) % PIPESIZE
    OBVIOUS
  <2>2. x \in 0..PIPESIZE - 1 /\ ((r + i) % CounterSize) % PIPESIZE = x
    BY <2>1, <1>1, Euclid, SamePlace
  <2>3. CASE i < c
    <3>1. new(x) = {}
      <4>1. \A j \in 0..m - 1 : c + j # i
        BY <2>1, <2>3, <1>2, <1>3
      <4>2. QED
        BY <4>1, <1>9
    <3>2. i \in 0..c - 1
      BY <2>1, <2>3, <1>2
    <3>3. q.data[((r + i) % CounterSize) % PIPESIZE] = (r + i) % CounterSize
      BY <3>2 DEF Ordered
    <3> HIDE DEF new
    <3>4. QED
      BY <3>1, <3>3, <2>2, <1>5
  <2>4. CASE ~(i < c)
    <3>1. i - c \in 0..m - 1 /\ i - c \in Int /\ c + (i - c) = i
      BY <2>1, <2>4, <1>2, <1>3
    <3>2. new(x) = {i - c}
      <4>1. \A j \in 0..m - 1 : c + j = i <=> j = i - c
        BY <2>1, <1>2, <1>3
      <4>2. \A j \in 0..m - 1 : (w + j) % PIPESIZE = x <=> j = i - c
        BY <4>1, <1>9
      <4>3. QED
        BY <4>2, <3>1
    <3>3. Max({i - c}) = i - c
      <4>1. {i - c} \in SUBSET (i - c..i - c) /\ {i - c} # {}
        BY <3>1
      <4>2. Max({i - c}) \in {i - c}
        BY <3>1, <4>1, Greatest
      <4>3. QED
        BY <4>2
    <3>4. (w + (i - c)) % CounterSize = (r + i) % CounterSize
      BY <3>1, <1>7
    <3> HIDE DEF new
    <3>5. new(x) # {} /\ Max(new(x)) = i - c
      BY <3>2, <3>3
    <3>6. QED
      BY <3>4, <3>5, <2>2, <1>5
  <2>5. QED
    BY <2>3, <2>4
<1>11. Ordered(t)
  <2>1. Count(t) <= PIPESIZE
    BY <1>3, <1>8
  <2>2. ASSUME NEW i \in 0..Count(t) - 1
        PROVE  t.data[((t.nread + i) % CounterSize) % PIPESIZE] = (t.nread + i) % CounterSize
    <3>1. i \in 0..c + m - 1
      BY <1>2, <1>3, <1>8
    <3>2. t.nread = r
      BY <1>4
    <3> HIDE DEF new
    <3>3. QED
      BY <3>1, <3>2, <1>10
  <2>3. QED
    BY <2>1, <2>2 DEF Ordered
<1>12. t = PipePut(q, m) /\ c = Count(q)
  OBVIOUS
<1>13. QED
  BY <1>8, <1>11, <1>12, Zenon

\* Why a process may sleep in piperead() or pipewrite().
Asleep(j) == j.pc \in {"nread", "nwrite"}
HasReason(j, q) ==
  /\ j.pc = "nread" /\ ~j.missed => Count(q) = 0 /\ q.writeopen
  /\ j.pc = "nwrite" => Count(q) = PIPESIZE /\ q.readopen
PipesInv ==
  /\ \A k \in Pipes : Ordered(pipes[k])
  /\ \A p \in Procs : HasReason(job[p], pipes[PipeOf(p)])

\* A process that does not sleep needs no reason to.
LEMMA AwakeNeedsNone ==
  ASSUME NEW j, NEW q, ~Asleep(j)
  PROVE  HasReason(j, q)
  BY DEF Asleep, HasReason

\* A step that touches no pipe and puts nobody to sleep.
LEMMA CalmPipes ==
  ASSUME Shaped, PipesInv, UNCHANGED <<pipe, pipes>>,
         \/ UNCHANGED job
         \/ \E p \in Procs : \E j : Goto(p, j) /\ ~Asleep(j)
  PROVE  PipesInv'
<1>1. \A k \in Pipes : Ordered(pipes'[k])
  BY DEF PipesInv
<1>2. ASSUME NEW q \in Procs PROVE HasReason(job'[q], pipes'[pipe'[job'[q].file]])
  <2>1. job'[q] = job[q] \/ ~Asleep(job'[q])
    BY DEF Goto, Shaped, ResTyped
  <2>2. CASE job'[q] = job[q]
    BY <2>2 DEF PipesInv, PipeOf
  <2>3. CASE ~Asleep(job'[q])
    BY <2>3, AwakeNeedsNone
  <2>4. QED
    BY <2>1, <2>2, <2>3
<1>3. QED
  BY <1>1, <1>2 DEF PipesInv, PipeOf, Ordered, HasReason, Count

\* The calls for memory leave the pipes alone and put nobody to sleep on one.
LEMMA MemoryAwake ==
  ASSUME Shaped, NEW p \in Procs, NEW c, NEW n,
         \/ Fork(p, c) \/ Exec(p, n) \/ Grow(p, n) \/ Shrink(p, n) \/ Stack(p) \/ SetupKvm(p)
         \/ NextPage(p) \/ MapPage(p) \/ ForkDone(p) \/ ExecDone(p) \/ GrowDone(p) \/ Grep(p)
         \/ GrepDone(p) \/ Zombie(p) \/ Wait(p, c)
  PROVE  /\ UNCHANGED <<pipe, pipes>>
         /\ UNCHANGED job \/ \E j : Goto(p, j) /\ ~Asleep(j)
<1>1. ~Asleep(User) /\ job[p] \in Jobs
  BY DEF Asleep, User, Shaped, ResTyped
<1>2. GiveUp(p) => \E j : Goto(p, j) /\ ~Asleep(j)
  BY <1>1 DEF GiveUp, Return
<1>3. CASE Fork(p, c)
  <2>1. ~Asleep([User EXCEPT !.call = "fork", !.pc = "stack", !.child = c, !.goal = size[p]])
    BY DEF Asleep, User
  <2>2. QED
    BY <1>3, <2>1 DEF Fork, files
<1>4. CASE Exec(p, n)
  <2>1. ~Asleep([User EXCEPT !.call = "exec", !.pc = "table", !.goal = n])
    BY DEF Asleep, User
  <2>2. QED
    BY <1>4, <2>1 DEF Exec, files
<1>5. CASE Grow(p, n)
  <2>1. ~Asleep([User EXCEPT !.call = "sbrk", !.pc = "page", !.goal = n])
    BY DEF Asleep, User
  <2>2. QED
    BY <1>5, <2>1 DEF Grow, files
<1>6. CASE Grep(p)
  <2>1. ~Asleep([User EXCEPT !.call = "grep", !.pc = "searches", !.mem = 1])
    BY DEF Asleep, User
  <2>2. QED
    BY <1>6, <2>1 DEF Grep, files
<1>7. CASE Shrink(p, n) \/ Wait(p, c)
  BY <1>7 DEF Shrink, Wait, files
<1>8. CASE Stack(p)
  <2>1. ~Asleep([job[p] EXCEPT !.pc = "table"])
    BY <1>1 DEF Asleep, Jobs
  <2>2. GiveUp(p) \/ Goto(p, [job[p] EXCEPT !.pc = "table"])
    BY <1>8 DEF Stack
  <2>3. QED
    BY <1>8, <1>2, <2>1, <2>2 DEF Stack, files
<1>9. CASE SetupKvm(p)
  <2> DEFINE s == job[p].new
             t == IF s.dir = 0 THEN [s EXCEPT !.dir = 1] ELSE [s EXCEPT !.ktabs = @ + 1]
             l == IF t.ktabs = KernelTables THEN "page" ELSE job[p].pc
  <2>1. job[p].pc = "table"
    BY <1>9 DEF SetupKvm, At
  <2>2. l \in {"table", "page"}
    BY <2>1
  <2>3. GiveUp(p) \/ Goto(p, [job[p] EXCEPT !.new = t, !.pc = l])
    BY <1>9 DEF SetupKvm
  <2> HIDE DEF t, l
  <2>4. ~Asleep([job[p] EXCEPT !.new = t, !.pc = l])
    BY <1>1, <2>2 DEF Asleep, Jobs
  <2>5. QED
    BY <1>9, <1>2, <2>3, <2>4 DEF SetupKvm, files
<1>10. CASE NextPage(p)
  <2>1. ~Asleep([job[p] EXCEPT !.pc = "map", !.mem = 1])
    BY <1>1 DEF Asleep, Jobs
  <2>2. GiveUp(p) \/ Goto(p, [job[p] EXCEPT !.pc = "map", !.mem = 1]) \/ UNCHANGED job
    BY <1>10 DEF NextPage
  <2>3. QED
    BY <1>10, <1>2, <2>1, <2>2 DEF NextPage, files
<1>11. CASE MapPage(p)
  <2> DEFINE i == [job[p] EXCEPT !.pc = "page", !.mem = 0]
  <2>1. GiveUp(p) \/ Goto(p, i) \/ \E t : Goto(p, [i EXCEPT !.new = t])
    BY <1>11 DEF MapPage, Build
  <2>2. ~Asleep(i) /\ \A t : ~Asleep([i EXCEPT !.new = t])
    BY <1>1 DEF Asleep, Jobs
  <2> HIDE DEF i
  <2>3. QED
    BY <1>11, <1>2, <2>1, <2>2 DEF MapPage, files
<1>12. CASE ForkDone(p) \/ ExecDone(p) \/ GrowDone(p) \/ GrepDone(p) \/ Zombie(p)
  <2>1. GiveUp(p) \/ Goto(p, User)
    BY <1>12 DEF ForkDone, ExecDone, GrowDone, GrepDone, Zombie, Return
  <2>2. UNCHANGED <<pipe, pipes>>
    BY <1>12 DEF ForkDone, ExecDone, GrowDone, GrepDone, Zombie, files
  <2>3. QED
    BY <1>1, <1>2, <2>1, <2>2
<1>13. QED
  BY <1>3, <1>4, <1>5, <1>6, <1>7, <1>8, <1>9, <1>10, <1>11, <1>12

\* The calls for files that are not on a pipe leave the pipes alone, too.
LEMMA FilesAwake ==
  ASSUME Shaped, NEW p \in Procs, NEW call, NEW fd, NEW n,
         \/ Open(p, call) \/ SecondFile(p) \/ Install(p) \/ FileClose(p) \/ Dup(p, fd) \/ Close(p, fd)
         \/ Transfer(p, fd, n) \/ Exit(p)
  PROVE  /\ UNCHANGED <<pipe, pipes>>
         /\ UNCHANGED job \/ \E j : Goto(p, j) /\ ~Asleep(j)
<1>1. ~Asleep(User) /\ job[p] \in Jobs /\ JobFits(job[p])
  BY DEF Asleep, User, Shaped, ResTyped
<1>2. \A t : ~Asleep([User EXCEPT !.todo = t]) /\ ~Asleep([User EXCEPT !.pc = "exits", !.todo = t])
  BY DEF Asleep, User
<1>3. CASE Open(p, call)
  <2> DEFINE l == IF call = "open" THEN "installs" ELSE "second"
  <2>1. l \in {"installs", "second"} /\ Goto(p, [User EXCEPT !.call = call, !.pc = l, !.made = <<NewFile>>])
    BY <1>3 DEF Open
  <2> HIDE DEF l
  <2>2. ~Asleep([User EXCEPT !.call = call, !.pc = l, !.made = <<NewFile>>])
    BY <2>1 DEF Asleep, User
  <2>3. QED
    BY <1>3, <2>1, <2>2 DEF Open
<1>4. CASE SecondFile(p)
  <2>1. (\E t : Goto(p, [User EXCEPT !.todo = t])) \/ \E s : Goto(p, [job[p] EXCEPT !.pc = "buffer", !.made = s])
    BY <1>4 DEF SecondFile
  <2>2. \A s : ~Asleep([job[p] EXCEPT !.pc = "buffer", !.made = s])
    BY <1>1 DEF Asleep, Jobs
  <2>3. QED
    BY <1>2, <1>4, <2>1, <2>2 DEF SecondFile
<1>5. CASE Install(p)
  <2>1. (\E t : Goto(p, [User EXCEPT !.todo = t])) \/ Goto(p, User)
    BY <1>5 DEF Install, Return
  <2>2. QED
    BY <1>1, <1>2, <1>5, <2>1 DEF Install
<1>6. CASE FileClose(p)
  <2>1. PICK t : Goto(p, [job[p] EXCEPT !.todo = t])
    BY <1>6 DEF FileClose
  <2>2. job[p].pc \in {"user", "exits"}
    BY <1>1, <1>6 DEF FileClose, Busy, JobFits
  <2>3. ~Asleep([job[p] EXCEPT !.todo = t])
    BY <1>1, <2>2 DEF Asleep, Jobs
  <2>4. QED
    BY <1>6, <2>1, <2>3 DEF FileClose
<1>7. CASE Dup(p, fd)
  BY <1>7 DEF Dup
<1>8. CASE Close(p, fd)
  <2>1. PICK t : Goto(p, [User EXCEPT !.todo = t])
    BY <1>8 DEF Close
  <2>2. QED
    BY <1>2, <1>8, <2>1 DEF Close
<1>9. CASE Transfer(p, fd, n)
  <2> DEFINE l == IF kind[ofile[p][fd]] = "read" THEN "reads" ELSE "writes"
  <2>1. /\ l \in {"reads", "writes"}
        /\ Goto(p, [User EXCEPT !.pc = l, !.file = ofile[p][fd], !.n = n])
    BY <1>9 DEF Transfer
  <2> HIDE DEF l
  <2>2. ~Asleep([User EXCEPT !.pc = l, !.file = ofile[p][fd], !.n = n])
    BY <2>1 DEF Asleep, User
  <2>3. QED
    BY <1>9, <2>1, <2>2 DEF Transfer, files
<1>10. CASE Exit(p)
  <2>1. PICK t : Goto(p, [User EXCEPT !.pc = "exits", !.todo = t])
    BY <1>10 DEF Exit
  <2>2. QED
    BY <1>2, <1>10, <2>1 DEF Exit
<1>11. QED
  BY <1>3, <1>4, <1>5, <1>6, <1>7, <1>8, <1>9, <1>10

\* A step that changes one pipe: of who sleeps on it, or goes to sleep on it, each has a reason.
LEMMA PipesStep ==
  ASSUME Shaped, FilesInv, PipesInv, NEW k \in Pipes, NEW t, Ordered(t),
         UNCHANGED pipe, pipes' = [pipes EXCEPT ![k] = t],
         \A x \in Procs :
           \/ ~Asleep(job'[x])
           \/ job'[x] = job[x] /\ PipeOf(x) # k
           \/ job'[x].file = job[x].file /\ PipeOf(x) = k /\ HasReason(job'[x], t)
  PROVE  PipesInv'
<1>1. pipes \in [Pipes -> PipeRecords]
  BY DEF Shaped, ResTyped
<1>2. pipes'[k] = t /\ \A x \in Pipes \ {k} : pipes'[x] = pipes[x]
  BY <1>1
<1>3. \A x \in Pipes : Ordered(pipes'[x])
  BY <1>2 DEF PipesInv
<1>4. ASSUME NEW x \in Procs PROVE HasReason(job'[x], pipes'[pipe'[job'[x].file]])
  <2>1. CASE ~Asleep(job'[x])
    BY <2>1, AwakeNeedsNone
  <2>2. CASE Asleep(job'[x]) /\ job'[x] = job[x] /\ PipeOf(x) # k
    <3>1. Reading(job[x]) \/ Writing(job[x])
      BY <2>2 DEF Asleep, Reading, Writing
    <3>2. PipeOf(x) \in Pipes
      BY <3>1, PipeHeld
    <3>3. pipes'[PipeOf(x)] = pipes[PipeOf(x)]
      BY <3>2, <2>2, <1>2
    <3>4. HasReason(job[x], pipes[PipeOf(x)])
      BY DEF PipesInv
    <3>5. pipe'[job'[x].file] = PipeOf(x)
      BY <2>2 DEF PipeOf
    <3>6. QED
      BY <2>2, <3>3, <3>4, <3>5
  <2>3. CASE job'[x].file = job[x].file /\ PipeOf(x) = k /\ HasReason(job'[x], t)
    <3>1. pipe'[job'[x].file] = k
      BY <2>3 DEF PipeOf
    <3>2. QED
      BY <2>3, <3>1, <1>2
  <2>4. QED
    BY <2>1, <2>2, <2>3
<1>5. QED
  BY <1>3, <1>4 DEF PipesInv, PipeOf, Ordered, HasReason, Count

\* kill() wakes its victim, which then needs no reason.
LEMMA KillPipes ==
  ASSUME Shaped, PipesInv, NEW p \in Procs, NEW c \in Procs, Kill(p, c)
  PROVE  PipesInv'
<1>1. /\ UNCHANGED <<pipe, pipes>>
      /\ job' = [job EXCEPT ![c].pc =
                   IF @ = "nread" THEN "reads" ELSE IF @ = "nwrite" THEN "writes" ELSE @]
  BY DEF Kill, files
<1>2. \A k \in Pipes : Ordered(pipes'[k])
  BY <1>1 DEF PipesInv
<1>3. ASSUME NEW x \in Procs PROVE HasReason(job'[x], pipes'[pipe'[job'[x].file]])
  <2>1. job \in [Procs -> Jobs]
    BY DEF Shaped, ResTyped
  <2>2. CASE x # c
    <3>1. job'[x] = job[x]
      BY <2>1, <2>2, <1>1
    <3>2. QED
      BY <3>1, <1>1 DEF PipesInv, PipeOf
  <2>3. CASE x = c
    <3>1. job'[x].pc \notin {"nread", "nwrite"}
      BY <2>1, <2>3, <1>1 DEF Jobs
    <3>2. QED
      BY <3>1, AwakeNeedsNone DEF Asleep
  <2>4. QED
    BY <2>2, <2>3
<1>4. QED
  BY <1>2, <1>3 DEF PipesInv, PipeOf, Ordered, HasReason, Count

\* A new pipe is empty, and nobody sleeps on it.
LEMMA PipeBufferPipes ==
  ASSUME Shaped, FilesInv, PipesInv, NEW p \in Procs, PipeBuffer(p)
  PROVE  PipesInv'
<1>1. /\ job[p].pc = "buffer" /\ job[p] \in Jobs /\ JobFits(job[p]) /\ job \in [Procs -> Jobs]
      /\ pipes \in [Pipes -> PipeRecords] /\ pipe \in [Files -> Pipes \cup {0}]
  BY DEF PipeBuffer, At, Shaped, ResTyped
<1>2. PICK r, v \in Files : job[p].made = <<r, v>> /\ DOMAIN job[p].made = {1, 2}
  BY <1>1, MadePair DEF JobFits
<1>3. /\ job[p].made[1] = r /\ job[p].made[2] = v /\ kind[r] = "none" /\ kind[v] = "none"
  <2>1. job[p].made[1] = r /\ job[p].made[2] = v
    BY <1>2
  <2>2. Fresh(job[p])
    BY <1>1 DEF Fresh
  <2>3. QED
    BY <2>1, <2>2, <1>2 DEF FilesInv, FreshFiles
<1> DEFINE j == [job[p] EXCEPT !.pc = "installs"]
           fails == [User EXCEPT !.todo = Closes(job[p].made)]
<1>4. \/ Goto(p, fails) /\ UNCHANGED <<pipe, pipes>>
      \/ /\ Goto(p, j)
         /\ \E k \in Pipes : /\ ~pipes[k].there
                             /\ pipes' = [pipes EXCEPT ![k] = NewPipe]
                             /\ pipe' = [pipe EXCEPT ![r] = k, ![v] = k]
  BY <1>3 DEF PipeBuffer
<1>5. CASE Goto(p, fails) /\ UNCHANGED <<pipe, pipes>>
  <2>1. ~Asleep(fails)
    BY DEF Asleep, User
  <2> HIDE DEF fails
  <2>2. QED
    BY <1>5, <2>1, CalmPipes
<1>6. CASE /\ Goto(p, j)
           /\ \E k \in Pipes : /\ ~pipes[k].there
                               /\ pipes' = [pipes EXCEPT ![k] = NewPipe]
                               /\ pipe' = [pipe EXCEPT ![r] = k, ![v] = k]
  <2>1. PICK k \in Pipes : /\ ~pipes[k].there
                           /\ pipes' = [pipes EXCEPT ![k] = NewPipe]
                           /\ pipe' = [pipe EXCEPT ![r] = k, ![v] = k]
    BY <1>6
  <2>2. ~Asleep(j)
    BY <1>1 DEF Asleep, Jobs
  <2> HIDE DEF j
  <2>3. job'[p] = j /\ \A x \in Procs \ {p} : job'[x] = job[x]
    BY <1>1, <1>6 DEF Goto
  <2>4. /\ \A x \in Pipes \ {k} : pipes'[x] = pipes[x]
        /\ pipes'[k] = NewPipe
        /\ \A f \in Files \ {r, v} : pipe'[f] = pipe[f]
    BY <1>1, <2>1
  <2>5. Ordered(NewPipe)
    <3>1. NewPipe \in PipeRecords /\ NewPipe.nread = NewPipe.nwrite
      BY NewPipeType DEF NewPipe, NoPipe
    <3>2. Count(NewPipe) = 0 /\ PIPESIZE \in Nat
      BY <3>1, RoomMeans, CountType
    <3>3. QED
      BY <3>2 DEF Ordered
  <2>6. \A x \in Pipes : Ordered(pipes'[x])
    BY <2>4, <2>5 DEF PipesInv
  <2>7. ASSUME NEW x \in Procs PROVE HasReason(job'[x], pipes'[pipe'[job'[x].file]])
    <3>1. CASE ~Asleep(job'[x])
      BY <3>1, AwakeNeedsNone
    <3>2. CASE Asleep(job'[x])
      <4>1. job'[x] = job[x] /\ (Reading(job[x]) \/ Writing(job[x]))
        BY <2>2, <2>3, <3>2 DEF Asleep, Reading, Writing
      <4>2. PICK e \in Ends : HoldsEnd(x, job[x].file, e) /\ PipeOf(x) \in Pipes
        BY <4>1, PipeHeld DEF Ends
      <4>3. job[x].file \in Files /\ job[x].file \notin {r, v} /\ EndOf(job[x].file, PipeOf(x), e)
        BY <4>2, <1>3 DEF HoldsEnd, Ends, EndOf, PipeOf
      <4>4. pipes[PipeOf(x)].there
        <5>1. EndFits(PipeOf(x), e)
              /\ (pipes[PipeOf(x)].there <=> (pipes[PipeOf(x)].readopen \/ pipes[PipeOf(x)].writeopen))
          BY <4>2 DEF FilesInv, EndsExact
        <5>2. IsOpen(PipeOf(x), e)
          BY <4>3, <5>1 DEF EndFits
        <5>3. QED
          BY <5>1, <5>2 DEF IsOpen
      <4>5. PipeOf(x) # k
        BY <4>4, <2>1
      <4>6. pipe'[job'[x].file] = PipeOf(x) /\ pipes'[PipeOf(x)] = pipes[PipeOf(x)]
        BY <2>4, <4>1, <4>2, <4>3, <4>5 DEF PipeOf
      <4>7. HasReason(job[x], pipes[PipeOf(x)])
        BY DEF PipesInv
      <4>8. QED
        BY <4>1, <4>6, <4>7
    <3>3. QED
      BY <3>1, <3>2
  <2>8. QED
    BY <2>6, <2>7 DEF PipesInv, PipeOf, Ordered, HasReason, Count
<1>7. QED
  BY <1>4, <1>5, <1>6

\* Whoever still sleeps after a wakeup() slept on something else.
LEMMA StillAsleep ==
  ASSUME Shaped, NEW p \in Procs, NEW j, NEW k, NEW l \in {"nread", "nwrite"},
         Wakeup(p, j, k, l), NEW x \in Procs \ {p}, Asleep(job'[x])
  PROVE  job'[x] = job[x] /\ Asleep(job[x]) /\ (PipeOf(x) = k => job[x].pc # l)
<1>1. job[x] \in Jobs
  BY DEF Shaped, ResTyped
<1>2. ~Sleeps(x, k, l)
  <2>1. SUFFICES ASSUME Sleeps(x, k, l) PROVE FALSE
    OBVIOUS
  <2> DEFINE w == IF l = "nread" THEN "reads" ELSE "writes"
  <2>2. job'[x] = [job[x] EXCEPT !.pc = w, !.missed = FALSE]
    BY <2>1 DEF Wakeup
  <2>3. w \notin {"nread", "nwrite"}
    OBVIOUS
  <2> HIDE DEF w
  <2>4. job'[x].pc = w
    BY <1>1, <2>2 DEF Jobs
  <2>5. QED
    BY <2>3, <2>4 DEF Asleep
<1>3. job'[x] = job[x]
  BY <1>2 DEF Wakeup
<1>4. QED
  BY <1>2, <1>3 DEF Sleeps, PipeOf

\* pipeclose() wakes who waits for the end that is gone; who waits for the other
\* end would still hold the one that is gone.
LEMMA PipeClosePipes ==
  ASSUME Shaped, FilesInv, PipesInv, NEW p \in Procs, PipeClose(p)
  PROVE  PipesInv'
<1>1. /\ Busy(p) /\ Todo(p).end # "none" /\ UNCHANGED pipe /\ ResTyped
  BY DEF PipeClose, files, Shaped
<1>2. /\ job[p] \in Jobs /\ Todo(p) \in Items /\ job[p].pc \in {"user", "exits"}
      /\ (\A k, end : Closing(p, k, end) <=> Todo(p) = [file |-> k, end |-> end])
  BY <1>1, FirstClose
<1>3. PICK k0 \in Pipes, e \in Ends : Todo(p) = [file |-> k0, end |-> e]
  BY <1>1, <1>2 DEF Items
<1> DEFINE q == IF e = "write" THEN [pipes[k0] EXCEPT !.writeopen = FALSE]
                               ELSE [pipes[k0] EXCEPT !.readopen = FALSE]
           gone == ~q.readopen /\ ~q.writeopen
           j == [job[p] EXCEPT !.todo = Tail(@)]
           l == IF e = "write" THEN "nread" ELSE "nwrite"
<1>4. /\ pipes' = [pipes EXCEPT ![k0] = IF gone THEN NoPipe ELSE q]
      /\ Wakeup(p, j, k0, l)
  <2>1. Todo(p).file = k0 /\ Todo(p).end = e
    BY <1>3
  <2>2. QED
    BY <2>1 DEF PipeClose
<1>5. PICK t : t = IF gone THEN NoPipe ELSE q
  OBVIOUS
<1>6. Ordered(t)
  <2>1. pipes[k0] \in PipeRecords /\ Ordered(pipes[k0])
    BY <1>1 DEF ResTyped, PipesInv
  <2>2. q.nread = pipes[k0].nread /\ q.nwrite = pipes[k0].nwrite /\ q.data = pipes[k0].data
    BY <2>1 DEF PipeRecords
  <2> HIDE DEF q, gone
  <2>3. Ordered(q)
    BY <2>1, <2>2 DEF Ordered, Count
  <2>4. Ordered(NoPipe)
    <3>1. NoPipe \in PipeRecords /\ NoPipe.nread = NoPipe.nwrite
      BY NewPipeType DEF NoPipe
    <3>2. Count(NoPipe) = 0 /\ PIPESIZE \in Nat
      BY <3>1, RoomMeans, CountType
    <3>3. QED
      BY <3>2 DEF Ordered
  <2>5. QED
    BY <2>3, <2>4, <1>5
<1>7. pipes' = [pipes EXCEPT ![k0] = t]
  BY <1>4, <1>5
<1>8. ~Asleep(j)
  BY <1>2 DEF Asleep, Jobs
<1> HIDE DEF j, q, gone
<1>9. l \in {"nread", "nwrite"}
  OBVIOUS
<1>10. job'[p] = j
  BY <1>4 DEF Wakeup
<1>11. ASSUME NEW x \in Procs
       PROVE  \/ ~Asleep(job'[x])
              \/ job'[x] = job[x] /\ PipeOf(x) # k0
              \/ job'[x].file = job[x].file /\ PipeOf(x) = k0 /\ HasReason(job'[x], t)
  <2>1. CASE x = p
    BY <2>1, <1>8, <1>10
  <2>2. CASE x # p /\ Asleep(job'[x])
    <3> HIDE DEF l
    <3>1. job'[x] = job[x] /\ Asleep(job[x]) /\ (PipeOf(x) = k0 => job[x].pc # l)
      BY <2>2, <1>4, <1>9, StillAsleep
    <3>2. ASSUME PipeOf(x) = k0 PROVE FALSE
      <4>1. job[x].pc = IF e = "write" THEN "nwrite" ELSE "nread"
        BY <3>1, <3>2 DEF Asleep, l
      <4>2. HoldsEnd(x, job[x].file, e)
        BY <4>1 DEF FilesInv, UsersHold, Reading, Writing, Ends
      <4>3. EndOf(job[x].file, k0, e) /\ job[x].file \in Files
        BY <3>2, <4>2 DEF HoldsEnd, EndOf, PipeOf
      <4>4. Closing(p, k0, e) /\ EndFits(k0, e)
        BY <1>2, <1>3 DEF FilesInv, EndsExact
      <4>5. QED
        BY <4>3, <4>4 DEF EndFits
    <3>3. QED
      BY <3>1, <3>2
  <2>3. QED
    BY <2>1, <2>2
<1>12. QED
  BY <1>1, <1>6, <1>7, <1>11, PipesStep

\* piperead() sleeps only on an empty pipe, and wakes the writers when it takes bytes.
LEMMA ReadTryPipes ==
  ASSUME Shaped, FilesInv, PipesInv, NEW p \in Procs, ReadTry(p)
  PROVE  PipesInv'
<1>1. PICK k, q : k = PipeOf(p) /\ q = pipes[k]
  OBVIOUS
<1> DEFINE j == [job[p] EXCEPT !.pc = "nread"]
           m == Min({job[p].n, Count(q)})
           after == [q EXCEPT !.nread = (@ + m) % CounterSize]
<1>2. /\ job[p].pc = "reads" /\ UNCHANGED pipe
      /\ \/ Goto(p, User) /\ UNCHANGED pipes
         \/ Goto(p, j) /\ UNCHANGED pipes /\ q.nread = q.nwrite /\ q.writeopen
         \/ /\ ~(q.nread = q.nwrite /\ q.writeopen)
            /\ pipes' = [pipes EXCEPT ![k] = after] /\ Wakeup(p, User, k, "nwrite")
  BY <1>1 DEF ReadTry, At, Return, files, PipeOf
<1>3. job[p] \in Jobs /\ pipes \in [Pipes -> PipeRecords] /\ job \in [Procs -> Jobs]
  BY DEF Shaped, ResTyped
<1>4. k \in Pipes /\ q \in PipeRecords /\ Ordered(q)
  <2>1. Reading(job[p])
    BY <1>2 DEF Reading
  <2>2. k \in Pipes
    BY <2>1, <1>1, PipeHeld
  <2>3. QED
    BY <2>2, <1>1, <1>3 DEF PipesInv
<1>5. ~Asleep(User)
  BY DEF Asleep, User
<1>6. \A x \in Procs : PipeOf(x) = k => HasReason(job[x], q)
  BY <1>1 DEF PipesInv
<1>7. Count(q) = 0 <=> q.nread = q.nwrite
  BY <1>4, RoomMeans
<1>8. CASE Goto(p, User) /\ UNCHANGED pipes
  BY <1>2, <1>5, <1>8, CalmPipes
<1>9. CASE Goto(p, j) /\ UNCHANGED pipes /\ q.nread = q.nwrite /\ q.writeopen
  <2>1. j.file = job[p].file /\ j.pc = "nread"
    BY <1>3 DEF Jobs
  <2>2. HasReason(j, q)
    BY <2>1, <1>7, <1>9 DEF HasReason
  <2> HIDE DEF j
  <2>3. job'[p] = j /\ \A x \in Procs \ {p} : job'[x] = job[x]
    BY <1>3, <1>9 DEF Goto
  <2>4. pipes' = [pipes EXCEPT ![k] = q]
    BY <1>1, <1>3, <1>4, <1>9
  <2>5. \A x \in Procs :
          \/ ~Asleep(job'[x])
          \/ job'[x] = job[x] /\ PipeOf(x) # k
          \/ job'[x].file = job[x].file /\ PipeOf(x) = k /\ HasReason(job'[x], q)
    BY <2>1, <2>2, <2>3, <1>1, <1>6
  <2>6. QED
    BY <2>4, <2>5, <1>2, <1>4, PipesStep
<1>10. CASE /\ ~(q.nread = q.nwrite /\ q.writeopen)
            /\ pipes' = [pipes EXCEPT ![k] = after] /\ Wakeup(p, User, k, "nwrite")
  <2>1. m \in 0..Count(q)
    <3>1. Count(q) \in Nat /\ job[p].n \in Nat
      BY <1>3, <1>4, CountType DEF Jobs
    <3>2. QED
      BY <3>1, LesserOfTwo
  <2>2. PICK b \in 0..Count(q) : b = m
    BY <2>1
  <2>3. PICK t : t = [q EXCEPT !.nread = (@ + b) % CounterSize]
    OBVIOUS
  <2>4. t = after
    BY <2>2, <2>3
  <2> HIDE DEF m, after
  <2>5. Ordered(t)
    BY <2>3, <1>4, ReadOrdered
  <2>6. job'[p] = User
    BY <1>10 DEF Wakeup
  <2>7. ASSUME NEW x \in Procs
        PROVE  \/ ~Asleep(job'[x])
               \/ job'[x] = job[x] /\ PipeOf(x) # k
               \/ job'[x].file = job[x].file /\ PipeOf(x) = k /\ HasReason(job'[x], t)
    <3>1. CASE x = p
      BY <3>1, <2>6, <1>5
    <3>2. CASE x # p /\ Asleep(job'[x]) /\ PipeOf(x) = k
      <4>1. job'[x] = job[x] /\ Asleep(job[x]) /\ job[x].pc # "nwrite"
        BY <3>2, <1>10, StillAsleep
      <4>2. job[x].pc = "nread" /\ HasReason(job[x], q)
        BY <4>1, <3>2, <1>6 DEF Asleep
      <4>3. job[x].missed
        BY <4>2, <1>7, <1>10 DEF HasReason
      <4>4. QED
        BY <3>2, <4>1, <4>2, <4>3 DEF HasReason
    <3>3. CASE x # p /\ Asleep(job'[x]) /\ PipeOf(x) # k
      BY <3>3, <1>10, StillAsleep
    <3>4. QED
      BY <3>1, <3>2, <3>3
  <2>8. QED
    BY <2>4, <2>5, <2>7, <1>2, <1>4, <1>10, PipesStep
<1>11. QED
  BY <1>2, <1>8, <1>9, <1>10

\* pipewrite() sleeps only on a full pipe, and wakes the readers unless it gives up:
\* those it leaves asleep have missed something.
LEMMA WriteTryPipes ==
  ASSUME Shaped, FilesInv, PipesInv, NEW p \in Procs, WriteTry(p)
  PROVE  PipesInv'
<1>1. PICK k, q, m : k = PipeOf(p) /\ q = pipes[k] /\ m = Min({job[p].n, Room(q)})
  OBVIOUS
<1> DEFINE left == job[p].n - m
           j == [job[p] EXCEPT !.pc = "nwrite", !.n = left]
<1>2. /\ job[p].pc = "writes" /\ UNCHANGED pipe
      /\ pipes' = [pipes EXCEPT ![k] = PipePut(q, m)]
      /\ \/ Wakeup(p, User, k, "nread")
         \/ m < job[p].n /\ q.readopen /\ Wakeup(p, j, k, "nread")
         \/ job' = [x \in Procs |->
              IF x = p THEN User
              ELSE IF m > 0 /\ Sleeps(x, k, "nread")
                   THEN [job[x] EXCEPT !.missed = TRUE] ELSE job[x]]
  BY <1>1 DEF WriteTry, At, files, PipeOf
<1>3. job[p] \in Jobs /\ pipes \in [Pipes -> PipeRecords] /\ job \in [Procs -> Jobs]
  BY DEF Shaped, ResTyped
<1>4. k \in Pipes /\ q \in PipeRecords /\ Ordered(q)
  <2>1. Writing(job[p])
    BY <1>2 DEF Writing
  <2>2. k \in Pipes
    BY <2>1, <1>1, PipeHeld
  <2>3. QED
    BY <2>2, <1>1, <1>3 DEF PipesInv
<1>5. ~Asleep(User)
  BY DEF Asleep, User
<1>6. \A x \in Procs : PipeOf(x) = k => HasReason(job[x], q)
  BY <1>1 DEF PipesInv
<1>7. /\ Count(q) \in Nat /\ Count(q) <= PIPESIZE /\ Room(q) = PIPESIZE - Count(q)
      /\ job[p].n \in Nat /\ PIPESIZE \in Nat
  BY <1>3, <1>4, CountType, RoomMeans DEF Jobs, Ordered
<1>8. /\ m \in 0..PIPESIZE - Count(q) /\ m \in Nat
      /\ m < job[p].n => m = PIPESIZE - Count(q)
      /\ Count(q) = PIPESIZE => m = 0
  <2>1. m = IF job[p].n <= Room(q) THEN job[p].n ELSE Room(q)
    BY <1>1, <1>7, LesserOfTwo
  <2>2. QED
    BY <2>1, <1>7
<1>9. PICK t : t = PipePut(q, m)
  OBVIOUS
<1>10. /\ Ordered(t) /\ Count(t) = Count(q) + m
       /\ t.readopen = q.readopen /\ t.writeopen = q.writeopen
  BY <1>4, <1>8, <1>9, PutOrdered, PipePutType
<1>11. /\ Count(q) = PIPESIZE => Count(t) = PIPESIZE
       /\ m = 0 => Count(t) = Count(q)
       /\ m < job[p].n => Count(t) = PIPESIZE
  BY <1>7, <1>8, <1>10
<1>12. pipes' = [pipes EXCEPT ![k] = t]
  BY <1>2, <1>9
<1>13. \A i : i.pc = "nwrite" /\ HasReason(i, q) => HasReason(i, t)
  BY <1>10, <1>11 DEF HasReason
<1>14. ASSUME NEW i, NEW x \in Procs \ {p}, Wakeup(p, i, k, "nread")
       PROVE  \/ ~Asleep(job'[x])
              \/ job'[x] = job[x] /\ PipeOf(x) # k
              \/ job'[x].file = job[x].file /\ PipeOf(x) = k /\ HasReason(job'[x], t)
  <2>1. CASE Asleep(job'[x]) /\ PipeOf(x) = k
    <3>1. job'[x] = job[x] /\ Asleep(job[x]) /\ job[x].pc # "nread"
      BY <2>1, <1>14, StillAsleep
    <3>2. QED
      BY <2>1, <3>1, <1>6, <1>13 DEF Asleep
  <2>2. CASE Asleep(job'[x]) /\ PipeOf(x) # k
    BY <2>2, <1>14, StillAsleep
  <2>3. QED
    BY <2>1, <2>2
<1>15. CASE Wakeup(p, User, k, "nread")
  <2>1. job'[p] = User
    BY <1>15 DEF Wakeup
  <2>2. \A x \in Procs :
          \/ ~Asleep(job'[x])
          \/ job'[x] = job[x] /\ PipeOf(x) # k
          \/ job'[x].file = job[x].file /\ PipeOf(x) = k /\ HasReason(job'[x], t)
    BY <2>1, <1>5, <1>14, <1>15
  <2>3. QED
    BY <2>2, <1>2, <1>4, <1>10, <1>12, PipesStep
<1>16. CASE m < job[p].n /\ q.readopen /\ Wakeup(p, j, k, "nread")
  <2>1. j.file = job[p].file /\ j.pc = "nwrite"
    BY <1>3 DEF Jobs
  <2>2. HasReason(j, t)
    BY <2>1, <1>10, <1>11, <1>16 DEF HasReason
  <2> HIDE DEF j
  <2>3. job'[p] = j
    BY <1>16 DEF Wakeup
  <2>4. \A x \in Procs :
          \/ ~Asleep(job'[x])
          \/ job'[x] = job[x] /\ PipeOf(x) # k
          \/ job'[x].file = job[x].file /\ PipeOf(x) = k /\ HasReason(job'[x], t)
    BY <2>1, <2>2, <2>3, <1>1, <1>14, <1>16
  <2>5. QED
    BY <2>4, <1>2, <1>4, <1>10, <1>12, PipesStep
<1>17. CASE job' = [x \in Procs |->
              IF x = p THEN User
              ELSE IF m > 0 /\ Sleeps(x, k, "nread")
                   THEN [job[x] EXCEPT !.missed = TRUE] ELSE job[x]]
  <2>1. ASSUME NEW x \in Procs
        PROVE  \/ ~Asleep(job'[x])
               \/ job'[x] = job[x] /\ PipeOf(x) # k
               \/ job'[x].file = job[x].file /\ PipeOf(x) = k /\ HasReason(job'[x], t)
    <3>1. CASE x = p
      BY <3>1, <1>5, <1>17
    <3>2. CASE x # p /\ PipeOf(x) # k
      BY <3>2, <1>17 DEF Sleeps, PipeOf
    <3>3. CASE x # p /\ PipeOf(x) = k /\ job[x].pc = "nread" /\ m > 0
      <4>1. job'[x] = [job[x] EXCEPT !.missed = TRUE]
        BY <3>3, <1>17 DEF Sleeps, PipeOf
      <4>2. job'[x].missed /\ job'[x].pc = "nread" /\ job'[x].file = job[x].file
        BY <3>3, <4>1, <1>3 DEF Jobs
      <4>3. QED
        BY <3>3, <4>2 DEF HasReason
    <3>4. CASE x # p /\ PipeOf(x) = k /\ job[x].pc = "nread" /\ ~(m > 0)
      <4>1. job'[x] = job[x] /\ m = 0
        BY <3>4, <1>8, <1>17
      <4>2. HasReason(job[x], t)
        BY <3>4, <4>1, <1>6, <1>10, <1>11 DEF HasReason
      <4>3. QED
        BY <3>4, <4>1, <4>2
    <3>5. CASE x # p /\ PipeOf(x) = k /\ job[x].pc # "nread"
      <4>1. job'[x] = job[x]
        BY <3>5, <1>17 DEF Sleeps
      <4>2. QED
        BY <3>5, <4>1, <1>6, <1>13 DEF Asleep
    <3>6. QED
      BY <3>1, <3>2, <3>3, <3>4, <3>5
  <2>2. QED
    BY <2>1, <1>2, <1>4, <1>10, <1>12, PipesStep
<1>18. QED
  BY <1>2, <1>15, <1>16, <1>17

\* Every step keeps the bytes in order and the sleepers justified.
LEMMA StepPipes ==
  ASSUME Shaped, FilesInv, PipesInv, [ResNext]_resvars
  PROVE  PipesInv'
<1>1. CASE UNCHANGED resvars
  <2>1. UNCHANGED <<pipe, pipes, job>>
    BY <1>1 DEF resvars, files
  <2>2. QED
    BY <2>1, CalmPipes
<1>2. CASE ResNext
  <2>1. PICK p \in Procs :
          \/ \E c \in Procs : Fork(p, c) \/ Kill(p, c) \/ Wait(p, c)
          \/ \E n \in 0..MaxSize : (n >= 2 /\ Exec(p, n)) \/ Grow(p, n) \/ Shrink(p, n)
          \/ Stack(p) \/ SetupKvm(p) \/ NextPage(p) \/ MapPage(p)
          \/ ForkDone(p) \/ ExecDone(p) \/ GrowDone(p)
          \/ Grep(p) \/ GrepDone(p)
          \/ \E call \in {"open", "pipe"} : Open(p, call)
          \/ SecondFile(p) \/ PipeBuffer(p) \/ Install(p)
          \/ FileClose(p) \/ PipeClose(p)
          \/ \E fd \in Fds : Dup(p, fd) \/ Close(p, fd) \/ \E n \in Sizes : Transfer(p, fd, n)
          \/ ReadTry(p) \/ WriteTry(p)
          \/ Exit(p) \/ Zombie(p)
    BY <1>2 DEF ResNext
  <2>2. ASSUME UNCHANGED <<pipe, pipes>>, UNCHANGED job \/ \E j : Goto(p, j) /\ ~Asleep(j)
        PROVE  PipesInv'
    BY <2>2, CalmPipes
  <2>3. ASSUME NEW c \in Procs, Fork(p, c) \/ Kill(p, c) \/ Wait(p, c) PROVE PipesInv'
    BY <2>2, <2>3, MemoryAwake, KillPipes
  <2>4. ASSUME NEW n, Exec(p, n) \/ Grow(p, n) \/ Shrink(p, n) PROVE PipesInv'
    BY <2>2, <2>4, MemoryAwake
  <2>5. CASE Stack(p) \/ SetupKvm(p) \/ NextPage(p) \/ MapPage(p) \/ ForkDone(p) \/ ExecDone(p)
             \/ GrowDone(p) \/ Grep(p) \/ GrepDone(p) \/ Zombie(p)
    BY <2>2, <2>5, MemoryAwake
  <2>6. ASSUME NEW call, Open(p, call) PROVE PipesInv'
    BY <2>2, <2>6, FilesAwake
  <2>7. ASSUME NEW fd, NEW n, Dup(p, fd) \/ Close(p, fd) \/ Transfer(p, fd, n) PROVE PipesInv'
    BY <2>2, <2>7, FilesAwake
  <2>8. CASE SecondFile(p) \/ Install(p) \/ FileClose(p) \/ Exit(p)
    BY <2>2, <2>8, FilesAwake
  <2>9. CASE PipeBuffer(p) \/ PipeClose(p) \/ ReadTry(p) \/ WriteTry(p)
    BY <2>9, PipeBufferPipes, PipeClosePipes, ReadTryPipes, WriteTryPipes
  <2>10. QED
    BY <2>1, <2>3, <2>4, <2>5, <2>6, <2>7, <2>8, <2>9
<1>3. QED
  BY <1>1, <1>2

\* Nobody sleeps, and every pipe is empty, when the system starts.
LEMMA InitPipes ==
  ASSUME ResInit
  PROVE  PipesInv
<1>1. /\ job = [p \in Procs |-> User]
      /\ \A k \in Pipes : pipes[k] = NewPipe \/ pipes[k] = NoPipe
  BY DEF ResInit
<1>2. \A p \in Procs : HasReason(job[p], pipes[PipeOf(p)])
  <2>1. ~Asleep(User)
    BY DEF Asleep, User
  <2>2. \A p \in Procs : job[p] = User
    BY <1>1
  <2>3. QED
    BY <2>1, <2>2, AwakeNeedsNone
<1>3. Ordered(NewPipe) /\ Ordered(NoPipe)
  <2>1. /\ NewPipe \in PipeRecords /\ NewPipe.nread = NewPipe.nwrite
        /\ NoPipe \in PipeRecords /\ NoPipe.nread = NoPipe.nwrite
    BY NewPipeType DEF NewPipe, NoPipe
  <2>2. Count(NewPipe) = 0 /\ Count(NoPipe) = 0 /\ PIPESIZE \in Nat
    BY <2>1, RoomMeans, CountType
  <2>3. QED
    BY <2>2 DEF Ordered
<1>4. QED
  BY <1>1, <1>2, <1>3 DEF PipesInv

\* The bytes are in order and the sleepers justified in every reachable state.
LEMMA PipesInvariant == ResSpec => [](Shaped /\ FilesInv /\ PipesInv)
<1>1. ResInit => Shaped /\ FilesInv /\ PipesInv
  BY InitShaped, InitFiles, InitPipes
<1>2. Shaped /\ FilesInv /\ PipesInv /\ [ResNext]_resvars => (Shaped /\ FilesInv /\ PipesInv)'
  BY StepFiles, StepPipes
<1>3. QED
  BY <1>1, <1>2, PTL DEF ResSpec

\* In every state a process that sleeps in piperead() does so on an empty pipe with a
\* writer left, unless a killed writer that filled it gave up without wakeup(); one
\* that sleeps in pipewrite() does so on a full pipe with a reader left; and the bytes
\* between the counters are the last ones written, in order, also where they wrap.
THEOREM SleepersJustified == ResSpec => []NobodyForgotten
<1>1. PipesInv => NobodyForgotten
  BY DEF PipesInv, NobodyForgotten, Ordered, HasReason, PipeOf
<1>2. QED
  BY <1>1, PipesInvariant, PTL

=============================================================================
