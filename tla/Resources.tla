------------------------------ MODULE Resources ------------------------------
(***************************************************************************)
(* What processes own in LAB4/codes: pages of memory (kalloc.c, vm.c,      *)
(* exec.c, fork(), wait() and growproc() of proc.c), open files and file   *)
(* descriptors (file.c, sysfile.c), and pipes (pipe.c), which are made of  *)
(* both.                                                                   *)
(*                                                                         *)
(* A call takes one page at a time, and every kalloc() may find the list   *)
(* of free pages empty because of what the other processes took meanwhile; *)
(* one action is one kalloc() or one critical section of ftable.lock or of *)
(* a pipe's lock.  What a call gives back at once is one action: a moment  *)
(* at which part of it is free differs for nobody from an earlier one.     *)
(***************************************************************************)
EXTENDS Integers, Sequences, FiniteSets, FiniteSetsExt

CONSTANTS
  Procs,          \* 1..n: the process table; 1 is init
  NPages,         \* pages of physical memory
  KernelTables,   \* page-table pages that map the kernel
  TablePages,     \* how many user pages one page-table page maps
  MaxSize,        \* bound: pages of user memory of a process
  NFILE, NOFILE,
  PIPESIZE,
  CounterSize,    \* 2^32: nread and nwrite are unsigned
  Sizes,          \* the lengths that read() and write() are called with
  MaxCalls        \* bound: how many system calls are made

ASSUME ResourcesAssumption ==
  /\ IsFiniteSet(Procs) /\ Procs = 1..Cardinality(Procs) /\ Cardinality(Procs) >= 2
  /\ KernelTables \in Nat \ {0} /\ TablePages \in Nat \ {0} /\ MaxSize \in Nat \ {0}
  /\ NPages \in Nat /\ NPages > 2 * (KernelTables + 4)    \* what ResInit takes
  /\ NFILE \in Nat /\ NFILE >= 2 /\ NOFILE \in Nat /\ NOFILE >= 2
  /\ PIPESIZE \in Nat \ {0} /\ CounterSize \in Nat
  /\ CounterSize > PIPESIZE /\ CounterSize % PIPESIZE = 0
  /\ Sizes \subseteq Nat /\ MaxCalls \in Nat

VARIABLES
  free,                   \* how many pages kmem.freelist holds
  state, parent, killed,
  kstack, space, size,    \* pages of the kernel stack; page table; proc->sz in pages
  ofile,                  \* ofile[p][fd]: a file, or 0
  ref, kind, pipe,        \* of each file; "none", "inode", "read" or "write"
  pipes,
  job,                    \* the system call each process is in
  calls,                  \* how many calls may still be made
  panicked

procs == <<state, parent, killed>>
memory == <<kstack, space, size>>
files == <<ofile, ref, kind, pipe>>
resvars == <<free, procs, memory, files, pipes, job, calls, panicked>>

InitProc == 1
Files == 1..NFILE
Pipes == 1..NFILE + Cardinality(Procs)   \* a file each, or a call that closes the last
Fds == 0..NOFILE - 1

\* A page table: the directory, the page-table pages for the kernel and for user
\* memory (by the part of it that they map), and the user pages that are present.
NoSpace == [dir |-> 0, ktabs |-> 0, utabs |-> {}, pages |-> {}]
Pages(s) == s.dir + s.ktabs + Cardinality(s.utabs) + Cardinality(s.pages)

NoPipe == [there |-> FALSE, readopen |-> FALSE, writeopen |-> FALSE, nread |-> 0, nwrite |-> 0,
           data |-> [i \in 0..PIPESIZE - 1 |-> 0]]
NewPipe == [NoPipe EXCEPT !.there = TRUE, !.readopen = TRUE, !.writeopen = TRUE]

\* call and pc: where the process is; child, goal, new, mem: of fork(), exec() and
\* sbrk(): the entry to fill, the size to reach, the page table under construction
\* and pages not entered anywhere; made: files not in ofile yet; todo: closes to do
\* before anything else; file, n: of read() and write(); missed: see WriteTry.
User == [call |-> "none", pc |-> "user", child |-> 0, goal |-> 0, new |-> NoSpace, mem |-> 0,
         made |-> <<>>, todo |-> <<>>, file |-> 0, n |-> 0, missed |-> FALSE]

Small == [dir |-> 1, ktabs |-> KernelTables, utabs |-> {0}, pages |-> {0}]

\* Either init alone, or init and a child of it that share the pipe init made.
ResInit ==
  \E shared \in BOOLEAN :
    LET live == IF shared THEN {1, 2} ELSE {1}
    IN /\ free = NPages - Cardinality(live) * (1 + Pages(Small)) - (IF shared THEN 1 ELSE 0)
       /\ state = [p \in Procs |-> IF p \in live THEN "live" ELSE "unused"]
       /\ parent = [p \in Procs |-> IF p = 2 /\ shared THEN InitProc ELSE 0]
       /\ killed = [p \in Procs |-> FALSE]
       /\ kstack = [p \in Procs |-> IF p \in live THEN 1 ELSE 0]
       /\ space = [p \in Procs |-> IF p \in live THEN Small ELSE NoSpace]
       /\ size = [p \in Procs |-> IF p \in live THEN 1 ELSE 0]
       /\ ofile = [p \in Procs |-> [fd \in Fds |->
                     IF shared /\ p \in live /\ fd < 2 THEN fd + 1 ELSE 0]]
       /\ ref = [f \in Files |-> IF shared /\ f <= 2 THEN 2 ELSE 0]
       /\ kind = [f \in Files |->
                    IF shared /\ f <= 2 THEN IF f = 1 THEN "read" ELSE "write" ELSE "none"]
       /\ pipe = [f \in Files |-> IF shared /\ f <= 2 THEN 1 ELSE 0]
       /\ pipes = [k \in Pipes |-> IF shared /\ k = 1 THEN NewPipe ELSE NoPipe]
       /\ job = [p \in Procs |-> User]
       /\ calls = MaxCalls
       /\ panicked = FALSE

\* How many of the entries of s, a table of descriptors or a list, are e.
Occurs(s, e) == Cardinality({i \in DOMAIN s : s[i] = e})

At(p, l) == state[p] = "live" /\ job[p].pc = l /\ job[p].todo = <<>> /\ ~panicked
Goto(p, j) == job' = [job EXCEPT ![p] = j]
Return(p) == Goto(p, User)

\* kmem.freelist gives n pages, or gets n back.
kalloc(n) == free >= n /\ free' = free - n
kfree(n) == free' = free + n

\* Process p enters a system call; trap() lets no killed process do that.
Call(p) ==
  /\ At(p, "user") /\ ~killed[p] /\ calls > 0
  /\ calls' = calls - 1

-----------------------------------------------------------------------------
(* Memory. *)

\* fork(): allocproc() takes an entry.
Fork(p, c) ==
  /\ Call(p) /\ state[c] = "unused"
  /\ state' = [state EXCEPT ![c] = "embryo"]
  /\ Goto(p, [User EXCEPT !.call = "fork", !.pc = "stack", !.child = c, !.goal = size[p]])
  /\ UNCHANGED <<free, parent, killed, memory, files, pipes, panicked>>

Exec(p, n) ==
  /\ Call(p)
  /\ Goto(p, [User EXCEPT !.call = "exec", !.pc = "table", !.goal = n])
  /\ UNCHANGED <<free, procs, memory, files, pipes, panicked>>

\* growproc(n), n > 0
Grow(p, n) ==
  /\ Call(p) /\ n > size[p]
  /\ Goto(p, [User EXCEPT !.call = "sbrk", !.pc = "page", !.goal = n])
  /\ UNCHANGED <<free, procs, memory, files, pipes, panicked>>

\* growproc(n), n < 0: a process that gives back all its memory gets an error,
\* because deallocuvm() returns the size 0, and proc->sz stays.
Shrink(p, n) ==
  LET gone == {i \in space[p].pages : i >= n}
  IN /\ Call(p) /\ n < size[p]
     /\ kfree(Cardinality(gone))
     /\ space' = [space EXCEPT ![p].pages = @ \ gone]
     /\ size' = [size EXCEPT ![p] = IF n = 0 THEN @ ELSE n]
     /\ UNCHANGED <<procs, kstack, files, pipes, job, panicked>>

\* The page table that a call works on.
Target(p) == IF job[p].call = "sbrk" THEN space[p] ELSE job[p].new
Build(p, s, j) ==
  IF j.call = "sbrk"
  THEN Goto(p, j) /\ space' = [space EXCEPT ![p] = s]
  ELSE Goto(p, [j EXCEPT !.new = s]) /\ UNCHANGED space

\* The user pages still to be mapped: sbrk() starts at the old size.
Missing(p) ==
  {i \in (IF job[p].call = "sbrk" THEN size[p] ELSE 0)..job[p].goal - 1 :
     i \notin Target(p).pages}

\* What is not in a page table.  Mutant: a page is forgotten when there is none to map it.
Unmapped_Forgotten(p) == 0
Unmapped(p) == job[p].mem

\* kalloc() returned 0, or exec() met a bad file: the call gives back what it
\* took, and sbrk() keeps the page-table pages.
Taken(p) ==
  LET j == job[p]
  IN Unmapped(p) +
     CASE j.call = "sbrk" -> Cardinality({i \in space[p].pages : i >= size[p]})
       [] j.call = "fork" -> Pages(j.new) + kstack[j.child]
       [] OTHER -> Pages(j.new)

GiveUp(p) ==
  LET c == job[p].child
      forks == job[p].call = "fork"
  IN /\ kfree(Taken(p))
     /\ Return(p)
     /\ kstack' = IF forks THEN [kstack EXCEPT ![c] = 0] ELSE kstack
     /\ state' = IF forks THEN [state EXCEPT ![c] = "unused"] ELSE state
     /\ space' = IF job[p].call = "sbrk"
                 THEN [space EXCEPT ![p].pages = {i \in @ : i < size[p]}] ELSE space

\* allocproc() allocates the kernel stack.
Stack(p) ==
  /\ At(p, "stack")
  /\ \/ /\ free = 0
        /\ GiveUp(p)
     \/ /\ kalloc(1)
        /\ kstack' = [kstack EXCEPT ![job[p].child] = 1]
        /\ Goto(p, [job[p] EXCEPT !.pc = "table"])
        /\ UNCHANGED <<state, space>>
  /\ UNCHANGED <<parent, killed, size, files, pipes, calls, panicked>>

\* setupkvm(): the directory, then the page-table pages of the kernel.
SetupKvm(p) ==
  LET s == job[p].new
      t == IF s.dir = 0 THEN [s EXCEPT !.dir = 1] ELSE [s EXCEPT !.ktabs = @ + 1]
  IN /\ At(p, "table")
     /\ \/ /\ free = 0
           /\ GiveUp(p)
        \/ /\ kalloc(1)
           /\ Goto(p, [job[p] EXCEPT !.new = t,
                                     !.pc = IF t.ktabs = KernelTables THEN "page" ELSE @])
           /\ UNCHANGED <<state, kstack, space>>
     /\ UNCHANGED <<parent, killed, size, files, pipes, calls, panicked>>

\* copyuvm() and allocuvm(): a page for the next address; copyuvm() panics when
\* the parent does not have the page it is to copy.
NextPage(p) ==
  /\ At(p, "page") /\ Missing(p) # {}
  /\ \/ /\ job[p].call = "fork" /\ Min(Missing(p)) \notin space[p].pages
        /\ panicked' = TRUE
        /\ UNCHANGED <<free, state, kstack, space, job>>
     \/ /\ job[p].call = "fork" => Min(Missing(p)) \in space[p].pages
        /\ \/ /\ free = 0
              /\ GiveUp(p)
           \/ /\ kalloc(1)
              /\ Goto(p, [job[p] EXCEPT !.pc = "map", !.mem = 1])
              /\ UNCHANGED <<state, kstack, space>>
        /\ UNCHANGED panicked
  /\ UNCHANGED <<parent, killed, size, files, pipes, calls>>

\* mappages(): walkpgdir() may need another page-table page.
MapPage(p) ==
  LET i == Min(Missing(p))
      s == Target(p)
      t == [s EXCEPT !.utabs = @ \cup {i \div TablePages}, !.pages = @ \cup {i}]
      more == Cardinality(t.utabs) - Cardinality(s.utabs)
  IN /\ At(p, "map")
     /\ \/ /\ free < more
           /\ GiveUp(p)
        \/ /\ kalloc(more)
           /\ Build(p, t, [job[p] EXCEPT !.pc = "page", !.mem = 0])
           /\ UNCHANGED <<state, kstack>>
     /\ UNCHANGED <<parent, killed, size, files, pipes, calls, panicked>>

\* fork() has the copy: it duplicates the descriptors, and the child may run.
ForkDone(p) ==
  LET c == job[p].child
  IN /\ At(p, "page") /\ job[p].call = "fork" /\ Missing(p) = {}
     /\ space' = [space EXCEPT ![c] = job[p].new]
     /\ size' = [size EXCEPT ![c] = size[p]]
     /\ parent' = [parent EXCEPT ![c] = p]
     /\ ofile' = [ofile EXCEPT ![c] = ofile[p]]
     /\ ref' = [f \in Files |-> ref[f] + Occurs(ofile[p], f)]
     /\ state' = [state EXCEPT ![c] = "live"]
     /\ Return(p)
     /\ UNCHANGED <<free, killed, kstack, kind, pipe, pipes, calls, panicked>>

\* exec() commits to the new image, or meets a file it cannot run.
ExecDone(p) ==
  /\ At(p, "page") /\ job[p].call = "exec"
  /\ \/ /\ Missing(p) = {}
        /\ kfree(Pages(space[p]))
        /\ space' = [space EXCEPT ![p] = job[p].new]
        /\ size' = [size EXCEPT ![p] = job[p].goal]
        /\ Return(p)
        /\ UNCHANGED <<state, kstack>>
     \/ /\ GiveUp(p)
        /\ UNCHANGED size
  /\ UNCHANGED <<parent, killed, files, pipes, calls, panicked>>

GrowDone(p) ==
  /\ At(p, "page") /\ job[p].call = "sbrk" /\ Missing(p) = {}
  /\ size' = [size EXCEPT ![p] = job[p].goal]
  /\ Return(p)
  /\ UNCHANGED <<free, procs, kstack, space, files, pipes, calls, panicked>>

\* grep_syscall() holds a page from its start to its end.
Grep(p) ==
  /\ Call(p) /\ kalloc(1)
  /\ Goto(p, [User EXCEPT !.call = "grep", !.pc = "searches", !.mem = 1])
  /\ UNCHANGED <<procs, memory, files, pipes, panicked>>

GrepDone(p) ==
  /\ At(p, "searches")
  /\ kfree(job[p].mem)
  /\ Return(p)
  /\ UNCHANGED <<procs, memory, files, pipes, calls, panicked>>

-----------------------------------------------------------------------------
(* Files and pipes. *)

NoFile == \A f \in Files : ref[f] > 0
NewFile == CHOOSE f \in Files : ref[f] = 0 /\ \A g \in 1..f - 1 : ref[g] > 0
FreeFds(p) == {fd \in Fds : ofile[p][fd] = 0}
CloseOf(f) == [file |-> f, end |-> "none"]
Nth(S, i) == CHOOSE x \in S : Cardinality({y \in S : y < x}) = i - 1
\* Mutant: a failed call forgets the first of its files.
Closes_NotFirst(fs) == [i \in 1..Len(fs) - 1 |-> CloseOf(fs[i + 1])]
Closes(fs) == [i \in DOMAIN fs |-> CloseOf(fs[i])]

\* open() and pipe() take a file: filealloc().
Open(p, call) ==
  /\ Call(p) /\ ~NoFile
  /\ ref' = [ref EXCEPT ![NewFile] = 1]
  /\ Goto(p, [User EXCEPT !.call = call, !.pc = IF call = "open" THEN "installs" ELSE "second",
                          !.made = <<NewFile>>])
  /\ UNCHANGED <<free, procs, memory, ofile, kind, pipe, pipes, panicked>>

\* pipealloc(): the second file.
SecondFile(p) ==
  /\ At(p, "second")
  /\ \/ /\ NoFile
        /\ Goto(p, [User EXCEPT !.todo = Closes(job[p].made)])
        /\ UNCHANGED ref
     \/ /\ ~NoFile
        /\ ref' = [ref EXCEPT ![NewFile] = 1]
        /\ Goto(p, [job[p] EXCEPT !.pc = "buffer", !.made = Append(@, NewFile)])
  /\ UNCHANGED <<free, procs, memory, ofile, kind, pipe, pipes, calls, panicked>>

\* pipealloc(): the page of the pipe.
PipeBuffer(p) ==
  LET r == job[p].made[1]
      w == job[p].made[2]
  IN /\ At(p, "buffer")
     /\ \/ /\ free = 0
           /\ Goto(p, [User EXCEPT !.todo = Closes(job[p].made)])
           /\ UNCHANGED <<free, kind, pipe, pipes>>
        \/ /\ kalloc(1)
           /\ \E k \in Pipes :
                /\ ~pipes[k].there /\ \A i \in 1..k - 1 : pipes[i].there
                /\ pipes' = [pipes EXCEPT ![k] = NewPipe]
                /\ pipe' = [pipe EXCEPT ![r] = k, ![w] = k]
           /\ kind' = [kind EXCEPT ![r] = "read", ![w] = "write"]
           /\ Goto(p, [job[p] EXCEPT !.pc = "installs"])
     /\ UNCHANGED <<procs, memory, ofile, ref, calls, panicked>>

\* fdalloc() for each new file; without room, open() and pipe() close them.
Install(p) ==
  LET fs == job[p].made
      fd(i) == Nth(FreeFds(p), i)
  IN /\ At(p, "installs")
     /\ \/ /\ Cardinality(FreeFds(p)) < Len(fs)
           /\ Goto(p, [User EXCEPT !.todo = Closes(fs)])
           /\ UNCHANGED <<ofile, kind>>
        \/ /\ Cardinality(FreeFds(p)) >= Len(fs)
           /\ ofile' = [ofile EXCEPT ![p] = [x \in Fds |->
                          IF \E i \in DOMAIN fs : x = fd(i)
                          THEN fs[CHOOSE i \in DOMAIN fs : x = fd(i)] ELSE @[x]]]
           /\ kind' = IF job[p].call = "open" THEN [kind EXCEPT ![fs[1]] = "inode"] ELSE kind
           /\ Return(p)
     /\ UNCHANGED <<free, procs, memory, ref, pipe, pipes, calls, panicked>>

Dup(p, fd) ==
  /\ Call(p) /\ ofile[p][fd] # 0 /\ FreeFds(p) # {}
  /\ ofile' = [ofile EXCEPT ![p][Min(FreeFds(p))] = ofile[p][fd]]
  /\ ref' = [ref EXCEPT ![ofile[p][fd]] = @ + 1]
  /\ UNCHANGED <<free, procs, memory, kind, pipe, pipes, job, panicked>>

Close(p, fd) ==
  /\ Call(p) /\ ofile[p][fd] # 0
  /\ Goto(p, [User EXCEPT !.todo = <<CloseOf(ofile[p][fd])>>])
  /\ ofile' = [ofile EXCEPT ![p][fd] = 0]
  /\ UNCHANGED <<free, procs, memory, ref, kind, pipe, pipes, panicked>>

Todo(p) == Head(job[p].todo)
Busy(p) == state[p] = "live" /\ job[p].todo # <<>> /\ ~panicked

\* fileclose(), under ftable.lock: the last reference to an end of a pipe closes it.
FileClose(p) ==
  LET f == Todo(p).file
      last == ref[f] = 1
      rest == Tail(job[p].todo)
  IN /\ Busy(p) /\ Todo(p).end = "none"
     /\ ref' = [ref EXCEPT ![f] = @ - 1]
     /\ kind' = IF last THEN [kind EXCEPT ![f] = "none"] ELSE kind
     /\ Goto(p, [job[p] EXCEPT !.todo =
                   IF last /\ kind[f] \in {"read", "write"}
                   THEN <<[file |-> pipe[f], end |-> kind[f]]>> \o rest ELSE rest])
     /\ UNCHANGED <<free, procs, memory, ofile, pipe, pipes, calls, panicked>>

\* Who sleeps on &nread, or on &nwrite, of pipe k; wakeup() sends it back to its loop.
Sleeps(q, k, l) == job[q].pc = l /\ pipe[job[q].file] = k
Wakeup(p, j, k, l) ==
  job' = [q \in Procs |->
    IF q = p THEN j
    ELSE IF Sleeps(q, k, l)
         THEN [job[q] EXCEPT !.pc = IF l = "nread" THEN "reads" ELSE "writes", !.missed = FALSE]
         ELSE job[q]]

\* pipeclose()
PipeClose(p) ==
  LET k == Todo(p).file
      end == Todo(p).end
      q == IF end = "write" THEN [pipes[k] EXCEPT !.writeopen = FALSE]
                            ELSE [pipes[k] EXCEPT !.readopen = FALSE]
      gone == ~q.readopen /\ ~q.writeopen
  IN /\ Busy(p) /\ end # "none"
     /\ pipes' = [pipes EXCEPT ![k] = IF gone THEN NoPipe ELSE q]
     /\ kfree(IF gone THEN 1 ELSE 0)
     /\ Wakeup(p, [job[p] EXCEPT !.todo = Tail(@)], k, IF end = "write" THEN "nread" ELSE "nwrite")
     /\ UNCHANGED <<procs, memory, files, calls, panicked>>

Count(q) == (q.nwrite + CounterSize - q.nread) % CounterSize
\* How many bytes the loop of pipewrite() puts in before it finds the pipe full.
\* Mutant: the test for a full pipe is off by one.
Room_OneMore(q) == (q.nread + PIPESIZE + 1 + CounterSize - q.nwrite) % CounterSize
Room(q) == (q.nread + PIPESIZE + CounterSize - q.nwrite) % CounterSize

\* A byte is the value of nwrite that it is written at.
PipePut(q, m) ==
  [q EXCEPT !.nwrite = (@ + m) % CounterSize,
            !.data = [i \in DOMAIN @ |->
               LET new == {j \in 0..m - 1 : (q.nwrite + j) % PIPESIZE = i}
               IN IF new = {} THEN @[i] ELSE (q.nwrite + Max(new)) % CounterSize]]

\* read() and write() on the right end of a pipe.
Transfer(p, fd, n) ==
  LET f == ofile[p][fd]
  IN /\ Call(p) /\ f # 0 /\ kind[f] \in {"read", "write"}
     /\ Goto(p, [User EXCEPT !.pc = IF kind[f] = "read" THEN "reads" ELSE "writes",
                             !.file = f, !.n = n])
     /\ UNCHANGED <<free, procs, memory, files, pipes, panicked>>

\* piperead(), from the lock or a wakeup to the next sleep or the end.
ReadTry(p) ==
  LET k == pipe[job[p].file]
      q == pipes[k]
      waits == q.nread = q.nwrite /\ q.writeopen
  IN /\ At(p, "reads")
     /\ \/ /\ waits /\ killed[p]
           /\ Return(p)
           /\ UNCHANGED pipes
        \/ /\ waits /\ ~killed[p]
           /\ Goto(p, [job[p] EXCEPT !.pc = "nread"])
           /\ UNCHANGED pipes
        \/ /\ ~waits
           /\ pipes' = [pipes EXCEPT ![k].nread =
                          (@ + Min({job[p].n, Count(q)})) % CounterSize]
           /\ Wakeup(p, User, k, "nwrite")
     /\ UNCHANGED <<free, procs, memory, files, calls, panicked>>

\* pipewrite(), from the lock or a wakeup to the next sleep or the end.  When it
\* gives up it wakes nobody, and a reader asleep misses what was written (missed).
WriteTry(p) ==
  LET k == pipe[job[p].file]
      q == pipes[k]
      m == Min({job[p].n, Room(q)})
      full == m < job[p].n
      fails == ~q.readopen \/ killed[p]
  IN /\ At(p, "writes")
     /\ pipes' = [pipes EXCEPT ![k] = PipePut(q, m)]
     /\ \/ /\ ~full
           /\ Wakeup(p, User, k, "nread")
        \/ /\ full /\ ~fails
           /\ Wakeup(p, [job[p] EXCEPT !.pc = "nwrite", !.n = @ - m], k, "nread")
        \/ /\ full /\ fails
           /\ job' = [x \in Procs |->
                IF x = p THEN User
                ELSE IF m > 0 /\ Sleeps(x, k, "nread")
                     THEN [job[x] EXCEPT !.missed = TRUE] ELSE job[x]]
     /\ UNCHANGED <<free, procs, memory, files, calls, panicked>>

-----------------------------------------------------------------------------
(* The end of a process. *)

Kill(p, c) ==
  /\ Call(p) /\ c # InitProc /\ state[c] = "live"
  /\ killed' = [killed EXCEPT ![c] = TRUE]
  /\ job' = [job EXCEPT ![c].pc =
               IF @ = "nread" THEN "reads" ELSE IF @ = "nwrite" THEN "writes" ELSE @]
  /\ UNCHANGED <<free, state, parent, memory, files, pipes, panicked>>

\* exit(): closes the files, one after the other.
Exit(p) ==
  LET fds == {fd \in Fds : ofile[p][fd] # 0}
  IN /\ At(p, "user") /\ p # InitProc
     /\ Goto(p, [User EXCEPT !.pc = "exits", !.todo =
                   Closes([i \in 1..Cardinality(fds) |-> ofile[p][Nth(fds, i)]])])
     /\ ofile' = [ofile EXCEPT ![p] = [fd \in Fds |-> 0]]
     /\ UNCHANGED <<free, procs, memory, ref, kind, pipe, pipes, calls, panicked>>

Zombie(p) ==
  /\ At(p, "exits")
  /\ state' = [state EXCEPT ![p] = "zombie"]
  /\ parent' = [c \in Procs |-> IF parent[c] = p THEN InitProc ELSE parent[c]]
  /\ Return(p)
  /\ UNCHANGED <<free, killed, memory, files, pipes, calls, panicked>>

\* wait() finds a zombie.
Wait(p, c) ==
  /\ At(p, "user") /\ state[c] = "zombie" /\ parent[c] = p
  /\ kfree(kstack[c] + Pages(space[c]))
  /\ kstack' = [kstack EXCEPT ![c] = 0]
  /\ space' = [space EXCEPT ![c] = NoSpace]
  /\ size' = [size EXCEPT ![c] = 0]
  /\ state' = [state EXCEPT ![c] = "unused"]
  /\ parent' = [parent EXCEPT ![c] = 0]
  /\ killed' = [killed EXCEPT ![c] = FALSE]
  /\ UNCHANGED <<files, pipes, job, calls, panicked>>

ResNext ==
  \E p \in Procs :
    \/ \E c \in Procs : Fork(p, c) \/ Kill(p, c) \/ Wait(p, c)
    \/ \E n \in 0..MaxSize : (n >= 2 /\ Exec(p, n)) \/ Grow(p, n) \/ Shrink(p, n)
    \/ Stack(p) \/ SetupKvm(p) \/ NextPage(p) \/ MapPage(p)
    \/ ForkDone(p) \/ ExecDone(p) \/ GrowDone(p)
    \/ Grep(p) \/ GrepDone(p)
    \/ \E call \in {"open", "pipe"} : Open(p, call)
    \/ SecondFile(p) \/ PipeBuffer(p) \/ Install(p)
    \/ FileClose(p) \/ PipeClose(p)
    \/ \E fd \in Fds : Dup(p, fd) \/ Close(p, fd) \/ \E n \in Sizes : Transfer(p, fd, n)
    \/ ReadTry(p) \/ WriteTry(p)
    \/ Exit(p) \/ Zombie(p)

ResSpec == ResInit /\ [][ResNext]_resvars

-----------------------------------------------------------------------------
ResTypeOK ==
  /\ free \in 0..NPages
  /\ state \in [Procs -> {"unused", "embryo", "live", "zombie"}]
  /\ parent \in [Procs -> Procs \cup {0}] /\ killed \in [Procs -> BOOLEAN]
  /\ kstack \in [Procs -> {0, 1}] /\ size \in [Procs -> 0..MaxSize]
  /\ ofile \in [Procs -> [Fds -> Files \cup {0}]]
  /\ ref \in [Files -> Nat]
  /\ kind \in [Files -> {"none", "inode", "read", "write"}]

Owned(p) == kstack[p] + Pages(space[p]) + Pages(job[p].new) + job[p].mem

\* Every page of memory is on the free list or has one owner: a page table, a
\* kernel stack, a pipe, or the call that has just allocated it; whichever
\* kalloc() fails, whatever the other processes take meanwhile.  copyuvm() misses
\* a page only of a process that gave back all its memory.
PagesExact ==
  /\ ResTypeOK
  /\ NPages = free + SumFunctionOnSet([p \in Procs |-> Owned(p)], Procs)
                   + Cardinality({k \in Pipes : pipes[k].there})
  /\ panicked => \E p \in Procs : state[p] = "live" /\ 0 \notin space[p].pages

Uses(p, f) == Occurs(ofile[p], f) + Occurs(job[p].todo, CloseOf(f)) + Occurs(job[p].made, f)

\* A file's count is the number of descriptors for it, in all processes, and of
\* calls that have yet to install or to close it; a pipe exists as long as a file
\* or a call that is closing it needs it, and knows which of its ends those are.
FilesExact ==
  /\ \A f \in Files :
       /\ ref[f] = SumFunctionOnSet([p \in Procs |-> Uses(p, f)], Procs)
       /\ kind[f] # "none" => ref[f] > 0
  /\ \A k \in Pipes, end \in {"read", "write"} :
       (IF end = "read" THEN pipes[k].readopen ELSE pipes[k].writeopen) <=>
         \/ \E f \in Files : kind[f] = end /\ pipe[f] = k
         \/ \E p \in Procs : \E i \in DOMAIN job[p].todo :
              job[p].todo[i] = [file |-> k, end |-> end]

\* A reader sleeps only while the pipe is empty and a writer is left, a writer only
\* while it is full and a reader is left, and the bytes in the pipe are the ones
\* last written, in order, wherever the counters wrap.  The exception is the
\* reader that slept while a killed writer filled the pipe and gave up.
NobodyForgotten ==
  /\ \A p \in Procs :
       /\ job[p].pc = "nread" /\ ~job[p].missed =>
            LET q == pipes[pipe[job[p].file]] IN Count(q) = 0 /\ q.writeopen
       /\ job[p].pc = "nwrite" =>
            LET q == pipes[pipe[job[p].file]] IN Count(q) = PIPESIZE /\ q.readopen
  /\ \A k \in Pipes : \A i \in 0..Count(pipes[k]) - 1 :
       LET x == (pipes[k].nread + i) % CounterSize IN pipes[k].data[x % PIPESIZE] = x

=============================================================================
