-------------------------------- MODULE Files --------------------------------
(***************************************************************************)
(* Inodes, directories and paths of LAB4/codes/fs.c and the system calls   *)
(* of LAB4/codes/sysfile.c that name files, on several processes.          *)
(*                                                                         *)
(* One action is one critical section of an inode's sleep-lock, or of      *)
(* icache.lock where that is taken alone.  iput() has two: the one of the  *)
(* inode's lock, in which it may free the inode, and the one in which it   *)
(* drops the reference.  The log and the buffer cache below are modules of *)
(* their own, and what a system call does is one transaction of the log.   *)
(***************************************************************************)
EXTENDS Naturals, Sequences, FiniteSets, FiniteSetsExt

CONSTANTS
  Callers,     \* the processes
  Inums,       \* 1..n: inode numbers; 1 is the root directory
  Names,       \* the names that are neither "." nor ".."
  Calls,       \* the calls a process may make
  MaxCalls     \* bound: how many calls each process makes

Root == 1
NoOne == "no one"

\* A call: its path, and the second one of link() and make_duplicate(); whether
\* each starts with a "/".
Paths == Seq(Names \cup {".", ".."})
CallRecords ==
  [op : {"creat", "mkdir", "chdir", "open", "openw", "unlink", "link", "copy"},
   path : Paths, to : Paths, abs : BOOLEAN, toabs : BOOLEAN]

ASSUME FilesAssumption ==
  /\ IsFiniteSet(Callers) /\ NoOne \notin Callers
  /\ IsFiniteSet(Inums) /\ Inums \subseteq Nat \ {0} /\ 1..4 \subseteq Inums
  /\ IsFiniteSet(Names) /\ {"d", "f"} \subseteq Names /\ Names \cap {".", ".."} = {}
  /\ Calls # {} /\ Calls \subseteq CallRecords
  /\ MaxCalls \in Nat

VARIABLES
  type, nlink, \* the inode: "free", "dir" or "file", and its links
  names,       \* names[d][n]: the inode of entry n of directory d, 0: none
  parent,      \* the ".." of a directory
  ref, valid,  \* its entry in the inode cache
  owner,       \* who holds ip->lock
  cwd, open,   \* of each process: proc->cwd, and the file it has open, or 0
  job,         \* of each process: the call it is in
  lost,        \* history variable: entries that went away with their directory
  panic        \* the message of panic(), or "no"

inodes == <<type, nlink, names, parent>>
filesvars == <<inodes, ref, valid, owner, cwd, open, job, lost, panic>>

\* at: where the path walk stands; ip: the other inode of the call; src: what
\* make_duplicate() copies.  The process holds a reference to each that is not
\* 0, and to those in puts, on which it has to call iput() before it goes on;
\* drop: iput() is past the inode's lock.
Idle(n) ==
  [pc |-> "idle", call |-> CHOOSE c \in Calls : TRUE, todo |-> <<>>, at |-> 0, ip |-> 0,
   src |-> 0, puts |-> <<>>, drop |-> FALSE, left |-> n]

\* After mkfs, two calls of mkdir() and the creation of a file: "/d", "/d/d" and
\* "/f"; nothing is cached but the directory the processes are in.
FilesInit ==
  /\ type = [i \in Inums |-> CASE i <= 3 -> "dir" [] i = 4 -> "file" [] OTHER -> "free"]
  /\ nlink = [i \in Inums |-> CASE i <= 2 -> 2 [] i \in {3, 4} -> 1 [] OTHER -> 0]
  /\ names = [i \in Inums |-> [n \in Names |->
               CASE i = 1 /\ n = "d" -> 2 [] i = 2 /\ n = "d" -> 3
                 [] i = 1 /\ n = "f" -> 4 [] OTHER -> 0]]
  /\ parent = [i \in Inums |-> CASE i <= 2 -> Root [] i = 3 -> 2 [] OTHER -> 0]
  /\ ref = [i \in Inums |-> IF i = Root THEN Cardinality(Callers) ELSE 0]
  /\ valid = [i \in Inums |-> FALSE]
  /\ owner = [i \in Inums |-> NoOne]
  /\ cwd = [p \in Callers |-> Root] /\ open = [p \in Callers |-> 0]
  /\ job = [p \in Callers |-> Idle(MaxCalls)]
  /\ lost = [i \in Inums |-> 0]
  /\ panic = "no"

-----------------------------------------------------------------------------
\* dirlookup()
Lookup(d, n) ==
  IF n = "." THEN d ELSE IF n = ".." THEN parent[d] ELSE names[d][n]

isdirempty(d) == \A n \in Names : names[d][n] = 0

\* iget() and idup(): a new cache entry is not valid.
Get(i) ==
  /\ ref' = [ref EXCEPT ![i] = @ + 1]
  /\ valid' = [valid EXCEPT ![i] = @ /\ ref[i] > 0]

\* The entries of the directories, and what each names.
Entries == {e \in Inums \X Names : names[e[1]][e[2]] # 0}
Target(e) == names[e[1]][e[2]]
Count(S) == Cardinality(S)

\* The process is at label l of its call and has nothing left to iput().
At(p, l) == job[p].pc = l /\ job[p].puts = <<>> /\ panic = "no"
Goto(p, j) == job' = [job EXCEPT ![p] = j]

\* ilock(i): the lock is free, and the inode is one that exists.
Free(i) == owner[i] = NoOne
Sees(i) == Free(i) /\ type[i] # "free"
Cached(i) == valid' = [valid EXCEPT ![i] = TRUE]
Lock(i, p) == owner' = [owner EXCEPT ![i] = p]
Unlock(i) == owner' = [owner EXCEPT ![i] = NoOne]

Parental == {"creat", "mkdir", "unlink"}
\* nameiparent() stops one element early: in these calls, and on the second path.
StopsEarly(j) == j.call.op \in Parental \/ j.ip # 0 \/ j.src # 0

Begin(p, c) ==
  LET i == IF c.abs THEN Root ELSE cwd[p]
  IN /\ At(p, "idle") /\ job[p].left > 0
     /\ Get(i)
     /\ Goto(p, [job[p] EXCEPT !.pc = "walk", !.call = c, !.todo = c.path, !.at = i,
                               !.left = @ - 1])
     /\ UNCHANGED <<inodes, owner, cwd, open, lost, panic>>

\* fileclose() of the last descriptor.
Close(p) ==
  /\ At(p, "idle") /\ open[p] # 0
  /\ Goto(p, [job[p] EXCEPT !.puts = <<open[p]>>])
  /\ open' = [open EXCEPT ![p] = 0]
  /\ UNCHANGED <<inodes, ref, valid, owner, cwd, lost, panic>>

\* iput(), under ip->lock: the last reference to an inode without names frees
\* it, and itrunc() frees what it holds.
Unused_Referenced(i) == valid[i] /\ nlink[i] = 0
Unused(i) == valid[i] /\ nlink[i] = 0 /\ ref[i] = 1

PutLock(p) ==
  LET i == Head(job[p].puts)
  IN /\ job[p].puts # <<>> /\ ~job[p].drop /\ panic = "no"
     /\ Free(i)
     /\ Goto(p, [job[p] EXCEPT !.drop = TRUE])
     /\ IF Unused(i)
        THEN /\ type' = [type EXCEPT ![i] = "free"]
             /\ names' = [names EXCEPT ![i] = [n \in Names |-> 0]]
             /\ parent' = [parent EXCEPT ![i] = 0]
             /\ valid' = [valid EXCEPT ![i] = FALSE]
             /\ lost' = [x \in Inums |->
                          lost[x] + Count({e \in Entries : e[1] = i /\ Target(e) = x})]
        ELSE UNCHANGED <<type, names, parent, valid, lost>>
     /\ UNCHANGED <<nlink, ref, owner, cwd, open, panic>>

\* iput(), under icache.lock.
PutDrop(p) ==
  /\ job[p].drop /\ panic = "no"
  /\ ref' = [ref EXCEPT ![Head(job[p].puts)] = @ - 1]
  /\ Goto(p, [job[p] EXCEPT !.puts = Tail(@), !.drop = FALSE])
  /\ UNCHANGED <<inodes, valid, owner, cwd, open, lost, panic>>

\* The inode whose lock p is about to take, with iput() or ilock(), or 0.
Wants(p) ==
  LET j == job[p]
  IN IF j.puts # <<>> THEN IF j.drop THEN 0 ELSE Head(j.puts)
     ELSE CASE j.pc = "parent" \/ (j.pc = "walk" /\ j.todo # <<>>)
            \/ (j.pc = "found" /\ j.call.op # "copy") -> j.at
            [] j.pc \in {"old", "bad", "victim"} -> j.ip
            [] j.pc = "created" /\ j.call.op = "copy" -> j.src
            [] OTHER -> 0

\* ilock() of an inode that was freed: its number came from the ".." of a
\* directory that was removed before its parent.
PanicNoType(p) ==
  LET i == Wants(p)
  IN /\ job[p].puts = <<>> /\ panic = "no"
     /\ i # 0 /\ Free(i) /\ type[i] = "free"
     /\ panic' = "ilock: no type"
     /\ UNCHANGED <<inodes, ref, valid, owner, cwd, open, job, lost>>

Source(j) == IF j.src # 0 THEN <<j.src>> ELSE <<>>

\* Where a failed path leaves the call: link() has to take its count back, and
\* make_duplicate() to drop the source.
Failed(j) ==
  IF j.ip # 0 THEN [j EXCEPT !.pc = "bad", !.at = 0, !.puts = <<j.at>>]
  ELSE [Idle(j.left) EXCEPT !.puts = <<j.at>> \o Source(j)]

\* namex(): one element of the path.
Walk(p) ==
  LET j == job[p]
      next == Lookup(j.at, Head(j.todo))
      last == Len(j.todo) = 1
  IN /\ At(p, "walk") /\ j.todo # <<>> /\ Sees(j.at)
     /\ IF type[j.at] = "dir" /\ StopsEarly(j) /\ last
        THEN Goto(p, [j EXCEPT !.pc = "parent"]) /\ Cached(j.at) /\ UNCHANGED ref
        ELSE IF type[j.at] # "dir" \/ next = 0
        THEN Goto(p, Failed(j)) /\ Cached(j.at) /\ UNCHANGED ref
        ELSE /\ Goto(p, [j EXCEPT !.pc = IF last THEN "found" ELSE "walk", !.at = next,
                                  !.todo = Tail(@), !.puts = <<j.at>>])
             /\ ref' = [ref EXCEPT ![next] = @ + 1]
             /\ valid' = [valid EXCEPT ![next] = @ /\ ref[next] > 0, ![j.at] = TRUE]
     /\ UNCHANGED <<inodes, owner, cwd, open, lost, panic>>

\* namex() of a path without an element.
NoElement(p) ==
  LET j == job[p]
  IN /\ At(p, "walk") /\ j.todo = <<>>
     /\ Goto(p, IF StopsEarly(j) THEN Failed(j) ELSE [j EXCEPT !.pc = "found"])
     /\ UNCHANGED <<inodes, ref, valid, owner, cwd, open, lost, panic>>

\* An inode that is unlocked, put and forgotten ends the call.
Done(j, i) == [Idle(j.left) EXCEPT !.puts = <<i>>]

\* open() of a path that exists; a directory is opened only for reading.
Open(p) ==
  LET j == job[p]
      i == j.at
  IN /\ At(p, "found") /\ j.call.op \in {"open", "openw"} /\ Sees(i)
     /\ IF open[p] # 0 \/ (type[i] = "dir" /\ j.call.op = "openw")
        THEN Goto(p, Done(j, i)) /\ UNCHANGED open
        ELSE /\ Goto(p, Idle(j.left))
             /\ open' = [open EXCEPT ![p] = i]
     /\ Cached(i)
     /\ UNCHANGED <<inodes, ref, owner, cwd, lost, panic>>

chdir(p) ==
  LET j == job[p]
  IN /\ At(p, "found") /\ j.call.op = "chdir" /\ Sees(j.at)
     /\ IF type[j.at] # "dir" THEN Goto(p, Done(j, j.at)) /\ UNCHANGED cwd
        ELSE /\ Goto(p, Done(j, cwd[p]))
             /\ cwd' = [cwd EXCEPT ![p] = j.at]
     /\ Cached(j.at)
     /\ UNCHANGED <<inodes, ref, owner, open, lost, panic>>

\* create(), under dp's lock, when the name exists.
CreateOld(p) ==
  LET j == job[p]
      i == Lookup(j.at, Head(j.todo))
  IN /\ At(p, "parent") /\ j.call.op \in {"creat", "mkdir", "copy"} /\ Sees(j.at) /\ i # 0
     /\ Get(i)
     /\ Goto(p, [j EXCEPT !.pc = "old", !.at = 0, !.ip = i, !.puts = <<j.at>>])
     /\ UNCHANGED <<inodes, owner, cwd, open, lost, panic>>

\* create() locks what it found, which must be a file and wanted as one.
CreateTakesOld(p) ==
  LET j == job[p]
  IN /\ At(p, "old") /\ Sees(j.ip)
     /\ IF j.call.op # "mkdir" /\ type[j.ip] = "file"
        THEN Lock(j.ip, p) /\ Goto(p, [j EXCEPT !.pc = "created"])
        ELSE /\ Goto(p, [Idle(j.left) EXCEPT !.puts = <<j.ip>> \o Source(j)])
             /\ UNCHANGED owner
     /\ Cached(j.ip)
     /\ UNCHANGED <<inodes, ref, cwd, open, lost, panic>>

\* ialloc(): the first free inode of the inodes.
FirstFree(i) == type[i] = "free" /\ \A k \in Inums : type[k] = "free" => i <= k

\* create(): a new inode, which stays locked while dp is unlocked and put.
CreateNew(p) ==
  LET j == job[p]
      d == j.at
      n == Head(j.todo)
      dir == j.call.op = "mkdir"
  IN /\ At(p, "parent") /\ j.call.op \in {"creat", "mkdir", "copy"} /\ Sees(d)
     /\ Lookup(d, n) = 0
     /\ \E i \in Inums :
          /\ FirstFree(i) /\ Free(i)
          /\ type' = [type EXCEPT ![i] = IF dir THEN "dir" ELSE "file"]
          /\ nlink' = [nlink EXCEPT ![i] = 1, ![d] = IF dir THEN @ + 1 ELSE @]
          /\ names' = [names EXCEPT ![d][n] = i]
          /\ parent' = [parent EXCEPT ![i] = IF dir THEN d ELSE 0]
          /\ ref' = [ref EXCEPT ![i] = @ + 1]
          /\ valid' = [valid EXCEPT ![i] = TRUE]
          /\ Lock(i, p)
          /\ Goto(p, [j EXCEPT !.pc = "created", !.at = 0, !.ip = i, !.puts = <<d>>])
     /\ UNCHANGED <<cwd, open, lost, panic>>

PanicNoInodes(p) ==
  LET j == job[p]
  IN /\ At(p, "parent") /\ j.call.op \in {"creat", "mkdir", "copy"} /\ Sees(j.at)
     /\ Lookup(j.at, Head(j.todo)) = 0 /\ \A i \in Inums : type[i] # "free"
     /\ panic' = "ialloc: no inodes"
     /\ UNCHANGED <<inodes, ref, valid, owner, cwd, open, job, lost>>

\* The end of open(O_CREATE) and of mkdir(), which hold the inode's lock.
Created(p) ==
  LET j == job[p]
      opens == j.call.op = "creat" /\ open[p] = 0
  IN /\ At(p, "created") /\ j.call.op # "copy"
     /\ Unlock(j.ip)
     /\ open' = [open EXCEPT ![p] = IF opens THEN j.ip ELSE @]
     /\ Goto(p, IF opens THEN Idle(j.left) ELSE Done(j, j.ip))
     /\ UNCHANGED <<inodes, ref, valid, cwd, lost, panic>>

\* make_duplicate() has found the source and goes for the copy's directory.
CopySource(p) ==
  LET j == job[p]
      i == IF j.call.toabs THEN Root ELSE cwd[p]
  IN /\ At(p, "found") /\ j.call.op = "copy"
     /\ Get(i)
     /\ Goto(p, [j EXCEPT !.pc = "walk", !.at = i, !.src = j.at, !.todo = j.call.to])
     /\ UNCHANGED <<inodes, owner, cwd, open, lost, panic>>

\* It holds the copy's lock when it takes the source's.  What it copies is left
\* out: a copy that was longer keeps its end.
CopyData(p) ==
  LET j == job[p]
  IN /\ At(p, "created") /\ j.call.op = "copy" /\ Sees(j.src)
     /\ Unlock(j.ip) /\ Cached(j.src)
     /\ Goto(p, [Idle(j.left) EXCEPT !.puts = <<j.src, j.ip>>])
     /\ UNCHANGED <<inodes, ref, cwd, open, lost, panic>>

\* link(): the count of the old name's inode goes up first.
LinkOld(p) ==
  LET j == job[p]
      i == IF j.call.toabs THEN Root ELSE cwd[p]
  IN /\ At(p, "found") /\ j.call.op = "link" /\ Sees(j.at)
     /\ IF type[j.at] = "dir"
        THEN Goto(p, Done(j, j.at)) /\ Cached(j.at) /\ UNCHANGED <<nlink, ref>>
        ELSE /\ nlink' = [nlink EXCEPT ![j.at] = @ + 1]
             /\ ref' = [ref EXCEPT ![i] = @ + 1]
             /\ valid' = [valid EXCEPT ![i] = @ /\ ref[i] > 0, ![j.at] = TRUE]
             /\ Goto(p, [j EXCEPT !.pc = "walk", !.ip = j.at, !.at = i, !.todo = j.call.to])
     /\ UNCHANGED <<type, names, parent, owner, cwd, open, lost, panic>>

\* dirlink() under dp's lock: a name that exists is looked up and put again
\* before the call gives dp up.
LinkNew(p) ==
  LET j == job[p]
      d == j.at
      i == Lookup(d, Head(j.todo))
  IN /\ At(p, "parent") /\ j.call.op = "link" /\ Sees(d)
     /\ IF i # 0
        THEN /\ Get(i) /\ Lock(d, p)
             /\ Goto(p, [j EXCEPT !.pc = "clash", !.puts = <<i>>])
             /\ UNCHANGED names
        ELSE /\ names' = [names EXCEPT ![d][Head(j.todo)] = j.ip]
             /\ Goto(p, [Done(j, d) EXCEPT !.puts = <<d, j.ip>>])
             /\ UNCHANGED <<owner, ref, valid>>
     /\ UNCHANGED <<type, nlink, parent, cwd, open, lost, panic>>

\* link() and unlink() give the directory up.
Clash(p) ==
  LET j == job[p]
  IN /\ At(p, "clash")
     /\ Unlock(j.at)
     /\ Goto(p, Failed(j))
     /\ UNCHANGED <<inodes, ref, valid, cwd, open, lost, panic>>

\* Mutant: the error path of link() forgets the count.
TakeBack_Nothing(i) == nlink
TakeBack(i) == [nlink EXCEPT ![i] = @ - 1]

LinkBad(p) ==
  LET j == job[p]
  IN /\ At(p, "bad") /\ Sees(j.ip)
     /\ nlink' = TakeBack(j.ip)
     /\ Goto(p, Done(j, j.ip)) /\ Cached(j.ip)
     /\ UNCHANGED <<type, names, parent, ref, owner, cwd, open, lost, panic>>

\* Mutant: unlink() lets ".." pass.
Undeletable_Dot == {"."}
Undeletable == {".", ".."}

\* unlink() under dp's lock, which it keeps while it locks the victim.
Unlink(p) ==
  LET j == job[p]
      n == Head(j.todo)
      i == Lookup(j.at, n)
  IN /\ At(p, "parent") /\ j.call.op = "unlink" /\ Sees(j.at)
     /\ IF n \in Undeletable \/ i = 0
        THEN Goto(p, Done(j, j.at)) /\ UNCHANGED <<ref, valid, owner>>
        ELSE /\ Get(i) /\ Lock(j.at, p)
             /\ Goto(p, [j EXCEPT !.pc = "victim", !.ip = i])
     /\ UNCHANGED <<inodes, cwd, open, lost, panic>>

\* A directory that is not empty stays; otherwise the entry goes, and dp is
\* unlocked and put while the victim is locked.
Victim(p) ==
  LET j == job[p]
      i == j.ip
      d == j.at
      dir == type[i] = "dir"
  IN /\ At(p, "victim") /\ Sees(i)
     /\ IF dir /\ ~isdirempty(i)
        THEN /\ Goto(p, [j EXCEPT !.pc = "clash", !.ip = 0, !.puts = <<i>>])
             /\ UNCHANGED <<names, nlink, owner>>
        ELSE /\ names' = [names EXCEPT ![d][Head(j.todo)] = 0]
             /\ nlink' = [nlink EXCEPT ![d] = IF dir THEN @ - 1 ELSE @]
             /\ owner' = [owner EXCEPT ![d] = NoOne, ![i] = p]
             /\ Goto(p, [j EXCEPT !.pc = "unnamed", !.at = 0, !.puts = <<d>>])
     /\ panic' = IF nlink[i] < 1 THEN "unlink: nlink < 1" ELSE "no"
     /\ Cached(i)
     /\ UNCHANGED <<type, parent, ref, cwd, open, lost>>

Unnamed(p) ==
  LET j == job[p]
  IN /\ At(p, "unnamed")
     /\ nlink' = [nlink EXCEPT ![j.ip] = @ - 1]
     /\ Unlock(j.ip)
     /\ Goto(p, Done(j, j.ip))
     /\ UNCHANGED <<type, names, parent, ref, valid, cwd, open, lost, panic>>

Step(p) ==
  \/ PutLock(p) \/ PutDrop(p) \/ Walk(p) \/ NoElement(p) \/ PanicNoType(p)
  \/ Open(p) \/ chdir(p) \/ CreateOld(p) \/ CreateTakesOld(p) \/ CreateNew(p) \/ Created(p) \/ PanicNoInodes(p)
  \/ CopySource(p) \/ CopyData(p) \/ LinkOld(p) \/ LinkNew(p) \/ Clash(p) \/ LinkBad(p)
  \/ Unlink(p) \/ Victim(p) \/ Unnamed(p)

FilesNext == \E p \in Callers : Step(p) \/ Close(p) \/ \E c \in Calls : Begin(p, c)

FilesSpec == FilesInit /\ [][FilesNext]_filesvars

-----------------------------------------------------------------------------
FilesTyped ==
  /\ type \in [Inums -> {"free", "dir", "file"}]
  /\ nlink \in [Inums -> Nat] /\ ref \in [Inums -> Nat] /\ lost \in [Inums -> Nat]
  /\ names \in [Inums -> [Names -> Inums \cup {0}]]
  /\ parent \in [Inums -> Inums \cup {0}]
  /\ valid \in [Inums -> BOOLEAN]
  /\ owner \in [Inums -> Callers \cup {NoOne}]
  /\ cwd \in [Callers -> Inums] /\ open \in [Callers -> Inums \cup {0}]

Named(i) == {e \in Entries : Target(e) = i}
Subdirs(i) == {e \in Entries : e[1] = i /\ type[Target(e)] = "dir"}
Pends(j) == IF j.call.op = "link" \/ j.pc = "unnamed" THEN j.ip ELSE 0
Pending(i) == {p \in Callers : Pends(job[p]) = i}

\* The link count of every inode is exact through every interleaving: its
\* entries, the ".." of its subdirectories, what a link() or an unlink() that
\* is under way added first or has still to take off, and the entries that
\* went away with a directory that was removed while a call was about to
\* write into it.  So an inode is never freed while it has a name.
LinksExact ==
  \A i \in Inums : type[i] # "free" =>
    nlink[i] = Count(Named(i)) + Count(Subdirs(i)) + Count(Pending(i))
               + lost[i] + (IF i = Root THEN 1 ELSE 0)

\* The references of one process to an inode.
Is(x, i) == IF x = i THEN 1 ELSE 0
Occurs(s, i) == Count({k \in DOMAIN s : s[k] = i})
Holds(j, i) == Is(j.at, i) + Is(j.ip, i) + Is(j.src, i) + Occurs(j.puts, i)
Held(p, i) == Holds(job[p], i) + Is(cwd[p], i) + Is(open[p], i)

\* The cache counts exactly the references of the processes, whichever way their
\* calls end, and nothing that is in use is ever freed: neither what an entry,
\* a descriptor or a current directory names, nor the parent of a directory
\* that still has a name.
NothingDangles ==
  /\ FilesTyped /\ panic # "unlink: nlink < 1"
  /\ \A i \in Inums : ref[i] = SumFunctionOnSet([p \in Callers |-> Held(p, i)], Callers)
  /\ \A e \in Entries :
       /\ type[e[1]] = "dir" /\ type[Target(e)] # "free"
       /\ type[Target(e)] = "dir" => parent[Target(e)] = e[1]
  /\ \A p \in Callers : type[cwd[p]] = "dir" /\ (open[p] # 0 => type[open[p]] # "free")

\* Each process of S waits for another of S, or for itself.
Deadlocked(S) ==
  S # {} /\ \A p \in S : Wants(p) # 0 /\ owner[Wants(p)] \in S

\* The locks that the calls take with ilock() to use an inode never make
\* processes wait in a circle: one of the circle is always in iput(), whose
\* lock on the directory the callers ask for while they hold the entry, or in
\* make_duplicate(), which asks for the source while it holds the copy.
DeadlocksExplained ==
  \A S \in SUBSET Callers : Deadlocked(S) =>
    \E p \in S : job[p].puts # <<>> \/ job[p].call.op = "copy"

=============================================================================
