# A formal model of the Operating-System-LAB kernel

The repository holds five laboratory exercises on the teaching kernel xv6 (x86,
C). `LAB4/codes` is the most complete tree: it contains the console of LAB1, the
system calls of LAB2 (all but its scheduler), the heterogeneous scheduler of LAB3
and the locks of LAB4. `LAB1` and `LAB2` are earlier states of the same files,
`LAB3` and `LAB5` hold reports only. Everything here is a model of
`LAB4/codes`, and paths below are relative to it unless they say otherwise.

The models answer questions that the repository's user-level tests
(`plocktest.c`, `rwtest.c`, `test_lock.c`, ...) can hardly ask: what happens when
two processors, a kill() or a power failure come between two lines.

## 1. The system

| component | state | operations | interacts with |
|---|---|---|---|
| spinlocks, interrupt nesting (`spinlock.c`) | `locked`, `cpu`; per processor `ncli`, `intena`, the interrupt flag | `acquire`, `release`, `holding`, `pushcli`, `popcli` | every other component; interrupts |
| sleep and wakeup (`proc.c`) | `p->state`, `p->chan`, `cpus[].proc`, `ptable.lock` | `sleep`, `wakeup`, `yield`, `sched`, `forkret`, `kill` of a sleeper | takes the caller's lock and `ptable.lock`, and hands the latter across `swtch()` |
| process table (`proc.c`) | `ptable.proc[]`, `nextpid`, `initproc` | `allocproc`, `fork`, `exit`, `wait`, `kill`, `userinit` | `sleep`/`wakeup1`; memory and files |
| heterogeneous scheduler (`proc.c`, `trap.c`, `main.c`) | `cpus[].core_type`, `tick_count`, `ctime` | `scheduler` on an E-core (round robin) and on a P-core (FCFS), the clock tick | process table, clock |
| readers-writer lock (`rwlock.c`) | `read_count`, `write_locked` | two acquires, two releases | sleep, wakeup |
| sleep-lock with owner (`sleeplock.c`) | `locked`, `pid` | `acquiresleep`, `releasesleep`, `holdingsleep` | sleep, wakeup; panics |
| priority lock (`plock.c`) | `locked`, a linked list, `node_pool[]` | `plock_acquire`, `plock_release` | sleep, wakeup |
| log (`log.c`) | on disk a header and log blocks; in memory `lh`, `outstanding`, `committing` | `begin_op`, `log_write`, `end_op`, `commit`, recovery | buffer cache, disk, sleep, wakeup |
| buffer cache, disk driver (`bio.c`, `ide.c`) | LRU list, reference counts, request queue | `bread`, `bwrite`, `brelse`, `iderw`, `ideintr` | log, inodes |
| inodes, directories, paths (`fs.c`) | inode cache, on-disk inodes and bitmap | `ialloc`, `iget`, `ilock`, `iput`, `readi`, `writei`, `dirlink`, `namex` | log, cache |
| file table, pipes (`file.c`, `pipe.c`) | reference counts, ring buffer | `filealloc`, `filedup`, `fileclose`, `piperead`, `pipewrite` | sleep, wakeup, inodes |
| file system calls (`sysfile.c`) | none | `open`, `link`, `unlink`, ..., `make_duplicate`, `grep` | log, inodes |
| memory (`vm.c`, `kalloc.c`) | page tables, free list | `kalloc`, `kfree`, `copyuvm`, ... | process table |
| console editor (`console.c`) | input ring, cursor, selection, undo, history | `consoleintr`, `consoleread` | sleep, wakeup |
| measurement and statistics | `total_finished_procs`, `acq_count`, `total_spins` | `start_measure`, `end_measure`, `getlockstat` | exit(), acquire() |
| traps, system call dispatch, boot | | | all of the above |

What makes it hard, component by component, and what must hold:

* **Spinlocks.** A handler may run between any two instructions of an `acquire()`
  and take locks itself. Exclusion on every lock, no self-deadlock, no false
  panic, and interrupts back on exactly when the outermost pair ends.
* **Sleep and wakeup.** A condition is tested under one lock, the state changed
  under another, and the second is released by whoever runs next on the
  processor. No wakeup lost, no process on two processors, every hand-over exact.
* **Process table.** `fork()` fills in its entry without `ptable.lock`, so exits
  and kills of others come in between. No child without a live parent, no pid
  twice, no missed exit, every zombie of init freed.
* **Scheduler.** Two policies over one table; the tick counter belongs to the
  process and may be stale after a turn elsewhere. One processor per process,
  full quanta, no starvation of what a round robin may run.
* **Locks of LAB4.** A waiter may be killed at any point and an owner may die
  inside. Exclusion, counters that agree with who is inside, no lost wakeup, and
  for the priority lock, hand-over to a waiter of the highest priority.
* **Log.** A crash between any two disk writes, of a recovery too. All calls of a
  group commit take effect or none does, and later calls see earlier ones.
* **Buffer cache and driver.** A buffer is looked up, locked, read by an
  interrupt, changed, kept for the log and recycled in separate critical
  sections. A process that gets a block finds what the last one left in it, has
  it alone, and every call returns.
* **Inodes and directories.** A path walk holds no lock between two elements, a
  removed file lives on while somebody has it, and several calls hold one inode's
  lock while they take another's. Link counts and references exact, nothing in
  use freed, and a known set of lock cycles.
* **Memory, files, pipes.** Every allocation can fail in the middle of a call
  because of what others took meanwhile. Each page, file and end of a pipe has
  its owners and no others, and nobody sleeps on a pipe that has something for it.
* **Console.** Three free-running indices and a cursor in a ring, against typing
  ahead, selection, completion and undo. The ring behaves as a line with a queue.

`PROJECT.json` lists under `hazards` each such place at its line, with the
properties that cover it or the reason that none does.

## 2. The modules

| module | models | grain of an action |
|---|---|---|
| `KernelSleep` | `sleep()`, `wakeup()`, `kill()`, the exit of a killed process and `panic()`, as the clients of one lock see them | used inside the actions of the three lock modules |
| `RWLock` implements `ReadersWriters` | `rwlock.c` and its four system calls | a critical section of `rw->lk` |
| `SleepLock` implements `Mutex` | `sleeplock.c` and its two system calls | a critical section of `lk->lk` |
| `PLock`, compared with `Mutex` | `plock.c`, the pool and the list with its pointers | a critical section of `pl->lk` |
| `SpinLock` implements `Mutex`, for each lock | `spinlock.c`, interrupt entry and return | one access to memory shared with other processors |
| `SleepWakeup` implements `AtomicWait` | `sleep`, `wakeup1`, `kill`, `yield`, `sched`, `forkret`, `scheduler` | one lock operation, or the code between two |
| `ProcTable` | `allocproc`, `fork`, `exit`, `wait`, `kill`, `userinit` | a critical section of `ptable.lock`, or a write made without it |
| `Scheduler` | both policies, the tick handler, what makes processes come and go | a critical section of `ptable.lock` |
| `Log` implements `AtomicStore` | `log.c`, the part of `bio.c` it relies on, crashes | a critical section of `log.lock`, the test that `log_write()` makes without it, or the write of one disk block |
| `Buffers` implements `BlockStore` | `bio.c`, the queue and the interrupt of `ide.c`, `log_write()` as their caller | a critical section of `bcache.lock` or `idelock`, or the taking or giving up of a buffer's sleep-lock |
| `Files` | `fs.c` from `iget()` to `namex()` (not the contents of files), the calls of `sysfile.c` that name files | a critical section of an inode's sleep-lock, or of `icache.lock` where it is taken alone |
| `Resources` | `kalloc.c`, `vm.c`, `exec.c`, `fork`, `wait`, `growproc`, `file.c`, `pipe.c`, the calls on descriptors | one `kalloc()`, or a critical section of `ftable.lock` or a pipe's lock |
| `Console` implements `LineEditor` | `consoleintr()`, `consoleread()` | a key, or what a reader does until it sleeps |
| `MC...` | the instances for TLC | |
| `...Proofs` | the theorems (section 5), with `ProofLemmas` for what several of them share | |

`LockProofs`, `ProcessProofs`, `ProcessorProofs` and `FileSystemProofs` each prove
about several modules and therefore EXTEND them together, so names that every
module would have carry a prefix there: `RW`, `SL`, `P`, `SW`, `Spin`, `Sched` for `RWLock`,
`SleepLock`, `PLock`, `SleepWakeup`, `SpinLock` and `Scheduler` (`RWNext`,
`SLNoLostWakeup`, `PEveryCallReturns`, ...), and a few variables are named away
from each other: `plocked` is `locked` and `owners` are the processes inside in
`PLock`, `pstate` and `pkilled` are `p->state` and `p->killed` in `SleepWakeup`.
`Files`, which is extended together with `Log`, has `FilesInit`, `FilesNext`,
`FilesSpec` and `FilesTyped`, and `Callers` for its processes.

The layers justify each other's grain. `SpinLock` shows that a critical section
excludes every other, so the modules above take a critical section as one step.
`SleepWakeup` shows that `sleep()` with a lock held behaves as an atomic "release
the lock and block", which is what `KernelSleep`'s `SleepOn` and `Woken` are and
what the lock modules and `Log` use. A process asleep in `KernelSleep` is made
RUNNABLE by a wakeup or by `kill()` and returns from `sleep()` with its channel
cleared in its next step. `trap()` lets a killed process get no further than the
next entry to or exit from the kernel; `Exit` is that step, and nothing in
`exit()` releases the locks of LAB4, so an owner that is killed takes its lock
with it.

The file system is layered the same way. `SleepLock` justifies that a buffer's or
an inode's lock is taken in one step in `Buffers` and `Files`. `Buffers` shows
that the cache and the driver are a `BlockStore`, one content per block and one
holder at a time: that is what `Log` assumes of blocks that it reads back, and
the pages of inodes and directories that `Files` changes in one step. `Log` shows
that what a call changes is one transaction, so `Files` has no crashes.

`panic()` stops the processor of its caller with interrupts off, and every other
processor when it next prints (`console.c:145-161`, `205-212`). Nothing is known
of the rest, so after a panic a model lets the others take steps, which the safety
properties are about, and assumes no fairness of anybody (`Panicked` in
`KernelSleep`, `panicked` in `Log`): no liveness property promises anything after
a panic.

Three devices need a word.

* In `Files` a process that has to call `iput()` keeps the inodes in `puts` and
  does nothing else first. `iput()` is two steps: in the first, under the inode's
  lock, it may free the inode (`PutLock`); in the second it drops the reference
  (`PutDrop`). `lost` counts entries that vanish with their directory (section 4).
  A path is the sequence of its elements; one without elements (`/`, or nothing)
  leaves the walk where it starts, or fails when a parent is asked for
  (`NoElement`).
* In `Resources` the page table under construction, pages not entered anywhere
  and files not yet installed are fields of `job`, so that each is owned by a
  call and can be counted. Pages have no identity but user pages have an address:
  the free list is a number. A pipe
  lives as long as a file or a call that closes its last end, so `Pipes` has a
  number for each of these.
* In `Console` some keys, pressed in some states, break what an editor promises
  (section 4 has the list). The action does what the code does and sets
  `session` to `"careless"`, or to `"overrun"` where a `memmove()` leaves the
  buffer; the session ends there. The properties are about the keys before: they
  say that the list is complete. Whether the user may meet such a key is not in
  the properties' hands; each rule is the argument of a `Carefully`.

How variables and actions correspond to the code:

* Variables carry the names of the C fields, but for the renamed ones above
  (`read_count`, `write_locked`, `locked`, `pid`, `head`, `active`, `next`,
  `ncli`, `intena`, `tick_count`, `outstanding`, `committing`, `lh`, ...).
  Variables that stand for a program counter or a local are declared with the
  words of what they stand for (`want`, `node`, `at`, `pc`, `forking`, `phase`).
  Variables that exist for a property only are `inside`/`hold`/`owners` (who
  acquired and did not release), and `held` and `base` in `SpinLock`; `calls`, `ops`,
  `crashes` are counted for the bounds, and so is `wrote` in `Log`, the blocks that a
  call has changed. `held` in `Log` are the buffers that a call has changed and
  not yet handed to the log: it stands between the test of `log_write()` and the
  rest.
* Actions carry the names of the functions where one action is a whole function,
  and otherwise of the part they model (`ReleaseHandOver` and `ReleaseFree` are
  the two ends of `plock_release()`, `EndLeaves`, `EndCommits` and `EndDone` the
  critical sections of `end_op()`).
* The definitions named `X_Something` beside an `X` are faulty variants of it,
  one for each plausible mistake a property is meant to catch. They are used by
  no specification; `PROJECT.json` pairs each with the property it breaks.

Details that the models keep on purpose: the priority of a freed node stays in
the pool (`free_node()` does not clear it); `alloc_node()` takes the first
inactive node even when that node is still linked; `allocproc()` does not touch
`killed`; a failed `fork()` leaves its pid in the unused entry; `kill()` does not
look at the state; an E-core goes on with its scan where the last process left
the processor, while a P-core starts over; `log_write()` tests the size before
it looks whether the block is already in the header, and before it has `log.lock`,
so the header may have grown when it appends.

## 3. The runs

| run | question, and what the run shows | bounds |
|---|---|---|
| `rwlock` | Counters, exclusion (`ImplementsReadersWriters`), no lost wakeup, every call returns, all with kills at any time. | 3 processes, all killable, 2 acquires each |
| `sleeplock` | The owner fields, exclusion and every call's return for the sleep-lock, with kills, and with processes that release what they do not own and panic; up to the first panic for what must happen, after it too for what must not. | 3 processes, all killable, all misusing, 2 acquires each |
| `plock` | Until somebody is killed: exclusion, exact queue, hand-over to a waiter of the highest priority that wakes nobody else, every call returns. After that too: `NodesOwned`. | 4 processes, 2 killable, priorities -1, 0, 1, 1 acquire each |
| `spinlock` | Exclusion on each lock, no panic, interrupts exact, no deadlock. | 2 processors, 2 locks, a handler over task code |
| `sleepwakeup` | `sleep()` is atomic, `ptable.lock` is handed over exactly, one processor per process, no deadlock. | 3 processes, 2 processors, 2 tokens |
| `proctable` | Parents alive, half-made children their fork()'s own, no missed exit, zombies of init freed. | 4 entries, pids up to 5, kills of pids 1 to 5 |
| `scheduler` | One processor per process, full quanta, no starvation of pids up to 3. | an E-core and a P-core, 4 entries, pids up to 5 |
| `log` | Group commit is atomic and durable, although the size is tested without the lock; every `begin_op()` returns. | 2 processes, 1 call each of up to 4 blocks, 4 blocks, 2 values, header, log and cache of 3, 2 crashes |
| `buffers` | Counts, owners and the driver's queue exact; the cache is a `BlockStore`; every call returns or the kernel has panicked. | 2 processes, 3 calls each, 2 buffers, 3 blocks (one may fail to be read), 2 values, at most 2 held and 1 dirty |
| `files` | Link counts and references exact, nothing in use freed; lock cycles only where `DeadlocksExplained` says. | 2 processes, 2 calls each of 12 (and `close`), 5 inodes, 2 names |
| `resources` | Pages, files and ends of pipes have exactly their owners; nobody is forgotten on a pipe; bytes in order. | 3 entries, 4 calls in all, 14 pages, 4 files, 3 descriptors, pipe of 2 bytes, counters modulo 4, 2 user pages |
| `console` | Indices ordered, reader woken, and every key does to text, cursor, selection, clipboard and undo what `LineEditor` says. | ring of 5 bytes, 2 undo entries, 7 keys (`a`, blank, Enter and the control keys), 2 commands, reads of 2 bytes, no or 3 empty lines sent and read before |

The runs up to `scheduler` have at most about 70 000 distinct states and take under
a minute; `log` and the last four have 300 000 to 545 000
and take one to two minutes.
Each module's type invariant is a conjunct of its first invariant or, in the
modules with proofs, of the invariant that is proved.

Why the bounds are enough. The lock modules need a holder and two waiters for
everything a wakeup can do wrong; the priority lock needs a third waiter so that
a node can leave the middle of the list, and a killed one so that a node is
freed while linked (`ReleaseSpins` and `ReleaseWild` are reached). Two acquires
let a process come back to a lock on which its killed predecessor slept. Two
processors and two nested locks are what the kernel nests (`tickslock` or a
client's lock, then `ptable.lock`). Four table entries hold init, a parent, a
child and an adopted child; pid 5 is the first that reuses an entry when all four
were used, and pids above 3 exist, which the E-core's rule tells apart. `WF` and
the bounds on calls go together: see below.

* `log`: four blocks for a header that counts three, a log that stores two and a
  cache of three, with calls that may change all of them, make everything fill
  up: the wait in `begin_op()`, the panic in `log_write()`, two calls that both
  pass its test at the last size that it allows, and the panics of `bget()` in a
  call and in the commit are reached. The numbers stand in the relation that
  `param.h` and `mkfs` give them (`LOGSIZE`, `NBUF` and the size of the log are the
  same number, 30). The second crash falls into the recovery from the first.
* `buffers`: two buffers for three blocks make every third `bread()` recycle
  one, and two processes that hold or wait for both make the cache run out, so
  the panic of `bget()` is reached; the queue of the drive holds one request
  that is being served and one that waits. Three calls each let a block be
  changed, evicted and read again.
* `files`: the twelve calls meet at `/d`, `/d/d`, `/d/f` and `/f`, through
  paths with `..` and without an element, an existing new name, and a new name
  `.`. The calls of two
  processes at once include every pair, and the second call of a process sees
  what the first pair left: a directory that was removed while it is somebody's
  current directory, an inode without names that is open.
* `resources`: after init and one child 14 pages are just too few for two calls
  that build a process at once, so every `kalloc()` of every call fails in some
  behaviour, and a whole `fork()`, `exec()` or `sbrk()` succeeds in others. Four
  files and three descriptors let each of the failures of `open()`, `pipe()` and
  `dup()` happen. A write of 3 bytes into a pipe of 2 sleeps, and the counters
  wrap after 4 bytes. TLC's coverage shows both branches of each action taken.
* `console`: with five bytes every line that is not short wraps, bytes typed
  ahead leave no room for a selection, and two undo entries overflow at
  the third change. The commands are `aa` and `aaa`, so TAB finds two names that
  share something, two that share nothing more, one, or none. Each careless key of
  section 4 and both overruns are reached within seven keys, the overrun of a
  removed selection thanks to the start after three empty lines, where a line of
  three bytes wraps.

Deadlock is checked in `spinlock` and `sleepwakeup`. In the others the system may
stop: calls, keys and pids are bounded, every process may be killed or exit, the
kernel may panic, and in `files` it does deadlock (section 4).

Four more configurations show disagreements of section 4 and end with an error
when TLC runs them: `MCPLock_kill.cfg` (`MutualExclusion`), `MCProcTable_kill.cfg`
(`BornAlive`), `MCScheduler_oldest.cfg` (`OldestFirst`) and `MCLog_duplicate.cfg`
(`NeverTooBig`), each with the MC module it is named after. A fifth,
`MCLog_reserved.cfg`, passes: it checks `ReservationSuffices`, which is proved, for 3
processes with 2 calls each, a header, log and cache of 5, and 2 blocks reserved
and 1 changed by each call.

### Fairness

Fairness is assumed only of what the kernel does by itself, never of a request:
no process is obliged to call, fork, exit or kill.

* Locks: a process that is RUNNABLE in an acquire call goes on, and one inside
  leaves (`RWProgress`, `SLProgress`, `PProgress`). The first is what a fair
  scheduler gives. The kernel's is fair to the processes an E-core may run
  (`NoStarvation`), so these theorems are about such processes. The second is
  the discipline of `rwtest.c` and `plocktest.c`. An owner that is killed never
  leaves, hence `RWAbandoned` and `SLAbandoned` in `RWEveryCallReturns` and
  `SLEveryCallReturns`; `PEveryCallReturns` speaks of runs without a kill. With
  unboundedly many calls a writer may starve (no writer preference in
  `rwlock.c:46`), a waiter with a low priority too (`plock.c:93`); the bound on
  calls says that contention ends.
* `ProcTable`: a started `fork()` or `wait()` goes on, and init waits for ever
  (`init.c`). That forks end is the bound on pids: with endless forks a zombie
  late in the table could be passed over, since the scan takes the first.
* `Scheduler`: clocks tick and the scheduler loops.
* `Log`: the disk answers, a started `log_write()` returns, a call ends, a woken
  process tries again; all of it until a processor panics, when `EveryCallBegins`
  promises nothing more. That a call ends is strong fairness, because a call is
  free to change another block instead, which it does not do for ever.
* Likewise `SLProgress` ends with a panic: `releasesleep()` by a process that does
  not own the lock stops the kernel, so `SLEveryCallReturns` is about what happens
  before.
* `Buffers`: the drive finishes the command it was given, a process inside
  `bread()`, `bwrite()` or `brelse()` goes on, and whoever has a buffer gives it
  back, which every caller in `fs.c` and `log.c` does. Callers nest `bread()`
  in one order of block numbers (`Asks`); in `fs.c` nested blocks are of
  different kinds (an indirect block and then the bitmap, a block of the log and
  then its home), always in the same order.

`Files`, `Resources` and `Console` have no liveness: calls can deadlock in the
first, and in the others what a sleeper waits for is up to the user.

## 4. Disagreements between the code and its documentation

Shown by a configuration of section 3 that ends with a counterexample:

1. `plock.c:74`. `plock_acquire()` tests nothing when `sleep()` returns, so a
   waiter woken by `kill()` goes on as an owner beside the real one.
   `README.md:320` promises that ownership goes to the highest-priority waiter
   and that only that process is woken.
2. `proc.c:534`. `kill()` looks for a pid only. An unused entry has pid 0 (or
   the pid of a failed fork), so `kill(0)` marks one, `allocproc()` does not
   clear the mark, and the next process born there dies before its first
   instruction.
3. `proc.c:381`. `ctime` is never assigned, so the "oldest" process is the first
   of the table. `README.md:224` says oldest first.
4. `sysfile.c:478`. `make_duplicate` copies a whole file in one transaction and
   panics with "too big a transaction" when the file has more blocks than the
   log; `param.h:10` says a call writes at most `MAXOPBLOCKS`.

Met while modelling. Where an action or a property carries the case, it is named:

* After a kill, a freed node stays linked (`plock.c:114`); when the pool hands it
  out again the list can become circular, and `plock_release()` never ends
  (`ReleaseSpins`). When all waiters have negative priorities no node is picked
  and `max_node->next` goes through a null pointer (`ReleaseWild`).
* `plock_release()` by a process that holds nothing is not refused, and
  `sys_test_init_locks()` resets locks that may be in use.
* A kill between the test of `killed` and the `sleep()` of `sys_sleep()` or
  `piperead()` is noticed only at the next wakeup (`sysproc.c:136`; in
  `SleepWakeup` the steps `SleepCall`, then `KillMark` by another, then
  `SleepSched`).
* `kill(1)` makes init exit, which panics the kernel (`ExitInit`).
* A tick on a P-core always calls `yield()` (`trap.c:122`), `README.md:223` says
  non-preemptive. P-cores do run init and sh (`proc.c:376`, against
  `README.md:230`). The load balancer of `README.md:226` does not exist. When
  every processor is an E-core and there are several, no process with a pid
  above 3 ever runs (`proc.c:358`).
* The log reserves for `LOGSIZE` blocks but stores `log.size - 1`, one fewer with
  the disk that `mkfs` makes, so three calls that each use their whole
  reservation panic. The same test refuses to rewrite a block that is already
  in the header. Calls that change one block fewer than they reserve never panic
  (`ReservationSuffices`).
* `log_write()` makes that test without `log.lock` (`log.c:218-221`, the lock is
  taken at 223), so two calls can both pass it with one place left (`TestSize`,
  `TestSize`, `log_write`, `log_write`), and the header is then one longer than the
  log can store. The last block would go to the first block of inodes. It never
  does: with `log.size` blocks in the header as many buffers are dirty, that is
  all `NBUF` of them (`param.h:12`), and `write_log()` panics with "bget: no
  buffers" before it has written anything (`CommitPanics`). Up to the panic, and
  after the restart, nothing that was finished is lost. `ImplementsAtomicStore`
  and `FinishedDurable` rest on `NBUF <= log.size`, and on nothing else that stands
  in the way of the race: with one buffer more the commit would write past the
  log. The assumption is part of `LogAssumption`.
* `iput()` looks at the count in one critical section and drops it in another
  (`fs.c:335-351`): two last references that go at the same time both see 2, and
  an inode without names stays allocated (`PutLock`, `PutLock`, `PutDrop`,
  `PutDrop`).
* `iput()` takes the lock of the directory that `create()` and `unlink()` put
  while they hold the entry's lock (`fs.c:334` from `sysfile.c:279` and `224`),
  and an `unlink()` that holds the directory asks for the entry: `creat(d/f)`
  and `unlink(d/f)` deadlock. `link()` to the new name `.` deadlocks alone:
  `dirlink()` puts the directory that it has locked (`fs.c:559-561`).
  `make_duplicate()` of a file whose copy is a second name of it, or of two
  files that are each other's copies through links, deadlocks
  (`sysfile.c:469-475`). `DeadlocksExplained` says that these two kinds are all.
* A directory can be removed while it is a current directory. Its `..` then
  outlives the parent, and a walk through it panics with "ilock: no type"
  (`fs.c:310`, `PanicNoType`); an entry that a call writes into it afterwards
  vanishes with it, and the file keeps a count too many (`lost`).
* A copy over a longer file keeps the end of the old one (`sysfile.c:477`, no
  truncation); this is about contents and has no counterpart in a module.
* A read error leaves the old bytes in the buffer and marks it valid
  (`ide.c:118-122`; the second disjunct of `Interrupt`, `Spoil`).
* `NBUF` is `LOGSIZE` (`param.h:11-12`): transactions that use what they reserved
  keep so many buffers dirty that a few readers more make `bget()` panic
  (`NoBuffers`).
* `pipewrite()` of a killed process can fill the pipe and give up without a
  wakeup (`pipe.c:86`): a reader sleeps on with bytes to read until the next
  `wakeup()`. `missed` marks it; without that mark `NobodyForgotten` fails.
* `sbrk(-size)` frees all pages, returns -1 and keeps `sz` (`proc.c:175`); a
  `fork()` after it panics with "copyuvm: page not present" (`Shrink`,
  `NextPage`).
* The console, each the argument of a `Carefully`, or `Overrun`: `^U` with the
  cursor inside the line moves it before the line (`console.c:431`); Enter inside
  the line sends the rest of it as a second piece (`console.c:725`); `^Z` after a
  paste, a completion, a removed selection or a full history undoes at stale
  places (`console.c:613`); the second `^S` after the text of the first is gone
  selects beyond the end (`console.c:505`); a completion is not tested for room
  (`console.c:331`); removing a selection where the ring wraps moves bytes out
  of the buffer (`console.c:444`, `698`).

## 5. What is proved

The theorems hold for every value of the constants that satisfies the named
assumptions of the modules (finitely many processes, natural bounds, a table with
at least one entry), hence for any number of processes and calls. Each proof has
the same shape: an inductive invariant, one lemma per action that it survives,
the invariant as a theorem, and the results from it. `PROJECT.json` lists the
results under `theorems`.

What TLC and TLAPS say of one property is the same formula: a theorem names the
definition that a run of section 3 checks.

### Locks (`LockProofs`)

* **`RWLock`**: `CountersCorrect`, `RWWakeupsNotLost`, `RWRefinement`.
  `CountsAgree` alone is not inductive: the guards read counters, the effects
  change who is inside, and a writer that leaves clears a flag for all.
  `RWExclusion` (a writer is alone) closes that circle. `RWNoLostWakeup` needs
  `RWLocated`: sleepers sleep in an acquire call and on this lock's channel, so
  the wakeup finds them. The refinement maps `hold` to itself: a step that enters
  needs from `CountsAgree` that the counter it tested excludes the others.
* **`SleepLock`**: `OwnershipExact`, `SLWakeupsNotLost`, `SLRefinement`, with
  `SLLocated` in the same place. `OwnerExact` carries the argument: `pid` and
  `locked` name the one process inside, so the owner check lets exactly that one
  release.
* **`PLock`**: `NodesAreOwned`, which holds whatever is killed, and for as long as
  nobody is: `QueueIsExact`, `HandOver`, `PExclusion`. The invariant `PIInv` adds
  `PLocated` (a sleeper sleeps on its own node, an owner has none) and `Listed`:
  the list ends, visits no node twice, and visits exactly the nodes of the
  sleepers. The list is a walk through `next`, and every action that links or
  unlinks a node needs to know what the walk visits afterwards (`Walk...` lemmas):
  the old nodes and the new one at its end, or the old ones without the removed
  one. `TooMany` is the pigeonhole by which a walk that never ends meets a node
  twice. `HandOver` then follows because the chosen node is a sleeper's, a wakeup
  on it reaches its owner and nobody else, and `IsMax` compares it with all. What
  a kill breaks is `Listed`, and the run `MCPLock_kill.cfg` shows it.

### Processes and processors (`ProcessProofs`, `ProcessorProofs`)

* **`ProcTable`**: `ParentsAlive`, `EntriesExclusive`, `WaitersNotMissed`.
  Besides the properties the invariant says that no two entries in use share a pid
  (`PidsUnique`), that the entry a `fork()` fills in is EMBRYO and belongs to it
  (`EmbryosOwned`; a kill does not change that, and no other `allocproc()` can take
  it) and that init is never a zombie (`InitLives`),
  so `exit()` always finds a live parent for the orphans.
* **`SleepWakeup`**: `OneProcessor`, `HandOversExact`, `Refinement`.
  `LocksExact` ties both locks to the program counters, `Parked` says where a
  process off a processor stands and that a sleeper has its channel, `InScan`
  and `HasVictim` give the scans their arguments, and `Quiet` is the heart of the
  lost-wakeup argument: no token is announced while somebody is between its
  test and SLEEPING. The refinement is what lets the other modules take a
  test and the sleep that follows as one step.
* **`SpinLock`**: `PanicsNever`, `InterruptsRestored`, `SpinRefinement`. The
  circle is between two counts. `Depth` says that `ncli` is the number of locks
  held plus the `pushcli()` of a guard and of a call under way, so an interrupt,
  which needs `ncli = 0`, only ever hits code outside all of them (`Frames`); and
  because it does, the locks of a handler are the processor's own. `Restores`
  says that `intena` keeps the flag of the code below while anything is nested.
  `Stands` says what `lk->cpu` is at each point of `acquire()` and `release()`, so
  `holding()` is right for the processor that asks, whatever others store.
* **`Scheduler`**: `OneProcessor`, `QuantaFull`. `OnOneCpu` says both that
  two processors run different entries and that a processor's entry is RUNNING;
  `QuantumLeft` (a RUNNING process has had at most two ticks) makes the tick at
  which `trap()` yields the third.

### Disk (`FileSystemProofs`, `BuffersProofs`)

* **`Log`**: `FinishedAreDurable`, `WakeupsNotLost`, `Refinement`,
  `ReservationIsEnough`. The
  invariant follows the phases of a commit. `Distinct`: no block is twice in a
  header. `Control`: who may be where in which phase, and `outstanding` is the
  number of calls inside. `Contents`: one conjunct per phase (`Clean`,
  `Uncommitted`, `Empty`, `Logging`, `Installing`, `Installed`) that says which of
  log, home and cache agree on which blocks. From it `Recovered`, what recovery
  would make of the disk, is left alone by every disk write but `write_head()`,
  where it becomes the cache: that write is the commit of `AtomicStore`.
  `Buffered` is what is left of the size test of `log_write()`, which may be as
  stale as one likes: the buffers that are dirty or in the hands of a call are no
  more than `NBUF`. The blocks of a header under construction are among them, so it
  never exceeds the cache (`HeaderFits`), and a commit that finds a buffer free
  has a header shorter than the cache, hence than the log (`ShortEnough`).
  `ReservationIsEnough` has an invariant of its own on top, `Reserved`. `Room` is
  its heart: while calls are inside, the header and what they reserved, less what
  they have changed already (`Booked`, `AllDrawn`), fit into `LOGSIZE`. Several
  calls leave a block of their reservations unused each, which is enough for the
  test to pass and for a buffer to be free (`NoPanicInCall`, `NoPanicInCommit`).
  A lone call has only its own: then the header is all its own work, and short,
  or the blocks that the earlier calls left unused are still there, which is
  the second part of `Room`. What the calls have drawn is a sum over processes
  (`SumAtMost`).
  `NoLostWakeup` needs `MAXOPBLOCKS <= LOGSIZE` (`param.h:11`): with a smaller log
  a call would sleep with nobody left to wake it.
* **`Buffers`**: `CacheIsExact`, `Refinement`. `CacheExact` needs `Placed`
  (a process inside a call has a buffer, not one it holds; a used buffer has a
  block) and `Coherent`: a dirty buffer is valid, one that `bread()` returned is
  valid, one whose owner has been woken is valid and clean, and a valid and clean
  one equals the disk unless the drive may fail on its block. The last conjunct
  is why `bget()` may recycle: what it throws away is on disk. `View` restates the
  mapping per block, `Content` and `Holder`, for blocks with a buffer and without,
  and each action is then a step of `BlockStore` or hidden. The order in which
  callers nest (`Asks`) is assumed: a process never asks for a block it has.

### Inodes and directories (`FileSystemProofs`)

`FilesLinks`, `FilesNothingDangles` and `FilesDeadlocks` state the three invariants
of the run `files`, for any number of processes, inodes, names and calls, and any
paths. They follow from one inductive invariant, `FilesInvariantHolds`, because
each needs the others: an inode may be freed when its link count is 0, which is
right because the count is exact, which stays so because what names an inode is
not freed. TLC checked it on the instance of `files` before it was proved.

* `FilesShaped`: the types, and for each place of a call which inodes it has in
  hand there (`Shape`). `LocksExact`: an inode's lock belongs to the call that is
  at a place where it holds it.
* `Knows`: what a call has read of an inode and relies on after it has given the
  lock up - that it is a directory, the file that `link()` counted, the entry that
  `unlink()` is about to remove. This is the stale state of a path walk, and it
  stays true because the call still has its reference (`KnowsStays`).
* `RefsExact` is the sum over the processes of what they hold. It makes `iput()`
  safe: when the count is 1 and the inode is in `puts`, nobody else holds it, and
  neither does the caller in another place (`SoleHolder`).
* `Tree`: every name leads to an inode that exists, and a directory with a name has
  its `..` where the name is. `LinksExact` is carried by a tally per inode
  (`Tally`), to which each step adds or takes off the same as to `nlink`: an entry
  that moves (`EntryFits`), a call that has counted and not yet written
  (`PendingFits`), a directory that goes with its entries (`LostFits`).
* `Acyclic`: the named directories have depths that increase along names. It is
  there for `FilesDeadlocks` only. Among processes that wait for each other in
  `ilock()`, each one that is waited for is in `unlink()` with a directory locked
  and wants one of its entries (`WaitsForVictim`), and the next one has that entry
  locked as a directory; the depths would increase for ever around the circle. It
  needs that `link()` refuses directories, and that a new directory is nobody's
  parent yet.
* `NoLinkPanic`: `unlink()` never finds an inode with a name and no link
  (`sysfile.c:210`), since a name counts.

The start is the disk of `FilesInit`, hence the assumption that there are at least
four inodes and the two names in it.

### Pages, files and pipes (`ResourcesProofs`)

`FilesCounted`, `PagesAccounted` and `SleepersJustified` are three invariants, each
inductive with the ones before it. All need `Shaped`: the types, for every step of
a call what it can have in hand there (`JobFits`, `CallFits`), and what an entry of
the table that is not live has (`EntryFits`).

* `FilesExact` is strengthened to `FilesInv`. `CountsExact` is
  the sum over the processes of descriptors, files in hand and files still to
  close. Two facts make a `fileclose()` find its pipe in the state it needs: an
  open end belongs to one file or to one call about to close it, never to two
  (`EndFits`, where `FilesExact` has only an equivalence), and only the first
  file of a list to close can still name an end (`EndsExact`, last conjunct).
  `FreshFiles` says that a file which `filealloc()` gave to a call is nobody
  else's until the call says what it is, and `UsersHold` that a reader or
  writer, asleep or not, has a descriptor for its end, so that no other
  process's close is the last one.
* `PagesExact` is `PagesCounted`, one equation between the number of pages and a
  sum of what processes own, pipes and the free list; each step moves a page
  between two of the terms. `Broken` says of a panicked `copyuvm()` that the
  process it copied is still there.
* `NobodyForgotten` is `PipesInv`. `Ordered` needs that `PIPESIZE` divides the
  range of the counters (512 divides 2^32, `pipe.c:11`): otherwise the place of
  a byte jumps when a counter wraps. `HasReason` is the sleeper's side, and the
  steps that could take a reason away - a read, a write, a close of the other
  end - are the steps that wake who sleeps there. That it is the right pipe
  follows from `EndFits`: a file that a process holds as an end is the only file
  for it.

The sums are `SumFunctionOnSet` of the community modules, which is defined by a
recursive function on the subsets of its set. `ProofLemmas` shows that this
function exists and solves its equation (`SumSolvable`, by a smallest subset for
which it would not), and from that what changing one term does to a sum
(`SumUpdate`); induction theorems with an operator as a parameter are not needed.

### Console (`ConsoleProofs`)

`ReaderAwake` and `RingInOrder`, for every size of the ring and of the history, all
letters (a blank among them, no newline), commands and read sizes. The reader's
half holds in every session. The ring's half holds while the session is careful,
and needs that undo stays in the line: `Undoable` says that there are ends of
the line for every point of the history of changes, the last of them `e`, such
that each recorded change leads from one to the next inside the ring (`Leads`).
So `^Z` of an insertion finds a byte to remove, and of a removal finds room. The
other keys are arguments about cells: two indices less than a turn apart have
different cells (`CellsDiffer`), hence a byte written at `e`, or a block moved by
one, leaves the rest of the line in place.

### Only model-checked

* Everything under fairness (`RWEveryCallReturns`, `SLEveryCallReturns`,
  `PEveryCallReturns`, `OrphansReaped`, `NoStarvation`, `EveryCallBegins`, and
  `EveryCallReturns` of `Buffers`), because the prover does not do ENABLED.
* `EditsAsSpecified` of `Console`, the refinement of `LineEditor`.

`NoLostWakeup` of `Log`, `SLNoLostWakeup`, `PidsUnique` and `ReservationSuffices` are
proved and not properties of a run.

## 6. Not modelled

`PROJECT.json` has the list with reasons.

* `LAB1` and `LAB2` are earlier copies of the same files, two thirds of the
  repository's lines together; a second model of the same functions would say
  nothing new. The LAB2 priority scheduler is the one part that LAB4 replaced.
* User programs (`sh.c`, `usertests.c`, the tests of each exercise), `mkfs.c` but
  for the root directory, boot code and the interrupt controllers.
* Contents of files: `readi`, `writei`, `bmap`, `itrunc` and the block bitmap.
  `Files` says which inodes are freed, not which blocks. `grep_syscall` is in
  `Resources` for its page; that its buffer has no room for the terminator of a
  file of exactly one page (`sysfile.c:590`) is about contents.
* The throughput counter of `exit()` and the lock statistics, which lose counts
  when processors race and on which nothing else depends; `sys_test_init_locks()`.
* Inside the modelled components: the call stacks of spinlocks, the screen of the
  console and the registration of command names, `dev` numbers, the full inode
  cache, page permissions, argument fetching, and in `Console` the key `^D`, which
  the editor takes for a word move and which therefore never reaches the reader.
* Every quantity is bounded as section 3 says; sums that wrap are modelled where
  they do (pipes), and the console's indices are compared as the code compares
  them while they are small.

## 7. Plan

What would come next, in this order:

1. `EditsAsSpecified`: what `Undoable` says of where lines end, for what is in them.
2. The block layer of inodes: `bmap` and `itrunc` against the bitmap, as owners of
   blocks in the manner of `Resources`, with `Log` and `Buffers` composed below.
3. The LAB2 scheduler beside `Scheduler`, and the unlocked counter of `exit()`.
