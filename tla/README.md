# TLA+ models of the xv6 kernel

TLA+ models, TLC runs and TLAPS proofs for this xv6 (x86, with the FRR and FCFS schedulers and the
per-process times added to the original). `PROJECT.json` lists the components, the runs, what each
definition models (`map`), the mutants, the findings, the hazards and the theorems.

## The system and its parts

| part | source | modules |
|---|---|---|
| log, crash recovery | log.c | Log refines TxnDisk; LogProofs, LogRefinement |
| buffer cache, IDE queue | bio.c, ide.c | Bio; BioProofs |
| process table | proc.c, parts of trap.c, init.c | Proc; ProcProofs |
| scheduler policies | proc.c `scheduler`, trap.c | Sched; SchedProofs |
| sleep locks | sleeplock.c with `sleep`/`wakeup` | SleepLock refines Mutex; SleepLockProofs |
| clock, `sys_sleep` | trap.c, sysproc.c | Ticks; ClockProofs |
| process times | proc.c `exit`, `turntime`..., trap.c | Times |
| pipes | pipe.c, file references of file.c | Pipe refines Fifo; PipeProofs |
| open files | file.c, descriptors of sysfile.c, `fork`, `exit` | FTable |
| inodes, one directory | fs.c, sysfile.c | Inode |
| contents of files | file.c, `readi`, `writei`, `bmap` of fs.c | FileIO refines ByteFile |
| image of the file system | mkfs.c | Mkfs |
| pages, address spaces, exec | kalloc.c, vm.c, exec.c, `growproc`, `fork` | Vm refines AddrSpace |
| console input | console.c | Console refines LineFifo; PipeProofs |
| heap of a program | umalloc.c | Umalloc |
| shell | sh.c, init.c | ShParse, Sh |
| grep, library functions | grep.c, ulib.c, string.c, printf.c | Grep, Strings |

How they interact. A system call that changes the disk brackets its work with `begin_op`/`end_op`
(Log) and reads and changes blocks through `bread`/`log_write`/`brelse` (Bio, and the part of the
cache Log depends on). The buffers and the inodes are protected by sleep locks (SleepLock; in Log,
Bio and Inode a sleep lock is its owner, which is what Mutex promises). Sleep locks, pipes, the
disk driver, the log, the clock and `wait` block in `sleep()` and are released by `wakeup()`, whose
race with the test before it is modelled in detail once, in SleepLock, and at the granularity of
`ptable.lock` in Proc. Files (FTable) hold references to inodes (Inode) and to pipe ends (Pipe);
FileIO is what happens behind an open inode, and the number of blocks it logs at once is what
`begin_op` in Log reserves. Mkfs makes the disk Inode starts from. Vm has the part of `struct proc` that
owns memory. Sh runs on what Proc, FTable and Pipe promise.

The granularity is that of the locks: what the code does between `acquire` and `release` of one
spin lock (or the `swtch` that hands `ptable.lock` over) is one action. Where the code works
without a lock (`allocproc` and `fork` on an EMBRYO slot, the test at the head of `log_write`,
`fileclose` after it dropped `ftable.lock`, `iput` between its lock and its `ref--`) each part is
an action of its own. `param.h` sets NCPU to 1; Proc, SleepLock and Pipe are written for any
number of CPUs. In Pipe's run and in Proc's `Block` the test of `killed` and the `sleep()` after
it are one step, as they are on one CPU.

`panic()` ends a behaviour: it sets a flag, or (in Inode, for a table that is full) disables the
action.

## Modules

* **Log**. `home`, `logblk`, `head` are the disk (home blocks, log blocks, header on disk); `lh`,
  `outstanding`, `committing` are `struct log`; `buf`, `dirty`, `owner` what the log needs of
  the buffer cache; `pc` the program points. One action per block written by `commit`,
  `install_trans` and `recover_from_log`; `Crash` is possible in every state and loses everything but
  the disk. **TxnDisk** is the promise: a disk `dur` that changes only from one state between
  operations to another; Log maps `dur` to the home blocks overlaid by the header's log blocks.
* **Bio**. `list` is the LRU list, the other variables the fields of `struct buf`, the queue of
  ide.c and the disk. `ideintr` completes the head of the queue; a read or a write of a block in
  `BadBlocks` may fail, which the flags do not show. `latest` (what was last stored in a block and
  not lost by a failed write) and `failed` (buffers whose last transfer failed) are history.
* **Proc**. The fields of `struct proc`, `cpu` for `c->proc`, `np` for the slot a `fork` owns. The
  choice of a RUNNABLE process is open; the policies are in **Sched**, with `at`, the slot the loop
  of `scheduler` is at, and the tick handling of `trap`. The three stores of `exit` into the parent's
  arrays are left out, which is right while pids differ by 10 at most: ProcAssumption bounds
  the pids accordingly.
* **Times**. `ptable` as a memory of words with the field offsets of `struct proc`, since
  `exit` indexes arrays of the parent by a difference of pids without a bound.
* **SleepLock**. `acquiresleep`, `releasesleep`, `sleep`, `wakeup` and `kill`, one action per
  spin-lock operation; **Mutex** is the promise. **Ticks**: the counter `ticks`, which wraps at UINT,
  and the loop of `sys_sleep`; `elapsed` (the time that really passed) and `late` are history.
* **Pipe**. The ring with counters that wrap, closing, killing and freeing; **Fifo** is the promise:
  a queue that takes the bytes each `write` offers, in order, and gives up at most the end of them.
* **FTable**. `ref` and `type` of every file, `ofile` of every process, `mine` for the files a call
  has in a local variable; `inodes` and `ends` count the inode references and pipe ends handed out.
  open, dup, close, pipe, chdir, fork and exit are taken apart where they drop `ftable.lock`.
* **Inode**. `struct dinode` on disk, `struct inode` in the cache, the bitmap, the entries and the lock of
  one directory, for open, create, write, link, unlink, close. `balloc` and `bfree` change the bitmap
  in one step, `iupdate` the inode on disk in a later one.
* **FileIO**. `addrs` and the indirect block `ind` of one file, `off` of the open files that share
  it; `filewrite` goes on piece by piece, each a transaction. **ByteFile** is a sequence of bytes.
* **Mkfs**. The layout, the inodes, the blocks of the files and the bitmap, one action per step of `main`.
* **Vm**. `free` is the list of kalloc.c (as a set), `pgdir` the two-level page tables, `data` what
  the pages hold, `job` the system call in progress, page by page, with every failure path.
  **AddrSpace** is the promise: each process has a memory of its own that no other changes.
* **Console**. `r`, `w`, `e` and the ring of console.c, the editing characters, and `consoleread`;
  **LineFifo** is the queue of lines it promises.
* **Umalloc**. The circular list of `malloc` and `free` with its headers, `sbrk` below it, which can leave gaps.
* **ShParse** is the recursive-descent parser of sh.c and, apart from it, its grammar; **Sh** is init and
  `runcmd`, with the processes, descriptors and pipes that it makes.
* **Grep** has the buffer of `grep`, filled by reads of any length, and the matcher; **Strings** the memory and
  string functions, `atoi` and `printint` on a small memory.

Each `MC` module instantiates one or more of these for TLC. Definitions that begin with "Mutant:" are
plausible mistakes in the definition that follows; no specification uses them.

## Runs

| run | what it checks |
|---|---|
| log | Transactions are atomic over crashes, also in recovery (ImplementsTxnDisk) and durable when `end_op` returns (DurableAtReturn); no operation runs beside a commit and logged blocks stay cached (CommitAlone). |
| proc | An EMBRYO slot has one owner (EmbryoOwned), every process has a living parent (ParentAlive), no parent sleeps through an exit (NoMissedExit), a killed process exits (KilledExits). |
| sleep | The sleep lock is a mutex (ImplementsMutex) whose sleepers are woken (SleeperWakes); `sys_sleep` returns after the ticks it was asked for (SleepsInTime) and it does return (SleeperReturns); waiting `begin_op`s are woken, also while other operations go on overlapping and no commit comes (BeginWakes). |
| pipe | A pipe is a FIFO queue of what was written (ImplementsFifo); a writer sleeps only on a full, a reader only on an empty pipe, but for the case below, and neither when killed (SleepsWithReason); no use after `kfree` (NotUsedAfterFree); a call returns, or comes to wait for what has not happened yet (CallsReturn). |
| bio | One buffer per block, `refcnt` counts the users, every buffer in the IDE queue belongs to the process that waits for it (BuffersAccounted); `bread` returns what was last stored and not lost by a failed transfer (ReadsLatest); every request is served (RequestServed). |
| sched | For each policy: charged time fits in the life time (ChargedTimeFits); FRR's quantum is an upper bound (QuantumBound); no starvation (NoStarvation). |
| inode | `ref`, `nlink`, bitmap and disk agree with the pointers, names and blocks there are, also between `balloc` or `bfree` and `iupdate` (RefsCounted, LinksCounted, BlocksOwned); no inode is freed in use (NotFreedInUse). |
| resources | Open files: `ref` counts the descriptors and calls in progress, nothing a file refers to leaks or is released twice (NothingLeaks). Contents: a piece of a `write` fits in a transaction (WriteFits), blocks make a file of bytes (ImplementsByteFile). mkfs: ImageConsistent. Pages: one owner each (PagesOwned), separate address spaces (ImplementsAddrSpace). malloc: HeapSound. Console: a reader sleeps only when no line is entered (ReaderSleeps), lines arrive in order (ImplementsLineFifo). |
| user | Every line is parsed as the grammar says (LineParsed); the shell prompts when its foreground processes are done (ForegroundDone) and every process is reaped (EveryProcessReaped); grep prints the lines that match (GrepPrints); the library functions are right (LibraryRight). |
| times_shell | *Violation*: a child with a pid 13 above its parent's overwrites the next slot's `pgdir` (PageTableThere). |
| inode_leak | *Violation*: the `iput` of a `close` or a failed `open`, and that of an `unlink` of the same file, can both leave it unfreed (NoInodeLeak). |
| inode_deadlock | *Violation*: `create` against `unlink` can deadlock over the directory's and the file's lock (NoDeadlock). |

resources, sleep and user run one of several machines that share no state, chosen in the initial
state (the variables `machine` and `program`).

### Bounds

* log: 2 processes, 2 blocks, 2 values, LOGSIZE 6 and MAXOPBLOCKS 3 so that two operations are
  admitted together, and one must wait when blocks are logged already; each operation
  writes up to 2 blocks, so commits of one and two blocks, absorption and partial installs occur.
* proc: 3 slots: init, a child and a grandchild, 4 pids so that slots are reused, one CPU, kill of
  pid 2, failing allocations. An exiting process with a zombie child of its own needs a
  fourth slot when init and a sibling are to race with it; that case is covered by the proof, which is for any
  number of slots and CPUs.
* sleep: 3 processes on a lock: one holder, one on its way to sleep, one asleep. 2 sleepers, a clock that
  wraps at 5 and starts just before it, sleeps of 1 and 3 ticks, a process runs within a tick after it is woken.
  3 system calls and a log with room for two, so that one sleeps for want of room while the other
  two come and go: the first `wakeup(&log)` of `end_op` is the only one that can reach it if they never leave
  `outstanding` at 0, the second when they do; 2 blocks of one value, as contents do not matter here.
* pipe: 2 writers, 1 reader, a ring of 2 bytes with counters modulo 4, so that the counters wrap while
  data is in the ring; strings of up to three bytes, longer than the ring.
* bio: 2 buffers for 3 blocks, so that every miss recycles; one may be pinned, and the transfers of one block may fail.
* sched: 3 slots, QUANTA 3; the clock stops at 2 ticks, preemption does not.
* inode: 2 processes, names, inodes, cache entries and blocks: names of one file and of two, reuse of inode
  numbers and of cache entries. Processes, names and blocks are interchangeable (SYMMETRY).
* resources: 3 files and 2 descriptors for 2 processes, so each of the two can be the one to run out; a file of 1 direct
  and 3 indirect blocks of 2 bytes on a disk that fills up; images of as many files as there are inodes, with sizes
  around every block boundary;
  2 slots and 14 pages for programs of two segments, so that every allocation can be the one that fails; a heap of
  9 units; a console ring of 3 with counters modulo 6, two readers.
* user: 6 command lines with pipes, lists, background and a redirection, for the shell; every line of up to 5 characters for
  the parser; every pattern of up to 3 and input of up to 4 characters for grep with a buffer of 4; every memory of 5
  bytes with 3 values for the library.
* times_shell: two slots, the real arrays of 10, and pids up to 14.

Deadlock is checked except in proc (the bounded pids run out), bio (`panic("bget: no
buffers")`, which two processes and a pinned block reach with two buffers), inode (the deadlock
of inode_deadlock, and full tables) and user (a program ends).

### Fairness

* Processes in the kernel get on (weak, or strong where a lock must be free): the scheduler is fair, which
  is what NoStarvation checks of the policies in Sched; under FCFS this holds only if processes give the CPU back,
  and Sched assumes just that for FCFS.
* The disk raises its interrupt (`ideintr` in Bio, `wakeup` in Proc), the timer ticks.
* log: a process inside an operation reaches `end_op`. pipe: only that a process inside
  `pipewrite`, `piperead` or `pipeclose` gets the CPU and the lock; nobody has to read, write or close again.
* No fairness is assumed of crashes, of programs making system calls, of `kill`, or of anyone typing.

## Proofs

The proof modules prove, for every value of the constants, an inductive invariant of each component
and from it the safety properties and refinements the runs check on small instances. One lemma per
action, one step per conjunct the action can disturb. The assumptions are those of the modules
(`...Assumption`): finite sets of processes and tables of at least one entry, and what
is named below.

* **ProcProofs**, from ProcAssumption (at least one slot and CPU; sleep channels are not slots; pids up to 11, see above).
  `IInv` is TypeOK, OneCPU, EmbryoOwned, ParentAlive, NoMissedExit and two facts the induction needs:
  *PidsFresh* (every pid in the table is below `nextpid` and in one slot only, also the pid a
  failed `fork` left behind; UniquePids follows) and *EmbryoParent* (an EMBRYO slot is nobody's child
  until its `fork` sets the parent, so `np->parent = curproc` takes no child from anybody, and a slot that
  becomes RUNNABLE has the forking process as its parent). One lemma per action, one step per conjunct. `exit` is the heart: a
  parent asleep in `wait` sleeps on its own slot by NoMissedExit, so `wakeup1(curproc->parent)` hits it, and
  initproc is woken when it inherits a zombie. That a reaped zombie has no children
  follows from ParentAlive.
* **SleepLockProofs**, for any set of processes: mutual exclusion, no lost wakeup, and that
  SleepLock implements Mutex. The invariant says which program points hold which spin lock and that a
  process on its way to sleep has seen the lock taken, which nobody can have released before it drops `lk`.
* **SchedProofs**: ChargedTimeFits and QuantumBound, for each policy, any table and any QUANTA. The
  second needs StintCounted: the ticks of the present stint never exceed `p->slot`, which survives sleep and exit.
* **ClockProofs**: SleepsInTime for any width of the counter, from ClockAssumption: no sleep is so long that `ticks`
  comes round to `ticks0` before the sleeper has run. The invariant says that the
  unsigned `ticks - ticks0` is the time that has really passed, and that a sleeper is never asleep when its time is over.
* **PipeProofs**: SleepsWithReason, NotUsedAfterFree, and that the ring with wrapping counters implements
  Fifo, the bytes of each `write` in order and without a gap, for any number of readers, writers and CPUs; PIPESIZE
  divides UINT, as it does in the code. EndsOpen is what the induction needs: who has which end when, and that
  the last one to give its reference back is the one on its way to `pipeclose`. The refinement
  also needs that a `write` that has returned has nothing left to put in (WriteOver).
  A last part, with constants and variables of its own, is about the ring of Console: a reader sleeps only while nothing is
  entered and never when killed (ReaderAlwaysAwake, which is ReaderSleeps for any number of readers and any size of the ring).
* **BioProofs**: BuffersAccounted and ReadsLatest. The invariant has the list complete (both searches of `bget` see every
  buffer), `refcnt` as the number of users, what a process relies on at each point of `bread`, `bwrite` and `iderw` (Holding),
  a queued request still to be served, and where the latest contents of a block are (Contents).
* **LogProofs** (the invariant, and the steps up to the commit) and **LogRefinement** (commit, crash, recovery and the theorems):
  CommitAlone, ImplementsTxnDisk and DurableAtReturn, with crashes at any point. The invariant: the room in the log
  covers what the running operations may still log (Fits, counted with a set of credits, because a block may be absorbed);
  only one process commits, with nobody in an operation (Alone); the dirty buffers are the logged, not yet installed ones (Pins);
  other cached blocks are as on disk (CleanSame); and how far commit, install and recovery have come, and what is equal to what
  by then (Phases). The refinement maps the durable disk to the home blocks overlaid by the log blocks of the header on disk,
  so the write of the header is the one step that changes it.

Every inductive invariant was checked by TLC on the instance of its run before it was proved. The type
invariants, OneCPU, UniquePids, MutualExclusion and NoLostWakeup are proved and not in a run of their own.

Only model-checked:

* liveness (SleeperWakes, BeginWakes, KilledExits, CallsReturn, SleeperReturns, RequestServed, NoStarvation, EveryProcessReaped): the
  prover does neither fairness nor ENABLED;
* what FileIO, Mkfs, Umalloc, ShParse, Sh, Grep and Strings compute (WriteFits, ImplementsByteFile, ImageConsistent, HeapSound,
  LineParsed, ForegroundDone, GrepPrints, LibraryRight): these are loops and recursions over data, written as recursive operators, and
  would need induction over data, which the installed provers cannot do;
* PagesOwned, ImplementsAddrSpace and ImplementsLineFifo, as Vm and Console fold over pages and characters in the same way;
* the counts of FTable and Inode (NothingLeaks, RefsCounted, LinksCounted, NotFreedInUse, BlocksOwned).

## Findings

* **times_shell**, proc.c:266: out-of-range store of `exit` into the parent's arrays.
* **inode_leak**, fs.c:347: `iput` drops the inode's lock before `ref--`.
* **inode_deadlock**, sysfile.c:280 and 225: `iunlockput(dp)` with `ip` locked; the `iput` in it locks `dp` again.
  It takes a preemption between the two, so it does not occur with FCFS.

Other observations, in the model but not in a run of their own: FCFS compares nothing, because `firstCome` is
declared inside the loop (proc.c:363); FRR's quantum is counted across sleeps and slot reuse;
`turnaround_t` is computed only for processes killed in user space; `kill` marks an UNUSED slot that
still holds the pid; the log has room for one block less than `begin_op` reserves (mkfs.c:25), which today's
operations do not use; a killed writer leaves `pipewrite` without waking readers (pipe.c:86; the variable
`aborted` of Pipe excepts the case from SleepsWithReason and CallsReturn: a reader may sleep on in front of the
bytes until the next write or the last close); a failed disk read sets B_VALID, and a failed write goes
unnoticed (ide.c:117-122; `failed` in Bio).

## Not modelled

* Directories within directories, `..`, `mkdir`, `mknod` and paths of more than one element: Inode has one directory, which is
  where the locking between a directory and its files shows.
* Device registers and tables of the firmware (uart, lapic, ioapic, picirq, mp, kbd, the ports of ide.c and the output side of
  console.c), segments and control registers (`seginit`, `switchuvm`), assembly entry code and boot: no state the rest depends on.
* `fetchint`, `argptr`, `argstr`: bounds tests on user memory. `filestat`, device files.
* memide.c, which the kernel image does not link; the format loop of `printf`; the user programs other than sh, init, grep, cat and echo.
