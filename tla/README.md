# Verification of xv6-riscv-so

The repository holds two trees of the xv6 teaching system for RISC-V:
`src/xv6-riscv`, the original, and `src/xv6-riscv-modificado`, the same system
with a FIFO page allocator (`kernel/kalloc.c`) and a first-come-first-served
scheduler without preemption (`kernel/proc.c`, `kernel/trap.c`). Every other
kernel file, and every user program, is the same in both trees. This directory
holds TLA+ models of the system's own logic, configurations that model-check
them with TLC, and proofs that TLAPS checks. Paths below are relative to
`src/xv6-riscv-modificado` unless they name the original tree. Where a file is
the same in both trees, the map in `PROJECT.json` names one or the other copy:
the definition stands for both.

## 1. The system and its parts

| component | state | operations | talks to |
|---|---|---|---|
| page allocator, `kernel/kalloc.c` | `kmem.freelist`, `kmem.tail`, the first word of every free page | `kinit`/`freerange`, `kfree`, `kalloc` | called by fork, exec, sbrk, page faults, pipes |
| processes, `kernel/proc.c`, `kernel/sysproc.c` | the table `proc[NPROC]`: state, pid, parent, chan, killed, arrival_time; `nextpid`; `wait_lock` | `allocproc`, `kfork`, `kexit`/`reparent`, `kwait`, `kkill`, `sleep`, `wakeup`, `sys_pause` | the scheduler through `sched`, the clock through `&ticks` |
| schedulers, `kernel/proc.c` of each tree | `cpu[c].proc`, locals of the scan | `scheduler`, `sched`, `yield`, `forkret` | every `p->lock` |
| traps and the clock, `kernel/trap.c` | `ticks`, `tickslock` | `usertrap`, `kerneltrap`, `clockintr`, `devintr` | `kexit`, `yield`, `wakeup`, `vmfault`, the drivers |
| spinlocks, `kernel/spinlock.c` | holder, `noff`, `intena` | `acquire`, `release`, `push_off`, `pop_off` | interrupts |
| sleep locks, `kernel/sleeplock.c` | `locked`, `pid` | `acquiresleep`, `releasesleep` | `sleep`, `wakeup` |
| log, `kernel/log.c` | in memory `lh`, `outstanding`, `committing`, `ncommit`; on disk the header and the log blocks | `begin_op`, `log_write`, `end_op`, `commit`, recovery, `sys_sync` | buffer cache; every file system call |
| buffer cache, `kernel/bio.c` | `NBUF` buffers: block, `valid`, `refcnt`, sleep lock, LRU list | `bread`, `bwrite`, `brelse`, `bpin`, `bunpin` | disk driver |
| disk driver, `kernel/virtio_disk.c` | descriptors, available and used rings, `info[]` | `virtio_disk_rw`, `virtio_disk_intr` | the device; `sleep`/`wakeup` |
| inodes, blocks, directories, `kernel/fs.c` | inode table, bitmap, directories | `iget`, `iput`, `ilock`, `itrunc`, `balloc`, `dirlink`, `namex`, `ireclaim` | log, cache, sleep locks |
| file table and calls, `kernel/file.c`, `kernel/sysfile.c` | `ftable`, `ofile[]` of each process | `filealloc`, `filedup`, `fileclose`, `sys_open`, `sys_link`, `sys_unlink`, ... | inodes, pipes, log |
| pipes, `kernel/pipe.c` | ring, `nread`, `nwrite`, `readopen`, `writeopen` | `pipewrite`, `piperead`, `pipeclose` | `sleep`/`wakeup`, `killed` |
| virtual memory, `kernel/vm.c`; program loading, `kernel/exec.c` | page tables, `p->sz` | `uvmalloc`, `uvmcopy`, `uvmunmap`, `vmfault`, `copyin`/`copyout`, `kexec` | page allocator |
| console and UART, `kernel/console.c`, `kernel/uart.c` | input ring, `tx_busy` | `consoleread`, `consoleintr`, `uartwrite`, `uartintr` | `sleep`/`wakeup`, interrupts |
| shell, `user/sh.c` | the line, the tree of commands | `parsecmd`, `runcmd`, `main` | fork, exec, wait, pipe, dup, open, close |
| user programs and tests, `user/*.c` | locals | `init` waits for orphans; tools; `usertests` | system calls |
| dispatch, PLIC, boot, assembly, printing, strings | registers, tables | | |

What makes this code hard is concurrency between CPUs, interrupts and devices
(locks held across `swtch`, checks made before a lock is given back, wakeups
that may come too early), a disk that may lose power between any two writes,
calls that fail half way (no page, no block, no slot), and reference counts
shared by processes. `PROJECT.json` lists the hazards at their lines with the
properties that would catch them.

What makes each part correct:

* allocator: every page is in exactly one place; links, head and tail agree;
  pages come back in the order in which they were freed.
* processes: one CPU at most executes a process; locks never deadlock; no exit
  and no tick is missed by a sleeper; every child has a live parent; zombies are
  reaped; a kill reaches the process it names and no other.
* schedulers: FCFS takes the earliest arrival; round robin starves nobody.
* log: file system calls are all or nothing across a crash; the log never
  overflows; sync means saved; nobody sleeps on a condition that holds.
* cache and driver: the blocks look like one disk with one holder each;
  descriptors, buffers and references are accounted for; no request is
  forgotten.
* file system: references are counted on every path; nothing in use is freed,
  and what is out of use is, after a crash too; blocks have one owner.
* pipes: bytes arrive once and in order; whoever waits on an end that closes
  returns; the page goes with the last end.
* memory: whatever fails and wherever, no page leaks and none is freed twice;
  text, guard page and stack keep their protection.
* console: no character and no interrupt is lost; a reader gets lines as they
  were edited; a writer returns.
* shell: the command that runs is the one typed, with the files the line gives
  it; the prompt waits for it and comes back.

## 2. Modules

| module | models | extends, instantiates |
|---|---|---|
| `FifoPages` | what the allocator promises: a queue of pages | |
| `Kalloc` | `kernel/kalloc.c` | implements `FifoPages` (`FifoOrder`) |
| `KallocProofs` | theorems about `Kalloc` | `Kalloc` |
| `Proc` | processes, their locks and the clock, shared by both schedulers | |
| `ProcFCFS`, `ProcRR` | the schedulers of the two trees, and what the end of a timer interrupt does | `Proc` |
| `ProcProofs` | the inductive invariant of `Proc`, and theorems about processes under each scheduler | `ProcFCFS`, `ProcRR` |
| `CrashStore` | what the log promises: all-or-nothing calls | |
| `Log` | `kernel/log.c` with the disk and what it needs of the cache | implements `CrashStore` (`Atomic`) |
| `LogProofs` | theorems about `Log` | `Log` |
| `BlockStore` | what the cache promises: the blocks of a disk, one holder each | |
| `Virtio` | `kernel/virtio_disk.c` and the device behind the rings | |
| `Bcache` | `kernel/bio.c` and `kernel/sleeplock.c` over the driver | `Virtio`; implements `BlockStore` (`Coherent`) |
| `BcacheProofs` | theorems about `Bcache` and `Virtio` together | `Bcache` |
| `FileTable` | `ftable` and descriptors, shared by the three modules below | |
| `PipeFifo` | what a pipe promises: a bounded queue of bytes with two ends | |
| `Pipe` | `kernel/pipe.c` with the files and calls that make, share, use and close pipes | `FileTable`; implements `PipeFifo` (`ByteStream`) |
| `PipeProofs` | theorems about `Pipe` | `Pipe` |
| `Fs` | `kernel/fs.c` under the calls of `kernel/sysfile.c` and `kernel/file.c`, with crashes and `ireclaim` | `FileTable` |
| `FsProofs` | theorems about `Fs` | `Fs` |
| `Vm` | `kernel/vm.c`, `kernel/exec.c`, and the memory side of sbrk, fork, exit and page faults | |
| `VmProofs` | theorems about `Vm` | `Vm` |
| `Terminal` | what the console promises of its input: edited lines | |
| `Console` | `kernel/console.c` and `kernel/uart.c` with the device | implements `Terminal` (`LineDiscipline`) |
| `ConsoleProofs` | theorems about `Console` | `Console` |
| `ShParser` | the parser of `user/sh.c`: tokens to a tree of commands | |
| `UserPrograms` | tests of `user/usertests.c` and small programs, as the calls they make | |
| `Sh` | `user/sh.c` and the programs it runs, over processes, descriptors and pipes | `FileTable`, `ShParser`, `UserPrograms` |
| `MC...` | the model values and inputs of the runs | |

The modules meet at what each promises the next. `Bcache` promises `BlockStore`,
from which `Log` takes its blocks; `Log` promises `CrashStore`, from which `Fs`
takes transactions that are all or nothing; `Proc` shows that `sleep` gives up a
lock and waits as one step (`NoLostWakeup`), which `Bcache`, `Virtio`, `Pipe`
and `Console` use; `Kalloc` promises pages, which `Vm` counts; `Pipe` and `Fs`
promise what `Sh` uses as single calls.

### How state and actions correspond to the code

`Kalloc`. `freelist`, `tail` and `next` are the fields and the word `run.next`;
`pc[t]` and `r[t]` are a thread's place and local in `kfree` or `kalloc`. A call
of `kfree` is `FreeBegin` (`memset` and `r->next = 0`, before the lock),
`FreeLink` and `FreeTail` (under it); a call of `kalloc` is `AllocBegin` and
`AllocTake` (under the lock) and `AllocReturn` (the `memset` after it). At boot,
`BootFree` is the loop of `freerange` and `BootTail` its walk to the end of the
list. `queue` is a history variable, the pages in the order in which they were
linked; no guard reads it.

`Proc`. `proc[p]` has the fields of `struct proc` that matter, `thread[p]` the
place and the locals of the process's kernel thread, `cpu[c]` the scheduler's,
`lock[l]` the CPU that holds a spinlock. A CPU runs the scheduler (`loop`,
`scan`, `back`) or, when `cpu[c].at = "switched"`, the thread of `cpu[c].proc`;
`swtch` is the change between them. Each acquire that can be observed (while
another lock is held, or with shared state read after it) is a step boundary:
`kfork` is `ForkScan` (one slot), `ForkBuild`, `ForkLink`, `ForkReady`; `kexit`
is `ExitBegin`, `ExitReparent` (one slot), `ExitWake` (one slot of a `wakeup`),
`ExitZombie`; `kwait` is `WaitLocked`, `WaitScan` (one slot), `WaitCheck`,
`WaitSleep`, `Woken`; `sys_pause`, `kkill` and `clockintr` likewise. User code
is `UserTrap` (any call of `Syscalls`), `UserFault`, `UserInterrupt`; `init`
follows `user/init.c`. `LockDiscipline` states what `kernel/spinlock.c` and `sched`
panic for, of the locks each place in the code comes to take (`Wanted`) and to give
back (`Returned`): those it takes come later in the order than all it holds, so it
holds none of them already, those it gives back it holds, and where the scheduler
or the return to user space turns interrupts on, whatever `noff` says, it holds
none. `noff` itself is not modelled.

`Log`. `home`, `slot` and `head` are the disk, `cache` and `pinned` the buffer
cache, `lh`, `outstanding`, `committing`, `ncommit` the struct `log`, `call[p]`
a process's place. `begin_op` is `Start` and `Begin`; the modification of a
block with its `log_write` is `Write`; `end_op` is `End` and `CommitEnd`, with
`commit` between them, one disk write per step: `WriteLog`, `WriteHead`,
`Install`, `Erase`. The buffers a commit needs are taken to be there: `bget`
panics when they are not, which is a finding (section 5) and the end of a run.
`Crash` may happen at every step; `RecoverHead`, `RecoverInstall`,
`RecoverErase` are `recover_from_log`. A block's content is the number of the
call that wrote it.

`Virtio` and `Bcache`. The variables have the names of the fields of `disk`,
`struct buf` and `bcache`; `device` is how far the device has read the available
ring and the requests it works on, which it finishes in any order. `Bget`,
`SleepLock`, `Submit`/`RwWaits`/`RwSubmits`/`RwDone`, `Finish` are the stretches
of `bread` between two sleeps; `IntrEntry` is one turn of the loop of
`virtio_disk_intr`, for the device adds entries while the handler runs. The
client holds one buffer at a time and writes or pins what it changes, as the log
does. `Bget` waits where the code would panic for want of a buffer.

`Pipe`. `pipe[pi]` is the `struct pipe` in a page with the owner of its lock,
`thread[p]` a process's place. A step is what happens under `pi->lock`, cut where
`killed()` is read, since `kkill` sets the flag under another lock. `Pipealloc`
(two files, then the page), `Fileclose`, `Piperead` and `Pipewrite` are the
kernel functions, `Fork`, `Dup`, `Close`, `Exit` the calls that share and drop
ends. `torn` is history: a writer was killed half way.

`Fs`. `dinode`, `dirs` and `used` are the disk as the cache has it, `durable`
the disk after the last commit, `itable`, `cwd`, `off`, `ftable` and `ofile` the
kernel's tables. `thread[p].todo` lists what a call still has to do on its way
out (unlock, put, end the transaction), in the order of the code. A step goes
from one change of the inode table, or one sleep lock that may have to be waited
for, to the next; `Iput` is three steps, cut where `iput` gives back
`itable.lock`. `HasRoom` guards each `iget`: a call that finds the table full
panics, and takes no more steps. `EndOp` makes what the calls did durable when
the last one ends, which is what `Log` shows; `Crash` goes back to `durable` and
to `Ireclaim`.

`Vm`. `proc[p].pt` is a page table: which root, middle and low tables exist, and
the leaves with their flags (`PTE_U`, `PTE_W`); `thread[p]` the call in progress,
one page at a time, so that any allocation may be the one that fails. Sizes are
in bytes, and a page has two of them, so that sizes that are not whole pages
happen. `image` is history: the pages `exec` gave the process and their flags.

`Console`. `buf`, `r`, `w`, `e` are `cons`, `txBusy` is `tx_busy`, `thr`,
`txPending` and `rx` are the device; `intr` is the handler and the character in
its hands. `Uartintr` and `Consoleintr` are the handler's functions,
`Consoleread` and `UartWrite` the callers', `PrintkPut` the polling
`uartputc_sync`. A reader is `to_sleep` between its look at `killed` and its sleep,
where a kill wakes nobody.

`Sh`. `proc[p].at` is the place in `main` or `runcmd`, `todo` the calls it makes
next in the order of the text, `cmd` the tree. `ShParser` translates the
parser function by function; the tree keeps positions until `nulterminate`.
The programs are `cat`, `echo`, `wc` and those of `UserPrograms`, which are
lists of calls with what the test checks of each result; a loop is unrolled
twice, or once where it forks (`reparent2`). `want` and `excused` are history.
`Preemptive` says whether the timer interrupt takes the CPU from a process that
spins; it is used in the fairness only.

## 3. Runs

| run | module, configuration | what it shows |
|---|---|---|
| `kalloc` | `MCKalloc`, `MCKalloc.cfg` | the list is the queue (`Chain`), no page lost or given twice (`OnePlace`), failure means empty, the queue is implemented (`FifoOrder`) |
| `fcfs_two_cpus` | `MCProcFCFS`, `FCFSTwoCPUs.cfg` | safety of processes on two CPUs: one CPU per process, the asserts of `acquire`, `release` and `sched`, no exit and no tick lost, live parents, kills that hit |
| `fcfs_one_cpu` | `MCProcFCFS`, `FCFSOneCPU.cfg` | on one CPU, FCFS order, and, if programs end, everybody runs, zombies are reaped and killed processes exit |
| `rr_two_cpus` | `MCProcRR`, `RRTwoCPUs.cfg` | no starvation under round robin with preemption and a clock that wraps, whatever programs do |
| `log` | `MCLog`, `Log.cfg` | crash atomicity, sync, log space, wakeups |
| `bcache_two_requests` | `MCBcache`, `BcacheTwoRequests.cfg` | two buffers, pins, and a queue for two requests: everything accounted for, one copy of the disk |
| `bcache_three_requests` | `MCBcache`, `BcacheThreeRequests.cfg` | a third request waits for descriptors: nobody sleeps on what is there |
| `pipe` | `MCPipe`, `MCPipe.cfg` | bytes in order, wakeups, the life of the page, and that waiting for a closed end comes to an end |
| `fs` | `MCFs`, `Fs.cfg` | references, links, orphans, blocks, inode copies, no deadlock, and none of the panics in reach (section 5 names the others), with crashes |
| `vm` | `MCVm`, `Vm.cfg` | pages conserved through every failure, calls that fail leave the memory they found, protection kept |
| `console` | `MCConsole`, `Console.cfg` | nothing lost between handler and processes, edited lines, writes that return when the others end |
| `shell` | `MCSh`, `Sh.cfg` | foreground and background, plumbing, parsing, the prompt's return, and user tests that pass |

`NoLostWakeup` is stated by `Proc`, `Log`, `Bcache`/`Virtio` and `Pipe`, each
about its own sleepers: whoever sleeps has a reason to, or somebody is on the
way to wake it. `Console` has it as part of `NothingLost`.

Three runs do not check for deadlock, because the system may really stop: the
pipe's processes may all have exited or sleep in reads that nobody answers, the
console's user may stop typing, and the shell's session comes to an end.

### Bounds, and why they are enough

* `kalloc`: two threads and three pages. With three pages the list is empty,
  has one page (head and tail at once) and has a middle; two threads are one
  for each side of every race. No other bound is needed: the state is finite.
* processes: three slots are `init`, its child and a grandchild, which is what
  orphans need; `fcfs_one_cpu` has a fourth, since an orphan that `init` must be
  woken for needs a parent that is not a child of `init`. `MaxPid` bounds the
  pids given out; above the number of slots it makes slots change hands.
  `MaxTicks` stops the clock; in `rr_two_cpus` `TickWidth` is one, so that the
  clock wraps and never stops, as the scheduler needs it (nobody pauses there,
  so nothing else reads it). Which system calls a
  run has, and the pids `kill` is given, are chosen for its question; between
  them the runs make all of them.
* `log`: two of three processes fit in the log at once (`MAXOPBLOCKS` 2,
  `LOGBLOCKS` 4), so that the third waits for room; two blocks are absorbed,
  shared and overwritten. `MaxCalls` bounds the calls ever started; crashes are
  not bounded.
* buffers: eight descriptors (`NUM`, as in the code) serve two requests of three
  and leave two. Two buffers for three blocks are recycled all the time; three
  buffers let three requests meet. The 16-bit ring indices wrap at 8. Only one
  block is changed, and processes and the other blocks are symmetric: no
  definition tells them apart, and the properties of these two runs are safety.
* `pipe`: one pipe of two bytes is full, empty and in between, counters wrap at
  four; two processes with two descriptors are reader and writer, both, or one
  that shares an end. `Counts` bounds the transfers to those of two bytes: a
  read stops short when fewer are there, a write when the pipe has no room.
* `fs`: two names and four inodes on five blocks, of which a file has one direct
  and one indirect, a directory four entries to a block: allocation of inodes
  and blocks fails, directories fill. The two starting disks are that of `mkfs`
  one with a directory, and a file of two names, and one with a directory in a
  directory, whose parent has no link to spare, unlike the root. Three calls, besides those
  that end or fork a process, are a file that is opened, unlinked and closed, or
  a race of three; the requests include the pairs that meet: remove and make
  in a directory, below the root too, link and unlink, truncate and write, `chdir`
  and remove. The inode table has an entry for every inode.
* `vm`: 17 pages are too few for two processes with an `exec` in progress, so
  that every allocation fails somewhere; three levels of two entries give sizes
  that need a new middle and a new low table. `MAXARG` is one, and the programs
  `exec` finds are a small one and one of two segments with different flags.
* `console`: a ring of two characters is full and empty; the indices start where
  they wrap next. Three keys out of all kinds but the newline, which ends a line as
  `C('D')` and a full ring do; two calls, by two writers and a reader, beside the
  echo and `printk`.
* `shell`: pipelines of up to three, nested in lists, blocks and redirections, and
  one of four, for which the third `pipe` fails; sessions of a background command
  with others beside it, six lines that are none. Sessions leave five slots, so that
  forks fail in long pipelines, six for the pipeline of four, or four beside
  `forktest`; tests have all seven, for they take a failed fork for a failure.

### Fairness

Only the liveness properties use it.

* Processes: a CPU in the kernel goes on: strong fairness of its scheduler and
  kernel steps together says that a spinlock which is free again and again is
  taken in the end. Its clock and timer steps have a strong fairness of their
  own: an interrupt is taken in the end, and interrupts are a tenth of a second
  apart, so they do not keep the CPU from its other work. Programs get no
  fairness, with three exceptions: `init` (a program of the system) keeps making
  its calls; a killed process is interrupted in user space in the end; and, in
  `EndingSpec` only, a program that may exit again and again does
  (`ProgramsEnd`), the assumption under which FCFS is meant to be used.
* `Pipe`: strong fairness of a process's kernel steps, for `pi->lock` is
  contended; none of what programs call. The scheduler behind it is that of
  `rr_two_cpus`, or FCFS with programs that end.
* `Console`: weak fairness of the device, the interrupt, each process in the
  kernel and a `printk` that has begun; nobody has to begin one, or to type.
  `WritesReturn` holds because the other writes, `printk` and the typing end within
  the bounds. Of writers that never end it is not true: `uartintr` wakes all of
  them, and one that comes first each time, as the earlier arrival does under FCFS,
  keeps the device from the others.
* `Sh`: weak fairness of each process, the one that is killed included, but while a
  process spins only if the scheduler is `Preemptive`; files
  and the console come to an end for whoever reads them (strong fairness of the
  read that finds the end, which is enabled before every read of them). The run has
  `Preemptive = TRUE`, the original tree. In the modified one `trap.c:84` never takes
  the CPU from `killstatus` and `preempt`, whose children spin: with
  `Preemptive = FALSE` TLC refutes `PromptReturns` there, which is finding 3. All other
  programs give up the CPU by themselves, and their prompts come back in both trees.

## 4. Proofs

`KallocProofs` proves, for any number of threads and pages and from the
assumptions of `Kalloc` alone (the boot thread is a thread, there is at least
one page), every property the run `kalloc` checks:

* `TypeCorrect`, `ListIntact`, `PagesConserved`: `[]TypeOK`, `[](Chain /\
  TailIsLast)`, `[]OnePlace`;
* `FailureIsExhaustion`: the action property `FailsOnlyWhenEmpty`;
* `Refinement`: `Spec => FifoOrder`, the list implements the queue.

They rest on one inductive invariant, `IInv` (theorem `Invariance`). The
properties alone are not inductive: that appending behind `tail` is right needs
to know that a thread inside the critical section holds the lock and nobody
else is inside (`LockInv`), that a page on its way to the list has a null link
(`LinkCleared`), that the head a `kalloc` has read is still the head
(`HeadRead`), and, while `freerange` runs, which pages are still owned
(`BootInv`). There is one lemma per action; `QueueFacts` collects what they need
of sequences. The refinement maps each step of `IInv`-states to a step of the
queue or to a stutter.

`LogProofs` proves every property the run `log` checks, for any finite set of
processes, any blocks and log size, and crashes at every step: `ProtocolIsOrderly`
(`[]Orderly`), `WakeupsArrive` (`[]NoLostWakeup`), `SyncIsSaved`
(`[]SyncSaves`) and `Refinement` (`Spec => Atomic`). It assumes `LogAssumption`:
the sizes are numbers, and a call writes fewer than `MAXOPBLOCKS` blocks. `Orderly` speaks of
the panics of `log.c`; that `bget` has a buffer for a commit it does not say, for it is
not true of the code. Its `IInv` (`Invariance`) was checked by TLC on the
instance of the run before it was proved. Beside `CommitsAlone` and
`NoLostWakeup` it needs

* `RoomInv`: the log has room for what is reserved. `begin_op` reserves
  `MAXOPBLOCKS` for each call in progress, and a call uses one for each block it
  is the first to log; `Reserve` counts, as a set of pairs, what is left of that;
* `HeadInv`, `PinInv`, `CacheInv`: the header on disk is empty but from the
  commit to the end of the installation, a block is pinned from `log_write` until
  it is installed, and what is not pinned is as it is on the disk;
* `CopyInv`: how far `write_log` and `install_trans` have got, in a commit and in
  recovery;
* `PendingInv`: which ended calls are not on the disk, and for which commit a
  `sync` waits;
* `Down`: what holds from a crash to the end of recovery.

The refinement maps the blocks a reader of the disk would get after recovery to
the abstract store's durable blocks, and the cache's to its current ones. Only
`WriteHead` saves; `Crash` and the recovery steps, interrupted and repeated,
change nothing that was saved.

`ProcProofs` proves, under the modified scheduler (`SpecFCFS`) and the original
one (`SpecRR`), for any number of CPUs, slots, pids and ticks and any system calls:

* `AlwaysRunsOnce` (`[]RunsOnce`), `AlwaysLockDiscipline` (`[]LockDiscipline`,
  with the asserts of `sched`, `acquire` and `release`), `AlwaysNoLostWakeup` (`[]NoLostWakeup`),
  `AlwaysParentLives` (`[]ParentLives`): the first four invariants of run
  `fcfs_two_cpus`;
* `AlwaysKillHitsPid` (`[]KillHitsPid`), if no program faults (a fault marks the
  process killed, too) and nobody kills pid 0, which finding 4 shows is needed;
* `AlwaysEarliestArrival` (`EarliestArrival`, the modified tree), if there is one
  CPU, which finding 1 shows is needed.

Each is proved once for each scheduler it holds under; its name ends in `FCFS` or `RR`,
but for `AlwaysEarliestArrival`.

They assume `CPUAssumption` and `SizeAssumption` of `Proc`: the boot CPU is one of
the CPUs, and the sizes are numbers. `IInv` is their
invariant; TLC checked it first on the instances of the runs. Its parts, beside
`TypeOK` and `RunsOnce`:

* `CpuInv`: what a CPU's scheduler knows; that a timer interrupt finds no lock
  held, so that the handler may yield;
* `StateInv`: where the thread of a process in each state is: `swtch` resumes it
  where it stopped;
* `LocksInv`: a CPU holds a lock exactly where the code of its scheduler, its
  clock interrupt or its thread is between `acquire` and `release`. A process
  that `swtch`es hands its lock to the scheduler, which hands it to the next: that
  is why the invariant is about CPUs and places, not processes;
* `ForkInv`: until `kfork` makes it runnable, a child belongs to one parent, which
  has given up its lock twice in between;
* `ParentInv`: init does not exit, and who is in `reparent` has no child among the
  slots looked at; without it `ParentLives` is not inductive;
* `WaitInv`, `TickInv`: what a process that is about to sleep has seen, and which
  wakeups are still on their way; `NoLostWakeup` is their consequence.

Lemmas about kinds of steps (`ThreadStep`, `CoreStep`, `SwitchOn`, `SwitchOff`,
`QuietStep`, `ForkKept`) say once what a step must keep; each action has a lemma
that is an instance of one of them, those both schedulers share first and the
schedulers' own after them. Round robin needs
`RoundInv` besides (what `RoundAt` says of each CPU), for its scheduler uses its
index after it has switched back; `EarliestArrival` needs `ScanInv`: the process
selected came first among the slots looked at. `KillInv` says that a free slot is
not marked, and that a `kkill` on its way looks for the pid it was given.

`ConsoleProofs` proves the two safety properties of run `console`, for any readers
and writers, any ring and any width of its indices, starting anywhere:
`InterruptsArrive` (`[]NothingLost`), if the device takes `FIFO >= 3` characters
(the UART has 16), and `Refinement` (`Spec => LineDiscipline`). They assume
`ConsoleAssumption` (the ring's size divides the number of values an index has)
and `ProcessAssumption` (readers, writers and the handler are different). The
parts of `IInv`:

* `LockInv`: who holds `cons.lock` is where in the code;
* `RingInv`: `r`, `w` and `e` stand in this order around the ring, no further
  apart than its size, also when one has wrapped and another has not;
* `EchoInv`: the handler stores what it found room for;
* `WaitInv`: while `tx_busy` is set an interrupt is on its way, and nobody sleeps
  beside a complete line;
* `OutputInv`: each of the three parties that write to the device has at most one
  byte there that it did not wait for; that is the bound on `thr`.

Differences of unsigned indices, and that `Slot` of an index is the same before and
after it wraps, follow from a few lemmas on remainders (`Division`, `Remainders`,
`Wrap`, `Back`, `Address`). `Queues` says what the two queues of `Terminal` are in
terms of the ring; a stored character, an erased one and a read are then each a
step of `Terminal` (`StorePromise`, `ErasePromise`, `ReadPromise`).

`PipeProofs` proves every safety property of run `pipe`, for any processes, files,
descriptors, pipes and counts: `LastHolderFrees` (`[]FreedWithLastHolder`),
`WakeupsArrive` (`[]NoLostWakeup`) and `Refinement` (`Spec => ByteStream`). They
assume `FileTableAssumption` (finitely many processes, a table and descriptors)
and `PipeAssumption`: the ring's size divides the number of values `nread` and
`nwrite` have, and is smaller than it. The parts of `IInv`, which TLC checked on
the instance of the run first:

* `CountInv`: `ref` is the number of descriptors and calls in progress that hold
  the file. `FdCount` and `HeldCount` count them as sets of pairs, and `Recount` says
  that the equation holds after a step if it does for what the moving process holds;
* `FileInv`, `HeldInv`: descriptors name ends of pipes only, and what a call that
  makes or closes files holds, nobody else knows;
* `EndInv`: an open end of a pipe has exactly one file, or one `pipeclose` on its
  way, and a closed end none. Without it two closes could both find themselves the
  last;
* `UseInv`: who reads or writes keeps a descriptor of the right end, so that the
  page stays while it sleeps;
* `RingInv`, `WaitInv`: the ring holds no more than its size, and what a sleeper
  waits for is not there, or its wakeup is still to come.

There are four kinds of steps (`PipeStep`, `LockStep`, `CallStep`, `FileStep`), each
with a lemma that says which parts it cannot disturb. For the refinement `Slots`
and `Window` say that the bytes between `nread` and `nwrite` are in different
slots, also when one of the counters has wrapped: a byte written is then one more at the
end of the abstract queue, a byte read one fewer at its front.

`BcacheProofs` proves every safety property of the runs `bcache_two_requests` and
`bcache_three_requests`, for any processes, blocks, buffers and descriptors and any
width of the ring indices: `SpecAccounted` (`[]Accounted`), `SpecNoLostWakeup`
(`[]NoLostWakeup`) and `Refinement` (`Spec => Coherent`). They assume
`VirtioAssumption` (finitely many processes, at least one buffer and three
descriptors, and a queue size that divides the number of values an index has) and
`BcacheAssumption`. TLC checked `IInv` on the instances of both runs first. Its parts:

* `ThreadInv`, `LockInv`: who waits for the disk or holds a sleep lock is at a place
  in the code that says so, and the other way round;
* `CacheInv`: a block has one buffer, `refcnt` counts who refers to it, and every
  buffer is on the list, so that `brelse` finds the one it moves;
* `ChainInv`: a descriptor that is not free is in the chain of exactly one request,
  and the three of a chain are different;
* `RequestInv`: what `info`, `ops`, `b->disk` and the caller know of one request;
* `DeviceInv`: the entries of the available ring are those from the device's index
  to the driver's, those of the used ring from the driver's to the device's, all
  different (`RingOK`), also when one index has wrapped; an interrupt that is
  pending has an entry to handle;
* `PlacesInv`: what is in a ring, in the device or reported belongs to a request in
  progress, and is in one of those places only;
* `WaitInv`: who sleeps for a descriptor has fewer than three free ones to see, who
  sleeps for a buffer one that is locked;
* `DataInv`: a valid buffer that differs from its block is pinned or about to be
  written, and while a request is with the device the two sides agree on which
  way it goes.

`RingAdd` and `RingTake` say once what an entry more or one fewer does to a ring;
that the ring is never full when a request comes follows from counting: each entry
is the head of a request, which has three descriptors (`Room`). For the refinement,
a block is what its valid buffer holds, or else what the disk does. `acquiresleep`
of a valid buffer, or the end of the read that makes it valid, hands the block over;
everything else in between, recycling included, changes no block's contents, for
an unused buffer is as it is on the disk.

`VmProofs` proves both safety properties of run `vm`, for any processes, page size,
fan-out of the page tables, programs, amounts and number of pages: `NoPageLost`
(`[]PagesConserved`) and `ProtectionKept` (`[]Protected`), both from `SpecIInv`.
They assume `VmAssumption` (finitely many processes, tables of at least two entries,
segments that are not empty and begin on a page, and programs that fit below the
trapframe, which `kexec` does not look at) and `BootAssumption` (the first process
fits). TLC checked `IInv` on the instance of the run first. Its parts:

* `Conserved`: free pages, those in use elsewhere and those that page tables, the
  table `exec` is making, its arguments and trapframes have add up to all. `Owned`
  is a set of pairs; `Recount` says how its size follows a change of one process;
* `HasOK`: what a process has of these at each place in the code, so that a failure
  gives back everything the call had taken and nothing else;
* `SizeOK`: `sz` covers what is mapped, but during `uvmalloc`, where `GrowOK` says
  how far the loop is. `uvmfree` by `sz` therefore meets every leaf, and `freewalk`
  none;
* `CallOK`: a call that may fail still has the memory it began with, and `uvmalloc`
  has only added to it;
* `ForkOK`: the child has the parent's pages below the one `uvmcopy` is at, with
  their flags (`Cut`), and no second parent;
* `ExecOK`: how far the loops of `kexec` are in the image, for each of its stages;
  `Image` is what they lead to. The segments may overlap or leave holes; `Loads` says
  whose flags a page gets;
* `ImageOK`: the pages `exec` made have the flags it gave, and the others are those of
  `sbrk`.

`Extends` and `Adds` say once what `walk` and `mappages` do to a table when they
succeed and when they fail; `UnmapIs`, `DeallocIs` and `FreepagetableFrees` what is
given back; `Settles` and `ForkStep` what a step of one process, or of one and its
child, must keep. No theorem speaks of which page frame is mapped: `Vm` counts
frames, and that nobody gets one that is in use is `OnePlace` of `Kalloc`.

`FsProofs` proves `RefsCounted` of run `fs` (`ReferencesCounted`, from `SpecIInv`), for
any number of processes, files, descriptors, inodes, names and blocks, any paths in the
requests, and crashes at every step. It assumes `FileTableAssumption`, `FsAssumption`
(requests have the form the calls take, and the sizes are numbers) and
`GrownAssumption` (the other disks that a run starts from are disks). The inode table
may be smaller than the disk, as the 50 entries of xv6 for the 200 inodes of `mkfs`
are: a call that finds it full panics and takes no more steps (`HasRoom`). TLC checked
`IInv` on the instance of the run, too. Its parts:

* `TableInv`: two entries in use are never of the same inode;
* `ThreadInv`: at each place in the code, which of its pointers `ip` and `dp` a call has
  set, that a directory to return to is there, and that a transaction ends after all
  that is left to do in it;
* `FilesInv`: `ref` of a file is the number of descriptors that have it;
* `CountInv`: `ref` of an entry is the number of current directories, open files,
  pointers of calls and puts still to be made that are of it.

`Pointers` counts over all processes at once. `PointersOf` takes the pointers of one
process (`Own`) and of the files out of the count, and `Recount` says that `ref` need
only move as these do. `Steps` makes that a rule for a step of one process, `FileStep`
and `OneFdStep` for one that opens, duplicates or closes a file too; each action is an
instance, after lemmas about what `iget`, `idup` and `iput` do to the table. A crash
leaves the one reference of init's directory.

Only model-checked: the liveness properties (`RunnableRuns`, `LivesEnd`,
`EndsAreSeen`, `WritesReturn`, `PromptReturns`), which are out of the prover's
reach; and the rest of the safety of `Fs` (`NeverFreedInUse`, `OrphansAreHeld`,
`BlocksOwned`, `MemoryIsCurrent`, `NeverStuck`) and that of `Sh` (`Foreground`,
`Plumbed`, `TestsPass`), which no theorem states so far. The parser of the shell is
recursive and stays with TLC.

## 5. Findings

1. The comment at `kernel/proc.c:446` says the scan finds the runnable process
   with the least arrival time. On two CPUs a process in a slot already passed
   may become runnable meanwhile. On one CPU, which the `Makefile` sets, the
   property holds (`EarliestArrival`).
2. `README.md:34` promises first come, first served. Arrivals are counted in
   ticks of a tenth of a second, and ties go to the lower slot.
3. `user/usertests.c:828` (`preempt`) relies on preemption, which the modified
   `trap.c` has commented out: a spinning program starves the others.
4. `kernel/proc.c:616` says `kkill` kills the process with the given pid;
   `kill(0)` marks an unused slot, and the next process put there is born
   killed: it exits at its first trap. (Both trees.)
5. `kernel/sysfile.c:282`: a name can be entered in a directory that another
   process removed since it was looked up. The entry of a file goes when the
   directory does, and its inode keeps a link count of one for ever, though
   `kernel/fs.h:35` calls it the number of links. A `mkdir` gives the removed
   directory a link again: it stays allocated without a name, with the new one in
   it, and its `..` names a parent that does not count it. `NeverFreedInUse`
   therefore asks the link counts of files to cover the names, not to equal them,
   and counts `..` of directories that have a name. (Both trees.)
6. `kernel/fs.c:316`: `..` of a directory that was removed while it was
   somebody's current directory may name an inode that is free by then, and
   `ilock` panics. The requests of run `fs` name `..` only as the entry to
   remove, which `sys_unlink` refuses before it looks it up. (Both trees.)
7. `kernel/fs.c:368`: `iput` frees an inode on the disk, gives back its lock, and
   only then takes `itable.lock` to count its reference down. Another call may
   allocate the inode meanwhile, fail, and put it: it sees two references and frees
   nothing, and the first `iput` only counts down. The inode stays allocated, with
   no link and no reference, until the next boot. `OrphansAreHeld` makes an exception
   of this one step. (Both trees.)
8. `kernel/bio.c:87`: `NBUF` equals `LOGBLOCKS`, so a commit of a nearly full log,
   with readers that hold buffers outside of any transaction, may find no buffer, and
   `bget` panics, though the comment at `kernel/bio.c:55` promises a locked buffer in
   either case. (Both trees.)

## 6. What is not modelled

`PROJECT.json` lists every part with its status. Registers, the bits of page
table entries, instruction-level atomics, device set-up, formatting and the
straight-line tools in user space are left out for good: their state is bits and
text, or belongs to the machine. The memory model is taken to be sequentially
consistent, which the acquire and release fences of `kernel/spinlock.c` give to
data under a lock. Of the user tests, those about files and memory are not
translated: what they look for is stated of `Fs` and `Vm` for every order of
calls. The contents of files, blocks of data and pages are not kept. Where the
inode table is full, or the cache has no unused buffer, the code panics, and a process
of the models takes no more steps. `ticks` does not wrap where anything reads it:
the order of arrivals would then be wrong, which takes years of uptime. `sys_sync`
may wait for ever under a load that never pauses; no comment promises that it
does not, and the project states no property of it.

## 7. Plan

The models stand, and eight of them are proved about: `Kalloc`, `Proc` with its two
schedulers, `Log`, `Bcache` with `Virtio`, `Pipe`, `Console`, `Vm` and `Fs`. What is left,
in this order:

1. `Fs`: `NeverFreedInUse` and `BlocksOwned` from the invariant of `RefsCounted`. They
   need besides that an inode is locked while its blocks change.
2. Larger runs of `Fs` (relative paths, three processes) and of `Proc` under
   round robin with kills and pauses.
