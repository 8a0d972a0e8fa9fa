# Verification of the INU-OS kernel (xv6 booted by UEFI)

The repository holds a UEFI loader (`src/xv6edk2/MyLoaderPkg`), an xv6 kernel
extended with a framebuffer console and a small network stack
(`src/xv6edk2/xv6`), and a vendored copy of EDK2 (`src/edk2`, third party, out
of scope). This project models the concurrent core of the kernel in TLA+ (scheduler,
log, pipes, buffer cache and disk queue, file system, memory, console input),
checks it with TLC on small instances, and proves with TLAPS, for every value of
the constants, the safety invariants of all of these and the refinements of the
log, the cache, the pipe and the console. File names below are relative to
`src/xv6edk2/xv6`.

## Inventory

| Component | State | Operations | What is hard | What makes it correct |
|---|---|---|---|---|
| Processes, scheduler (`proc.c`, `trap.c`, `sysproc.c`) | `ptable`, `cpus[].proc`, `ticks`, one kernel stack per process | fork, exit, wait, kill, sleep/wakeup, yield, sched, scheduler, timer interrupt | several CPUs; `ptable.lock` handed from thread to thread across `swtch()`; sleep/wakeup; slots reused | one CPU per stack, no stack freed in use, no lost wakeup, unique pids, every RUNNABLE process runs |
| Write-ahead log (`log.c`) | on-disk header and blocks, `log.lh`, `outstanding`, `committing` | begin_op, log_write, end_op, commit, recovery | concurrent operations share a transaction; power may fail at every disk write; bounded space | operations are atomic with respect to crashes; the reservation suffices (it does not quite: Findings) |
| Pipes (`pipe.c`, `file.c`) | ring, wrapping counters, two open flags | read, write, close | many sleepers on two channels, kill() and close at any moment | bounded FIFO, no lost wakeup, freed once and in time, end of file |
| Buffer cache, disk (`bio.c`, `ide.c`, `memide.c`, `sleeplock.c`) | LRU list, refcounts, flags, `idequeue` | bread, bwrite, brelse, iderw, ideintr | recycling against pinning; interrupt against request; lock hand-over | one buffer per block, every request completes, a B_DIRTY buffer survives |
| Inodes and directories (`fs.c`, `sysfile.c`) | inode cache, bitmap, directory blocks | iget, ilock, iput, dirlink, namex, create, link, unlink | lock order, reference against link count, crash with open unlinked files | reference counts are exact, every committed image is a consistent file system, lookup never deadlocks |
| Open files (`file.c`, `sysfile.c`) | `ftable`, `ofile[]` | open, dup, close, pipe | error paths half way | reference counts equal references |
| Memory (`kalloc.c`, `vm.c`, `growproc`, `exec.c`) | free list, page tables, `p->sz` | kalloc, kfree, allocuvm, copyuvm, deallocuvm, exec | failure half way, size 0 | no frame is freed twice, in use or lost, whichever allocation fails; pages and `p->sz` agree |
| Spin locks (`spinlock.c`) | `locked`, `ncli`, `intena` | acquire, release, pushcli, popcli | interrupts of the same CPU | mutual exclusion, interrupts restored |
| Console (`console.c`, `kbd.c`, `uart.c`) | ring with indices r, w, e | consoleintr, consoleread | interrupt against reader, wrapping indices | committed input is read once and in order and never erased; no reader sleeps beside it |
| Network (`i8254.c`, `arp.c`, `eth.c`, `ipv4.c`, `icmp.c`, `tcp.c`, `http.c`) | descriptor rings, ARP table, `seq_num`, `fin_flag` | send, receive, protocol handlers | device and driver share rings, tables at their limit, byte order | no descriptor reused before it is sent, table maps an address to its own MAC |
| Boot (`main.c`, `lapic.c`, `ioapic.c`, `mp_uefi.c`, loader) | device registers | start-up | handshake with the other CPUs | |
| User programs, `umalloc.c`, `mkfs.c` | | | | environment; `mkfs.c` makes the first image |

Components interact through system calls (trap.c enters them in the context of
a process), through `sleep`/`wakeup` on addresses, and through shared tables
each with its spin lock. The timer and device interrupts run on top of whatever
a CPU executes with interrupts enabled. Above the disk, every FS system call is
bracketed by `begin_op`/`end_op` and writes blocks with `log_write`.

`PROJECT.json` lists every component with its status and, under `hazards`, the
places where the code can go wrong in ways a test hardly reaches.

## Modules

| Module | Models | Composes |
|---|---|---|
| `Proc` | process table, per-CPU schedulers, timer, sys_sleep | |
| `AtomicDisk` | what the log promises | |
| `Log` | the log, the crash and the recovery, the cache as far as the log needs it | instantiates `AtomicDisk` |
| `Fifo` | what a pipe promises | |
| `Pipe` | a pipe with its readers and writers | instantiates `Fifo` |
| `BlockStore` | what the buffer cache promises | |
| `Bcache` | buffer cache, sleep locks, IDE request queue and interrupt | instantiates `BlockStore` |
| `Fs` | inodes, directories, path lookup and the system calls on them, on a disk that commits and crashes as `AtomicDisk` says | |
| `FsInv` | the parts of the inductive invariant of `Fs` | extends `Fs` |
| `Vm` | free list, page tables, fork, exec, sbrk, wait as users of memory | |
| `Tty` | what console input promises | |
| `Console` | the input ring, its interrupt, readers and writers | instantiates `Tty` |
| `ProcProofs`, `LogProofs`, `PipeProofs`, `BcacheProofs`, `FsProofs`, `VmProofs`, `ConsoleProofs` | theorems about these modules | each extends its module (`FsProofs` through `FsInv`) |
| `WrapLemmas` | arithmetic of wrapping counters and of pages, least elements | extended by four of them |
| `MCProc`, `MCLog`, `MCPipe`, `MCBcache`, `MCFs`, `MCVm`, `MCConsole` | instances for TLC | |

Several invariants are conjunctions of parts that have their own definition and
comment (`CacheSound == TypeOK /\ OneBufferPerBlock /\ HeldIsWanted`); the runs
check the conjunction.

### Proc

A CPU executes its scheduler (`run[c] = 0`) or the kernel thread of a process
(`run[c] = p`); `pc[p]` is where that thread is and `mode[p]` whether it runs, has
called `sched()` and is still on its stack (`insched`), or has its context saved
(`off`). Regions under `ptable.lock` are single steps, except that the lock is
held across the switch: `EnterSched` takes it in the old thread, `SchedSwitch`
runs the next one, and that thread releases it (`forkret`, `YieldReturn`,
`SleepReturn`, the end of `wait`). Code that runs unlocked (the body of fork, the
tests of `p->killed`) has separate steps. The failures of `kalloc()` and
`copyuvm()` are nondeterministic. The timer interrupt arrives on any CPU with
interrupts enabled, in user space or in the kernel; CPU 0 increments `ticks`,
which wraps (`TickMod` stands for 2^32).
Abstracted: registers, user memory, names, open files and the directory of a
process. Bounds: `MaxPid` stops fork (the guard of `SyscallEntry`), because
`nextpid` grows without bound.

### Log

The disk is `home`, `logblk` and the header `hd`; one block is written at a time
and atomically. The buffer cache is what the log needs of it: the data of each
block, the set `dirty`, and `Recycle`, which drops a buffer that is neither dirty
nor held. `log_write` is two steps, since its test for room precedes
`acquire(&log.lock)`. `commit()` and `recover_from_log()` share the actions from
`install_trans` on, one turn of a loop per step. `Crash` is enabled always,
also during recovery, so that recovery meets logs that are not empty.
`OpWrites` bounds the blocks one operation writes, for which `begin_op()` reserves
`MAXOPBLOCKS`; `NLOG` is the `nlog` that `mkfs` puts in the superblock. A process
that `end_op()` has woken is back at the test of `begin_op()` in no order with the
others and with newcomers, and may have to sleep again.

### Pipe

`i` and `n` are the locals of `piperead` and `pipewrite`; bytes move one per step.
The sleep is two steps, because the holder of `p->lock` can be killed before it is
SLEEPING (`tosleep`). `fileclose` drops a reference, and the last one of an end goes
on to `pipeclose` in a later step, after `ftable.lock` has been released. `NMod`
stands for the 2^32 of the counters.
Abstracted: who is given a byte (only the order of delivery is kept). `MaxLen`
bounds n.

### Bcache

Each of `bcache.lock`, the spin lock of a sleep lock and `idelock` makes a step:
`BgetCached`/`BgetRecycle`, `acquiresleep`, `bread` (with `iderw`'s critical section),
`IderwReturn`, `releasesleep` and `brelse` (the two halves of `brelse()`).
`DiskDone` is the device: it carries out the command `idestart()` gave it and raises
its interrupt; `ideintr` takes it, wakes the owner and starts the next request.
`log_write` is here what the log does to a buffer, changing it and pinning it with
B_DIRTY; `MaxPinned` is the bound the log's reservation puts on that. A user
(`Users`) is one use of one buffer, from `bget()` to `brelse()`. Code that holds two
buffers (`write_log`, `install_trans`, `bmap`, `itrunc`) is two users, which is the more
general: anything a nesting of the two uses can do, two independent ones can.
What this leaves out is a deadlock of processes that wait for a second buffer
while they hold one. `BgetRecycle` panics when no buffer is free, and there is no
claim that `NBUF` buffers are enough. A read error is an outcome of `ideintr` that the run leaves out
(`ReadErrors = {FALSE}`): the driver marks the buffer valid all the same, so
nothing could be said about contents. A spurious interrupt with an empty queue
is a no-op in the code and in the model. `Log` relies on what is shown here:
contents survive while a buffer is dirty or in use, and otherwise are on the
disk.

### Fs

`disk` is what `bread()` returns and `durable` what the log has committed: the last
operation to leave copies one to the other, and `Crash` falls back to `durable`,
which is what module `Log` shows of the log. An inode is its type, link count,
entries and blocks; `ic` is the copy in the inode cache (type and nlink, with
`valid`), `ref` the cache's count and `lock` the holder of the sleep lock. A process
walks a system call with `pc`, the references it holds in `ip` and `dp`, and the
inodes it is about to `iput()` in `put`. A step is what the code does under one sleep
lock; waiting for a second lock while holding one, and the window in `iput()`
between `releasesleep()` and `ref--`, are separate steps. The calls a process makes
are a set of records (`MCCalls`: creating, linking, opening, removing and changing
directory over `/d`, `/f` and `/d/f`, some of which must fail), and each process has
one open file. Bounds: `MaxCalls` calls altogether, 5 - 1 inodes, 3 cache slots,
3 blocks; all three may run out (`panic = "exhausted"`), which stops the run.
Of the assertions of `fs.c` and `sysfile.c` two are modelled, `ilock: no type` and
`unlink: nlink < 1`; the others are tests of arguments that hold by the shape of the
model (`ref < 1`) or of contents it does not have (`dirlink read`).
Abstracted: file contents, the order of entries, the block of an inode; a
directory does not outgrow its first block, so `dirlink()` needs none. The inode
cache is indexed by inode number instead of by slot: a slot is found by its
number as long as it has references, and what a slot without references holds
is never read (`iget()` sets `valid = 0`), so which slot an inode gets is not
observable; that there are `NINODE` is kept. `chdir()` sets `cwd` in the step before
`end_op()` instead of the one after: nobody else reads it, and nothing happens to
the new directory's reference in between.

### Vm

Frames are counted: an address space is the set of its parts that have a frame
(directory, kernel tables, user tables, user pages), so that a frame freed twice
or in use shows as one too many and a leak as one too few. Every `kalloc()` is a
step, and the only place where the processes meet; what a call frees it frees
in one step. `pc` is the loop a process is in (`setupkvm`, `copyuvm`, `allocuvm`,
`mappages`) and `job` the system call. `exec()` loads one segment and the stack.
Who is whose parent is left to `Proc`: any process may reap a ZOMBIE.

### Console

The ring and its indices, of range `IMod`; `consoleintr` holds `cons.lock` over any
number of keys (`Key`), prints the process list after releasing it, and
`consoleread` takes one character per step. The sleep is two steps, as in `Pipe`.
`fileread` and `filewrite` come with the inode locked (`ilk`), which the device gives up
first and takes again last. A ^D put back (`input.r--`) is the same step as its
taking, since `cons.lock` is not given up in between.

## Runs

| Run | Instance | Shows |
|---|---|---|
| `proc_safety` | 4 slots, 2 CPUs, fork, wait, sleep, faults and an exiting init, a tick counter that wraps at once | `OneCPUPerStack`, `StackAllocated`, `RunningIffOnCPU`, `SlotsSound` (`TypeOK`, `UniquePids`, `SlotOwnership`), `SchedPreconditions`, `SleeperHasReason`: no CPU shares or outlives a stack, the panics of `sched()` that are modelled do not fire, no timer wakeup is lost; `FamilySound` (`WaiterHasReason`, `ParentAlive`), for which a grandchild of init must be a ZOMBIE when its parent exits: four slots |
| `proc_liveness` | 2 slots, 1 CPU, kill, fair | `RunnableRuns`, `WaitReturns`, `KilledExits` |
| `log` | 3 processes, 2 blocks, 2 values, room for 2 operations, a crash at every disk write and during recovery, fair | `AtomicDiskSpec`, `CommitSound` (`CommitAlone`, `QuietIsDurable`), `CleanMatchesDisk`, `SleeperHasReason`, `WaitersProgress`, `CommitEnds` |
| `log_space` | 3 processes, 3 blocks, the proportions of `param.h` and `mkfs.c` | violation of `SpaceSuffices` (`NoPanic`, `LogFits`): see Findings |
| `pipe_fifo` | 2 readers, 2 writers, ring of 2, wrap at 4, calls of 0 to 3 bytes, kills and closes | `FifoSpec`, `SleeperHasReason`, `PipeSound` (`Lifetime`) |
| `pipe_liveness` | 1 reader, 2 writers, fair | `WriteEnds`, `EofReachesReaders` |
| `bcache` | 2 users, 2 buffers, 3 blocks, 1 pinned, fair | `BlockStoreSpec`, `CacheSound` (`OneBufferPerBlock`, `HeldIsWanted`), `RequestsSound` (`QueueHeadActive`, `SleeperHasReason`), `IoCompletes` (who waits for the disk gets its answer) |
| `fs` | 2 processes, 4 inodes, 3 cache slots, 3 blocks, 4 calls, crash anywhere | `RefCount` (ip->ref is the number of pointers at every step), `NoPanic` (neither `ilock: no type` nor `unlink: nlink < 1` fires), `Consistent` (what a crash leaves is a file system), `LookupNeverStuck`, `TypeOK` (link counts stay natural) |
| `fs_deadlock` | 2 processes, 2 calls on one name | violation of `NoDeadlock`: see Findings |
| `fs_orphan` | 1 process, 4 inodes, 6 calls on `/d` and `/d/d` | violation of `NoPanic`: see Findings |
| `vm` | 2 slots, 16 frames, pages of 2 units, tables of 2 entries | `NoneFreedInUse`, `OnlyCopyLeaks`, `SizeSound` (`MappedBelowSize`), `PanicsConfined` (`NoRemap`, `PanicOnlyWhenEmptied`) |
| `console` | 2 processes, ring of 3, wrap at 6, reads of 2 characters, a kill | `ImplementsTty`, `EofIsZeroBytes`, `RingSound` (`RingBounds`), `WaitSound` (`SleeperHasReason`, `InodeHolderRuns`) |

Bounds. Two CPUs and two sleepers or writers show every pairwise race of the
table lock; the third and fourth slot let a slot be reused while another process
holds a reference to it. `kill()` is left to `proc_liveness` and to the proofs, where it
is among the steps of every theorem. Two values make a mixture of old and new blocks visible, and
two blocks a transaction of two operations that is installed in part. A ring of 2 with calls of 3
bytes makes a single write sleep in the middle, and counters that wrap at twice
the ring size wrap in every few operations. Deadlock is checked for `Proc` and
`Log`; the pipe may stop when all ends are closed, and `Pipe` runs say so.
In `log` each operation writes two blocks less than it reserves, so that the log is
large enough (`RoomForAll`, below); `log_space` is about what happens otherwise.
Three blocks in two buffers make the cache recycle, and run out of buffers when
both are pinned or in use.
Four calls let a name be created, opened, removed and looked up again while
another process is in the middle of any of them, and two processes and two
inodes are what a lock cycle needs. With 16 frames two processes of up to 4
pages cannot both have all they ask for, so every allocation of fork, exec and
sbrk fails in some behaviour; pages of two units make sizes that end in a page
possible. A ring of 3 holds committed characters and an unfinished line at the
same time. `Fs` may stop (its bound on calls, or the deadlock of the finding,
which `LookupNeverStuck` delimits) and so may `Vm` after a panic; the console is
always ready for a key, and deadlock is checked.
Symmetry is used only without liveness properties: bytes of the pipe and processes
of the file system are only compared and copied.

Each property has a mutant in `PROJECT.json`, a plausible bug in the code it is
about, which TLC finds with the property.

### Fairness

`Proc`: a CPU goes on executing (its kernel steps, scheduler and interrupt
handlers are strongly fair, as a lock that others take in between is obtained in
the end), and the periodic timer is delivered where interrupts are enabled again
and again. User programs owe nothing. Strong fairness on locks is an assumption:
the `xchg` loop of `spinlock.c` gives no order; on one CPU, the instance checked, a
running process finds every lock free, because interrupts are off while one is
held. `Log`: an operation that has begun ends, a commit goes on, and a process
woken in `begin_op()` gets `log.lock` and tests again; beginning an operation is never
forced, and power may fail any number of times. Getting the lock is not getting
in: the wakeup is for all, the spin lock has no order, and newcomers can take the
room each time. So `WaitersProgress` says of the processes together that there are
again and again none waiting or one of them that begins; that a given
one gets in is not true of this code. `Bcache`: the disk finishes the
command it was given, its interrupt is taken, and a user woken in `iderw()` runs;
nobody has to ask for a buffer or to give one back. `Pipe`: calls
proceed and get `p->lock`; `WriteEnds` also assumes that the readers go on
reading, which is a condition on programs. With two writers one may starve while the other
refills the ring, so `WriteEnds` claims only that they do not all stall.

No liveness is claimed of `Fs`, `Vm` and `Console`: the first has the deadlock of
the finding, and a reader of the console waits for a person.

## Findings

`param.h:11` defines `LOGSIZE` as "max data blocks in on-disk log", and `begin_op()`
admits operations as long as their reservations fit `LOGSIZE`. `mkfs.c:25` makes a log
of `LOGSIZE` blocks of which the header is one, so there is room for one data block
less, and `log_write()` also panics at that limit (`log.c:218`) when the block is in
the header already. Three operations that all use up what was reserved for them
reach `panic("too big a transaction")` (run `log_space`). The system calls do not write
that much: with the sizes of the source `SpaceSufficesAlways` needs operations of at
most 8 blocks, and the largest, a `filewrite()`, writes 7.

`create()` puts the directory (`sysfile.c:281`) while it holds the lock of the new
inode, and `iput()` locks what it puts (`fs.c:335`); an `unlink()` of the same name
that has locked the directory in between waits for the inode, and both sleep for
ever (run `fs_deadlock`). The test suite asks for the contrary: "another concurrent
link/unlink/create test, to look for deadlocks" (`usertests.c:855`).

`sys_unlink()` of a directory takes the link that its `..` held on the parent
(`sysfile.c:222`), but the removed directory stays while it is somebody's current
directory, and its `..` still names the parent. If the parent is removed as well,
its inode is free, and a lookup of `..` stops the machine at the assertion
`panic("ilock: no type")` (`fs.c:311`; run `fs_orphan`).

### Known deviations

Behaviour of the code met while modelling, which the models contain and the
properties step around or except, without a run of its own:

1. `kill(0)` (or the pid kept by a slot whose fork failed) marks a free slot
   killed and the next process created there is born killed (`proc.c:492`).
2. `kill()` between the test of `killed` and `sleep()` in `piperead`, `pipewrite` and
   `consoleread` does not get the process out of its call (`pipe.c:107`,
   `console.c:282`).
3. A writer killed while the ring is full returns without waking the readers
   (`pipe.c:86`). `SleeperHasReason` of `Pipe` excepts the readers once any writer has
   been killed, which is wider than this case.
4. `iput()` decrements `ref` after it has released the sleep lock, so two processes
   dropping the last two references of an unlinked inode both see 2 and nobody
   frees it (`fs.c:338`). Likewise recovery does not free an inode that was open
   and unlinked at a crash. `Consistent` therefore allows allocated inodes
   without a link.
5. Creating in a current directory that was removed adds an entry to it, which is
   lost with it; `Links` counts such entries like others.
   `link(f, ".")` sleeps for ever in the lock it holds itself: `dirlink()` finds the
   name and puts the directory it has locked (`fs.c:560`). `LookupNeverStuck` states
   this exception.
6. `copyuvm()` loses the frame it has just allocated when `mappages()` fails
   (`vm.c:343`); `OnlyCopyLeaks` says that nothing else is lost.
7. `sbrk(-sz)` frees everything and keeps `p->sz`, since `growproc()` takes size 0 for
   a failure (`proc.c:175`); a later `fork()` panics. `MappedBelowSize` and
   `PanicOnlyWhenEmptied` state this exception.
8. A reader of the console that is killed after it has taken part of its input
   returns -1, and that part is lost (`console.c:277`).

## Proofs

A theorem holds for every value of the constants that satisfies the assumption of
the module (`ProcAssumption`, `LogAssumption` and so on; TLC evaluates them on each
run). Further hypotheses are named below. Each module follows one plan: an
invariant `IInv`, a conjunction of named parts, that TLC has checked on the run's
instance; a lemma for `Init`, one for each action (or group of actions that do the
same to the invariant) and one that collects them; the theorem, which draws the
property from `IInv`. A refinement uses `IInv` for the step simulation: every
action maps to an action of the abstract module or to a stutter.

**`ProcProofs`**: `OneCPUPerStackAlways`, `StackAllocatedAlways`,
`SchedPreconditionsAlways`, `RunningIffOnCPUAlways`, `SlotsSoundAlways`,
`FamilySoundAlways`, `SleeperHasReasonAlways`. `LockInv` says that a CPU holds
`ptable.lock` exactly while its scheduler scans or its thread is on its way
through `sched()`, which is what the hand-over of the lock amounts to; `IrqInv` and
`TickInv` that no handler runs on such a CPU and where `tickslock` is held; `CPUInv`
and `OffCPUInv` that what a CPU runs, `c->proc` and the states agree in both
directions; `ForkInv` and `BuilderInv` that an EMBRYO slot has one builder; `StackInv`
and `FreeInv` who has a stack; `PidInv` that pids in use are distinct and below
`nextpid`; `ParentInv` and `WaiterInv` that a parent outlives its child or hands it
to init, and that between `exit()`'s wakeup and its ZOMBIE state the lock is held;
`TickHolderInv` and `TickSleepInv` the same for `tickslock` and a sleeper on ticks.

**`LogProofs`**: `CommitSoundAlways`, `SleeperHasReasonAlways`,
`CleanMatchesDiskAlways`, `LogImplementsAtomicDisk`, and `SpaceSufficesAlways`, which
assumes `RoomForAll`: an operation writes less than `MAXOPBLOCKS` blocks, and
`LOGSIZE - (MAXOPBLOCKS - OpWrites) < NLOG - 1`. With `LOGSIZE = NLOG = 30` and
`MAXOPBLOCKS = 10` this is `OpWrites <= 8`. `ListInv` says that the list in memory names the dirty blocks
once each; `CopyInv` what has been copied to the log and to its home up to the loop
index of the phase the commit or the recovery is in; `DirtyInv` which buffers are
pinned, and `CleanMatchesDisk` itself which
buffers differ from the disk; `CommitInv` and `OpInv` who may be where; `SpaceInv`
counts the reservations of operations in progress against the list. The crash is
the interesting case of the refinement: depending on whether the header has been
written, the abstract disk keeps the committed or the written values.

**`BcacheProofs`**: `CacheSoundAlways`, `RequestsSoundAlways`,
`CacheImplementsBlockStore` (no read errors: `ReadErrors = {FALSE}`). `RefInv` counts
the users that refer to a buffer; `PlaceInv`, `LockInv` and `FlagInv` relate where a
user is to lock and flags; `QueueInv` says that the disk queue holds each request
once and whose; `DataInv` says where the current contents of a block are.

**`PipeProofs`**: `PipeSoundAlways`, `SleeperHasReasonAlways`, `PipeImplementsFifo`, for
every ring size and every multiple of it at which the counters wrap.
**`ConsoleProofs`**: `RingSoundAlways`, `WaitSoundAlways`, `EofIsZeroBytesAlways`,
`ConsoleImplementsTty`, likewise. Both rest on `WrapLemmas`: the distance of two
wrapped counters, and that positions less than a ring apart have different
indices.

**`VmProofs`**: `SizeSoundAlways`, `PanicsConfinedAlways`, `OnlyCopyLeaksAlways`,
`NoneFreedInUseAlways`. `JobInv` relates the loop a process is in to its system call;
`AddrInv` and `PagesInv` say which pages each loop has mapped at its current address;
the last two theorems count frames as cardinalities of disjoint sets.

**`FsProofs`**: `RefCountAlways`. `RowInv` says for each location which of `ip` and `dp`
a call has, what it is about to put and which calls come there; `RefCount` is then
inductive. The pointers of all processes are one table (`Table`), of which a step
changes the row of one process; `MoveStep` reduces an action to the change of `ref`
by the difference of the row.

`FsAlways`, and from it `NoPanicAlways`, `ConsistentAlways`, `FsTypeCorrect` and
`LookupAlwaysFree`, say the rest, for any finite set of names, any calls and a
crash at any moment. `NoPanic` is false of a call that follows the `..` of a
removed directory whose parent is gone (run `fs_orphan`), and what such a call
finds may also be a directory in the making, whose link count `create()` then
overwrites. So these theorems have the hypothesis `[]ParentsKept`: a process that
is about to look `..` up does so in a directory that has a name or is directly below
the root. `ParentsAlwaysKept` discharges it for paths without `..`, and
`DownwardSafe` states the four properties for those without hypothesis. The instance
`MCFs`, which does use `..`, satisfies it too, and all parts of the invariant below (TLC, on
its 510,914 states).

None of the properties is inductive. `FsInvariant` has these parts (`FsInv`):

- `Cached`, `Locks`: a valid copy is that of the disk, and the holder of a lock is the
  process whose location says so. Without it what was read under a lock would
  not be known to hold still.
- `CallsSound`: every pointer is to an inode in use (`LiveP`, which is why `ilock()`
  finds a type); the inode `ialloc()` has just written is nobody else's (`NewP`); `dp`
  is a directory, the inode `link()` counts is none; what `unlink()` and `create()`
  found under the lock of the directory is still so.
- `Counts`: the link count of an inode covers its names, its subdirectories and the
  calls that have counted a link and not yet written it or the other way round.
  This is what makes `iput()`'s test `nlink == 0` safe: nothing names the inode it
  frees.
- `Tree`: free inodes are empty, only directories have entries, the `..` of a directory
  with a name is where it has the name, no directory is below itself
  (`NoCycle`), and blocks have one owner. It holds of `disk` with the directories in
  the making excepted, and of `durable` without exception (`Durable`): a commit comes
  when no call is under way. `Consistent` is a part of `Durable`.
- `Control`, `Copies`, `Thens`: the other variables, link counts in copies no longer
  valid, and where a call goes on after `iput()`.

A step that leaves the disk alone preserves the disk's part by the pointers it
drops or copies; one that writes is described by the few fields it changes
(`LEMMA WriteInv` and those before it), so that each write owes one argument on
counts and one on the tree. `LookupNeverStuck` follows without another induction:
each process in a deadlock, unless one of the named exceptions, holds a directory
and waits for an entry of it, and a circle of those contradicts `NoCycle`.

Only model-checked:

- liveness (`RunnableRuns`, `WaitReturns`, `KilledExits`, `WaitersProgress`, `CommitEnds`,
  `IoCompletes`, `WriteEnds`, `EofReachesReaders`), which is out of the prover's reach.

Every invariant, action property and refinement of a passing run is proved; the runs
show each of them on a small instance, where a mutant of the code breaks it.

## Not modelled

- The network: the protocol handlers are reached from `i8254_recv()` only, and its
  one call (`main.c:46`) is commented out in this build. What remains is
  `arp_scan()`, which sends 256 requests at boot; whether its ring overflows
  (`i8254.c:218`) depends on the device, which is not in the source.
- The file table (`filealloc`, `filedup`, `fdalloc`) and the failure paths of
  `pipealloc`; `readi`, `stati` and file contents; `argptr` and its kin, which are
  range checks without state; `loaduvm`, `copyout`, permission bits.
- Spin locks below mutual exclusion (`xchg`, memory order); the start of the other
  CPUs, interrupt controllers, PCI: register access in straight lines.
- Fonts, pixels and output formatting; user programs and `umalloc.c`; the UEFI
  loader; EDK2 (third party).

## Plan

File table and descriptors (`file.c`), with `pipealloc`'s failure paths, composed
with `Pipe`.
