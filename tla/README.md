# TLA+ models of the os-lesson kernel

This directory specifies the kernel in `kernel/src`, a Rust re-implementation
of xv6 for RISC-V with several CPUs. It holds one TLA+ module per component,
TLC configurations that check them on small instances, and TLAPS proofs for
every instance about the log, the processes, the disk driver, the block cache,
the inode cache, file contents, the pipe and the console. `PROJECT.json` lists
the components, runs, mutants, hazards and theorems, and says for every
definition which lines of the code it models.

    tlc -workers 2 -config LogCrash.cfg MCLog     # one run
    tlapm LogProofs.tla                           # the proofs

The build modelled is the one of the Makefile, `cargo build` in the dev
profile: `debug_assert!` is compiled in and integer overflow panics. Where the
code mixes two names of one variable and would not compile as it stands
(`p`/`process` and `pd`/`pdata` in `trap.rs` and `process/`), the model takes
the meaning that the surrounding code fixes.

## 1. Inventory

| Component | Code | State | Operations | Shared with |
|---|---|---|---|---|
| Write-ahead log | `fs/log.rs` | header in memory and on disk, log area, `outstanding`, `committing` | `begin_op`, `write`, `end_op`, `commit`, `recover` | block cache, `sleep`/`wakeup` |
| Process table, scheduler | `process/mod.rs`, `cpu.rs`, `proc/` | state, channel, pid, killed, parent map, ready queue, PID allocator | `scheduler`, `sched`, `yielding`, `sleep`, `wakeup`, `fork`, `exiting`, `waiting`, `kill` | everybody who sleeps |
| Traps, clock | `trap.rs`, `start.rs` | `TICKS` | `user_trap`, `kernel_trap`, `clock_intr`, `clock_sleep` | scheduler, spin locks |
| Virtio disk | `driver/virtio_disk.rs` | descriptors, rings, per-request info | `rw`, `alloc3_desc`, `free_chain`, `intr` | the device, the block cache, `sleep`/`wakeup` |
| Block cache, sleep locks | `fs/bio.rs`, `sleeplock.rs` | LRU list, block number, reference count, valid bit, data, lock owner | `bget`, `bread`, `bwrite`, `pin`, `unpin`, release; `lock`, `unlock` | log, disk |
| Pipes | `fs/file/pipe.rs` | ring buffer, counters, open ends | `create`, `read`, `write`, `close`, drop | `sleep`/`wakeup`, `kill` |
| Inodes, directories | `fs/inode.rs` | inode cache, reference and link counts, sleep locks, on-disk inodes, entries | `get`, `dup`, `put`, `lock`, `namex`, `create`, `dir_link`, `dir_unlink`, `truncate` | log, block cache, processes' `cwd` |
| File contents, bitmap | `fs/inode.rs`, `fs/block.rs` | block map, bitmap, block contents | `map_blockno`, `bm_alloc`, `bm_free`, `iread`, `try_iwrite`, `update` | log, block cache |
| Files, system calls | `fs/file/mod.rs`, `process/proc/syscall.rs` | open files, shared offsets, descriptor tables | `open`, `read`, `write`, `dup`, `close`, `link`, `unlink`, `mkdir`, `pipe`, `exec`, ... | all of the above |
| Buddy allocator | `mm/kalloc.rs`, `mm/list.rs` | free lists, split and allocation bits | `init`, `alloc`, `dealloc` | page tables, kernel heap |
| User memory, ELF loader | `mm/pagetable.rs`, `process/proc/elf.rs` | page tables, user pages, trap frames, kernel stacks | `uvm_alloc`, `uvm_dealloc`, `uvm_copy`, `load`, page fault, `copy_in`, `copy_out` | buddy allocator, processes |
| Console, UART | `driver/console.rs`, `driver/uart.rs` | input line buffer, transmit ring | `read`, `write`, `intr`, `putc`, `transmit` | `sleep`/`wakeup`, the device |
| Spin locks, interrupt state | `spinlock.rs`, `process/cpu.rs` | lock word, owner, `noff`, `intena` | `acquire`, `release`, `push_off`, `pop_off`, `sched` | everybody |

What makes each component correct:

- **Log**: after a crash at any block write the disk holds every operation of
  the last committed transaction and none of a later one; the log area never
  overflows; who waits to be admitted is admitted.
- **Processes**: a process runs on one CPU at a time; a runnable process is
  queued exactly once; `wait` misses no exit; a process slot is reused only
  when its kernel stack is idle; no two live processes have one pid.
- **Disk**: a descriptor belongs to one request; every completion reaches the
  request it is for; no interrupt is lost.
- **Block cache**: a block is in one buffer; a holder sees the last contents;
  a block recorded in the log stays cached.
- **Pipe**: bytes arrive in order, once; nobody sleeps on a pipe that is ready.
- **Inodes**: link counts are the number of names; reference counts the number
  of handles; a cached inode is the one on disk; what nothing reaches is freed;
  the locks of a path never form a cycle.
- **Files**: a block belongs to one place of one file; the block map holds the
  bytes written, at any crash point too; sharers of an offset do not read or
  write the same bytes twice; an operation fits its reservation in the log.
- **Memory**: every block of the heap is free or referred to exactly once, on
  the error paths too; none is freed twice.
- **Console**: a committed line is read once and in order while the next is
  edited; output leaves in order; writers do not sleep on an empty ring.
- **Spin locks**: a lock has one holder; interrupts stay off while it is held
  and while a handler runs; no panic of the lock code.

The hard behaviours are: interleaving of processes on several CPUs with
interrupt handlers; sleep and wakeup, where a wakeup may come between the test
of a condition and the sleep; locks that are held across a context switch; a
crash between two block writes; a device that works without any lock and
completes requests in any order; counters that wrap; resources (log space,
descriptors, buffers, pipe space, inodes, disk blocks, memory) that run out in
the middle of an operation; guards and handles dropped in an order that only
Rust's scoping rules fix; user copies that fail half-way; `kill`, which changes
processes without the locks of what they are doing. `PROJECT.json` lists them
as hazards, each at its line.

## 2. Modules

| Module | Models | Extends / instantiates |
|---|---|---|
| `AtomicDisk` | what the log promises (abstract) | |
| `Log` | `fs/log.rs`, with crashes | instantiates `AtomicDisk` |
| `Proc` | processes, scheduling, clock | |
| `SpinLock` | spin locks and interrupt state under traps and switches | |
| `VirtioDisk` | the driver and the device | |
| `BufCache` | block cache and sleep locks | |
| `Inodes` | inode cache, directories, path system calls | |
| `FileData` | file contents, bitmap, descriptors and offsets | |
| `Pipe` | pipes | |
| `Buddy` | the buddy allocator, as operators | |
| `UserMem` | memory of processes: `fork`, `exec`, `sbrk`, faults, exit | extends `Buddy` |
| `Console` | console and UART | |
| `LogProofs`, `ProcProofs`, `VirtioDiskProofs`, `BufCacheProofs`, `InodesProofs`, `FileDataProofs`, `PipeProofs`, `ConsoleProofs` | theorems about the module of that name (section 4) | extend it |
| `MC*` | instances for TLC: symmetry sets, trees, menus | extend the module of that name |

The modules meet at interfaces, not in one big product. `FileData` checks
(`OpFits`) the bound on blocks per operation that `Log` takes as its constant
`OpBlocks`; `Log` provides the atomicity that lets `FileData` compare inodes in
memory and on disk only between operations; `Proc` provides the atomicity of
`sleep` that the pipe, the disk, the cache and the console rely on; `SpinLock`
that of a critical section; `Buddy` runs inside `UserMem`.

A definition whose comment begins with "Fault:" is a plausible bug. It is not
part of a specification; it replaces the definition after it when the checks
are themselves tested.

### Conventions

A critical section of a spin lock is one step. A lock is a variable only where
it is held from one step to the next: `excl` across a context switch, the
parent map through `exiting` and `waiting`, `TICKS`, `DISK` during `intr`, the
pipe lock between two bytes of a write, the console lock while a reader copies
or the handler echoes, and the sleep locks of buffers and inodes.
`sleep` gives up the lock and sleeps in one step wherever the code passes the
guard to `Process::sleep`, which locks `excl` before it drops the guard;
`wakeup` needs `excl`, so it cannot come in between. `Proc` and `SpinLock`
model that protocol in its own steps, since there the locks matter.
A `panic!` or failed assertion is a value of `panicked`; the states after it
are kept, to be found by an invariant.

Where the code has a bug that a property would trip over (section 5), the run
reaches it, and a history variable records the step at which it strikes:
`misfreed` in `VirtioDisk`, `torn` in `BufCache`, `slips` and `late` in
`Inodes`, `stuck` in `Log` and `Pipe`, where it is also state. The property is
stated until that step, or up to what that step explains. It then says two
things: all is well as long as the bug has not struck, and there is no other
way for things to go wrong.

**Lines.** The line ranges of `PROJECT.json` are code: the documentation
comment before a function is not part of them. All functions of the modelled
components that change state are mapped. They are about a fifth of all lines of
Rust in the repository (4306 of 22166): half of the kernel's own 14900 lines
are documentation comments, and another 7200 lines are vendored crates and user
libraries. Of the kernel's lines that are neither blank nor comment, 47 % are
mapped; the others are mostly register accessors, address conversions,
constructors, boot code and unused code (section 6).

### Log

`home`, `logblk` and `dhead` are the disk, and everything else is lost in a
crash. `cache[b]` is what `bread(b)` returns and `pins[b]` counts the log's
`pin`s of it. `BeginOp`, `Write`, `EndOp` and `FinishCommit` are the locked
sections of the interface. `commit` runs unlocked, one step per block written:
`WriteLog` and `Install` for each block, `WriteHead` (the commit point) and
`EmptyHead`. `Recycle` is the cache dropping an unpinned buffer. `Crash` may
happen in every state, also during recovery, which is `ReadHead`,
`RecoverInstall` per block and `RecoverEmpty`. One block is written atomically.
The modification of a locked buffer and the `LOG.write` that follows are one
step: the sleep lock keeps others from seeing the buffer in between.
`Kill` strikes a process that may be asleep, in `begin_op`, inside an operation
(in `bread` or a sleep lock) or in a commit: it never runs again and goes to
`stuck`. `Log` takes `pin` to be atomic. `BufCache` does not, and shows that the code
does not guarantee it (section 5).

`AtomicDisk` knows two versions of the disk, `mem` and `stable`. Operations
change `mem`; `stable` becomes `mem` at once and only when no operation is
active; a crash falls back to `stable`. The refinement mapping takes `stable`
to be what `recover` would compute from the disk (`Recovered`) and `mem` to be
the cache.

### Proc

`cpu[c].at` follows `scheduler`: idle, fetched (taken from `PROCFIFO`, `excl`
not yet locked), resume, run, switch (back on the scheduler's stack, `excl`
still held). `kpc[p]` is the place of process `p` in `fork`, `exiting`,
`waiting` or `clock_sleep`; each value is between two critical sections of that
function. `yielding` puts the process into the queue while it still runs, as
the code does. `ClockWake` is one step per slot of `wakeup(&TICKS)`, since
`wakeup` locks one process at a time. `Kill` is the whole of `kill` for the
slot with that pid. `Preemptible` says where a process holds no lock, so that
a timer interrupt may call `yielding`.

### SpinLock

`todo[x]` is the rest of the program of a context (a process, or the scheduler
of a CPU) as a sequence of small operations: `push_off`, spin, release, sched,
restore of `intena`, and so on. A call such as `sleep` or `yielding` is put
together from them in the order of the code, and an interrupt puts
`kerneltrap` in front of what the context was about to do. `saved` holds the
locals of `sched` that survive the switch: the `Cpu` it ran on and its
`intena`. `TICKS` stands for every lock that calls and handlers share.

### VirtioDisk

`Rw` is `rw` up to its first sleep, for descriptors or for the completion,
`RwDone` what it does after waking. `IntrAck`, `IntrStep` and `IntrEnd` are the
handler, which holds `DISK` throughout. `DevTake` and `DevComplete` are the
device, modelled from how the driver uses the rings; it moves whenever it
likes, also between the acknowledgement of an interrupt and the loop. A request
is transferred only if its header and its data descriptor belong to the same
process, so a mix-up shows. `Undone` is what `alloc3_desc` really frees when it
fails: descriptors `0 .. n-1`, whichever it had taken. `misfreed` records that
one of them was in use, or one that it had taken was not given back.

### BufCache

`Bget` is the lookup under `ctrl`, cached or recycled, `Lock` the sleep lock
that follows, `BreadIo` the read of an invalid buffer. `LogWrite` and
`PinStore` are the two halves of `pin`: the count is read and then written
without a lock, and the same holds for `Install` and `UnpinStore`. `Unlock` and
`Brelse` are the two parts of the drop of a `Buf`, sleep lock first. `last` is
a history variable: the contents given to each block most recently. `torn`
records that a store has overwritten a count that changed since its load
(`Overwrites`). `Reach` says which blocks a process uses.

### Inodes

The spin lock of `ICACHE.meta` makes `get`, `dup` and each locked part of `put`
one step; `put` of the last handle of an unlinked inode is three (`Put`,
`PutTruncate`, `PutDeref`), with the cache unlocked in between, as in the code.
`NamexStart`, `NamexLook` and `NamexEnd` walk a path one locked directory at a
time. `CreateLook`, `InodeAlloc`, `CreateGet` and `CreateFill` are `create`;
`DirUnlinkLook` and `DirUnlink` the two lock regions of `dir_unlink`;
`LinkOld`, `LinkNew` and `RevertLink` those of `sys_link`. What goes out of
scope is put into `drops[p]` in Rust's order (guards, handles, and `end_op`
where the code calls it) and dropped one per step, so that an order that
matters is seen. Directory entries keep their order and their slots; file
contents are in `FileData`. `Remember` writes the history: `slips` has "reuse"
once `inode_alloc` has taken an inode whose `put` is not over, and "haunt" once
a process has made an entry in a directory without links or followed its `..`
to one; `late` has the processes that ended their operation with a handle left
to drop.

### FileData

A write is `SysWrite`, then for each batch of `fwrite` a `WriteLock` (`begin_op`
and the inode's lock), one `WriteBlock` per block with `MapIndirect` before it
where the indirect block is missing, and `WriteEnd` (`update`, offset, unlock,
`end_op`). `wset` collects what is handed to `LOG.write`. `inode` is the inode
in memory and `dinode` what `update` wrote. User copies may fail after any
byte; a byte so torn is marked in the ghost `flat`, the plain array that a file
is compared with. A byte is named by its write call and index.

### Pipe

Bytes are numbered in the order they are put in, so order and loss are visible
as numbers. `SysPipe` and `Create` make it, with the allocations that can fail.
`read` is one step between sleeps and `write` one step per byte, as
`write` looks at `killed` for each. User copies may fail after any byte.
`CloseRead` and `CloseWrite` are the drop of the last `File` of an end. `Kill`
does not queue a sleeper, so the sleeper moves to `stuck`.

### Buddy and UserMem

`Buddy` has the three things the code keeps per size class, the alloc bits,
the split bits and the free list in order, and writes the loops of `init`,
`alloc` and `dealloc` as functions over the classes. `Sound` says that free
blocks and given live blocks are disjoint and together all of the memory, and
that the bits and lists agree.

`UserMem` records for each process the frames it refers to: trap frames, the
shared page, the page table's own frames, user pages, kernel stack, and the
argument box that `sys_exec` fills. `build[p]` is the space a call has under
construction. Each allocation is a step that may fail when the heap is
exhausted; `Others` are numbers of frames that the rest of the system holds, so
that failure strikes at every one of the allocations. The tables of a process
are a root, one path to the top of the address space and one lowest table for
user memory. A page fault is `PageFault`, the allocation of the page, and
`FaultMap`, the `map_pages` after it, which may have to allocate a table.
`lost` names the blocks that the code loses on the paths of section 5;
`HeapSound` accounts for every other one.

### Console

`Receive` is one key of `console::intr` under the console lock with its line
editing, Ctrl-P and its panic included, `Echo` one character of its echo, which waits for the device;
`Transmit` is the transmit half of the UART interrupt. `ReadChar`, `ReadSleep`
and `ReadKilled` are the loop of `read`; `Putc` and `PutcSleep` that of `putc`.
`Kill` strikes readers and writers; one that sleeps is stuck.
The ghosts `line` and `input` are the line being edited and what was committed
but not read; `owed` what `putc` took and the device has not sent. The device
(`Type`, `Drain`, `Interrupt`) is external.

## 3. Runs

| Run | Instance | Shows |
|---|---|---|
| `log_crash` | 2 processes, 3 blocks, 2 values, crashes anywhere | `LogInv`, the inductive invariant; `ImplementsAtomicDisk` |
| `log_admission` | 3 processes, 5 blocks, fair, any of them killed | `NoPanic` for operations below their reservation; `NoLostWakeup`; sleepers of `begin_op` are woken unless a killed process keeps an operation, a commit or a lock (`SleeperIsWoken`) |
| `proc_core` | 2 CPUs, 3 slots, one process kills | `ExclusiveRun`: one CPU per process, and an unused slot has an idle stack; `ReadyOnce`: runnable is queued once; `NoLostChild`; `AssertsHold`; `PidsOfLive`: a pid is of one live process or waits to be recycled |
| `proc_fair` | 1 CPU, 3 slots, fair | `QueuedRuns`: a queued process runs |
| `spin_share` | 2 CPUs, 2 processes, traps that do not nest | `LocksExclude`; `NoPanic` of acquire, release, `pop_off` and `sched`; `HandlerStaysOff` |
| `disk_share` | 3 processes, 7 descriptors, 8 requests | until `misfreed`: `DescriptorsOwned` and no panic, `DoneIsTransferred`, `NoLostWakeup` (its part about descriptors always) |
| `buf_share` | 2 processes, 2 buffers, 3 blocks, one of them logged by both | until `torn`: `HolderSeesLatest` and one buffer per block, `PinnedStays` with exact counts; `NoLostWakeup` |
| `inode_tree` | 2 processes, 4 cache slots, 4 inodes, `/a` and `/d`; seven menus of calls | `LinksCounted`, `RefsCounted`, `CachedIsCurrent`, `NoOrphan`, `NoLockCycle`, `NoPanic` |
| `file_share` | 2 processes sharing a `File`, 2 files of up to 3 blocks of 2 bytes on a disk of 5, 2 writes, 1 read, 1 open | `BlocksOwnedOnce`, `CrashImage`, `ContentIsFlat`, `OffsetShared`, `OpFits` |
| `pipe_kill` | 1 reader, 2 writers, fair, two of them killed, 2 cells and counters modulo 5 | `BytesInOrder` but next to a wrap, `NoLostWakeup`, `CloseEndsCalls` |
| `user_memory` | 2 slots, heap of 31 units, pages of 2, 3 calls, 1 other kernel object | `HeapSound`; `FreesOnce`: the one page freed that is none is that of a fault without memory |
| `console` | 1 reader, 2 writers, all killed at any time, rings of 2, 4 events, fair | `InputKept`, `NoLostWakeup`, `OutputInOrder`; `WritesFinish` unless the writer was killed asleep or Ctrl-P has panicked |

### Bounds, and why they are enough

- **Log.** `LOGSIZE = 6` and `MAXOPBLOCKS = 2` keep the code's proportion
  `LOGSIZE = 3 * MAXOPBLOCKS`, so that two operations are admitted at a time
  and a third waits. Two blocks per transaction give every crash point: before,
  between and after the copies of each loop. Two values tell an old block from
  a new one. The proofs remove the bounds for safety; for
  `SleeperIsWoken` the third process and the fifth block are what it takes to
  reach the limit of the log. In `log_admission` an operation writes at most
  `MAXOPBLOCKS - 1` blocks, which `OpFits` shows of `fwrite`; with all of them
  `NoPanic` is false (section 5).
- **Proc.** Three slots are init, a parent and a child, which is what
  reparenting and orphans need. Two CPUs suffice for every race of two.
  `MaxPid` bounds fresh pids; recycled ones come back without limit. One
  killer, slot 1, kills any process with a pid from 1. `kill(0)` is left out: it
  marks init, whose exit is a deliberate panic of `exiting`.
- **SpinLock.** Two CPUs and two processes give migration in both directions.
  `MaxDepth = 1`: handlers run with interrupts off, so that a second trap
  within a handler is only possible after the migration of section 5.
- **Disk.** 7 descriptors hold two requests; a third process takes the one that
  is left, fails, and runs the error path of section 5. The code's 8 leave two,
  which differs in how many descriptors that path frees. `IdxMod = 9` stands for
  2^16: the rings are reused, and the index overflows after eight requests.
- **BufCache.** Two buffers for three blocks force eviction, and can all be held
  or pinned at once, so that `bget` panics as it may with the code's
  `NBUF = LOGSIZE`. Both processes log and install the same block, so that the
  halves of `pin` and `unpin` interleave. `MaxRef` stops a count that lost
  updates make grow without end.
- **Inodes.** Four slots and four inodes: the root, `/a`, `/d` and one more.
  Two processes give every race of two handles of one inode. The paths have at
  most two names, which is a walk that holds one lock while it gets the next.
  A behaviour draws its calls from one menu. In three of them names are made and
  removed under open files, or the calls fail; in `Reusing` inodes are freed and
  allocated at the same time; a directory goes away under a process that makes
  an entry in it (`Haunting`), under a `link` (`Linking`), and with its parent
  under a process that follows `..` (`Climbing`). All of them in one menu would
  be out of TLC's reach. `Names` are the names of the tree and of the menus, `.`,
  `..` and the empty name of an erased entry. A link count is an unbounded
  integer: the 65535 links at which the code's `u16` ends are out of reach.
- **FileData.** One direct and two indirect blocks are the three cases of
  `map_blockno`. Writes of one and four bytes give aligned, unaligned and
  boundary-crossing batches, several batches per call, and one past the largest
  size. `MAXOPBLOCKS = 6` makes `fwrite`'s batch one block, the smallest
  possible, and `OpFits` tightest. Five blocks hold one file with its indirect
  block and part of another: the disk runs full in the middle of a write.
- **Pipe.** A buffer of two and counters modulo 5 wrap within a call, and the
  length does not divide the modulus, as in the code (454 and 2^32). `MaxBytes` bounds where the last write begins.
- **UserMem.** 31 units and one of metadata are a heap whose ends are ragged in
  every class, and memory for one process and most of a second: with 0, 8 or 10
  frames held elsewhere, every allocation of `fork` and `exec` fails in some
  behaviour. `End` is below the next power of two, as in the code's memory; at
  an exact power `init` would mark one block beyond the bitmap.
- **Console.** Rings of two fill after two characters and wrap after that. Four
  events suffice for a line, an erase, an end of file, a panic and a write while
  another writer sleeps. The device counts what it has received; which key it
  was is chosen when the handler reads it. The rings are powers of two, as in the code.

`CHECK_DEADLOCK FALSE` is set for the disk, the cache, the inodes, the files,
the pipe, user memory and the console: there the kernel may have panicked,
nobody need call, or every call allowed by the bounds has been made.
The log, the processes and the spin locks never stop: a crash is always
possible, and a CPU with nothing to do still takes clock interrupts.

### Fairness

- **Log** (weak): a process inside an operation that was not killed ends it, a
  woken process runs again, recovery goes on, and so does commit unless the
  process that commits was killed. The ready queue is first in, first out, and
  the disk answers. Nobody has to begin an operation, and a crash may always
  interrupt.
- **Proc**: every CPU's scheduler and every process inside a system call go on
  (weak). A timer interrupt that arrives while interrupts are off stays
  pending, so a process that is preemptible again and again is preempted
  (strong fairness of `Yield`). A killed process exits at its next trap.
- **Pipe** (strong): the pipe's lock is contended, and a process inside a call
  gets it in the end. The spin lock alone does not promise this; with a finite
  number of CPUs and critical sections as short as these it is the usual
  assumption. A process made `stuck` by `kill` is exempt.
- **Console** (weak): the device drains what it was given, an interrupt that is
  raised is taken, the handler goes on until it panics, and a process that is
  neither asleep nor stuck runs.
  Nobody has to type or to call.

## 4. Proofs

Every theorem holds for all values of the constants that satisfy the module's
named assumption. The assumptions are what the code fixes: `0 < MAXOPBLOCKS <
LOGSIZE`, `MAXOPBLOCKS >= 6` for `fwrite`, rings and tables of at least one
place, at least three descriptors, counters with more values than the pipe has
cells, and finitely many processes where something is counted per process (at
most `NPROC`, in `Log`, `BufCache` and `Inodes`). Blocks, values, keys, CPUs,
names, readers and writers are arbitrary sets. In `Inodes` the trees to start
from are arbitrary, too, as long as no inode is in use without a link
(`TreesAssumption`; nothing would ever free it), and so are the menus, as long
as they consist of the system calls the module models (`MenusAssumption`): the
proofs let every process make any call with any path. Each module proves one
inductive invariant (or a few) action by action and derives the theorems from
it.

| Theorem | States |
|---|---|
| `LogInvariant`, `LogTypeCorrect` | `Spec => []LogInv`, `Spec => []TypeOK` |
| `LogImplementsAtomicDisk` | `Spec => ImplementsAtomicDisk` |
| `LogNoLostWakeup` | `Spec => []NoLostWakeup` |
| `LogNoPanic` | `Modest /\ Spec => []NoPanic` |
| `ProcInvariant`, `ProcTypeCorrect` | `Spec => []ProcInv`, `Spec => []TypeOK` |
| `ProcExclusiveRun`, `ProcReadyOnce`, `ProcNoLostChild`, `ProcAssertsHold`, `ProcPidsOfLive` | `Spec => []P` for the property of that name |
| `BufTypeCorrect`, `BufNoLostWakeup` | `Spec => []TypeOK`, `Spec => []NoLostWakeup` |
| `BufInvariant` | `Spec => [](~torn => BufInv)` |
| `BufHolderSeesLatest`, `BufPinnedStays` | `Spec => []P`; `P` is stated until `torn` |
| `DiskTypeCorrect` | `Spec => []TypeOK` |
| `DiskInvariant` | `Spec => [](~misfreed => DiskInv)` |
| `DiskDescriptorsOwned`, `DiskDoneIsTransferred`, `DiskNoLostWakeup` | `Spec => []P`; `P` is stated until `misfreed` |
| `CountCorrect`, `InodesTypes` | `Spec => [](CountInv /\ QueueInv)`, `Spec => []TypeOK` |
| `RefsExact` | `Spec => []RefsCounted` |
| `PutNeverBlocks`, `OneSlotEach`, `GuardsExact` | `Spec => []P` for `PutNeverWaits`, `OneSlot`, `LockInv` |
| `CachedCurrent`, `OrphansHeld` | `Spec => []P` for `CachedIsCurrent`, `NoOrphan`, which are stated until a panic or a "reuse" |
| `FileOffsetShared`, `FileCrashImage` | `Spec => []P` |
| `FilePanicsOnlyFull` | `Spec => [](panicked => Full)` |
| `FileBlocksOwned`, `FileOpFits`, `FileContent` | `Spec => []P`; `P` is stated until a panic, and `FileContent` says that a full disk is the only one |
| `FileNoHole` | `Spec => [](~panicked => NoHole)` |
| `PipeTypeCorrect`, `PipeNoLostWakeup` | `Spec => []P` |
| `PipeBytesInOrder` | `Spec => []BytesInOrder`, which leaves out the bytes next to a wrap |
| `ConsoleInputKept`, `ConsoleNoLostWakeup` | `Spec => []P` |

No theorem has a hypothesis but `LogNoPanic`: `Modest` says that an operation
writes fewer than `MAXOPBLOCKS` blocks (**A full operation** in section 5), which
`FileOpFits` proves of `fwrite`, and that the log area of the disk is as large as
`LOGSIZE`. The processes, menus, sizes and numbers of resources are never such
that a bug of section 5 could not strike. What the properties leave out is said
in their statement and is one step of the code each:

- `torn`: a `pin` or `unpin` stores a count that was changed since its load
  (**Pin**).
- `misfreed`: a call of `alloc3_desc` finds one or two free descriptors and its
  error path does not give back these (**Partial allocation**).
- "reuse": `inode_alloc` takes an inode that a `put` has freed and whose slot
  that `put` has not given up yet (**Reuse of an inode slot**).
- `FarFromWrap`: the byte lies within `PIPESIZE` of a wrap of the counters, and
  `PIPESIZE` does not divide their modulus (**Wrap**).

### Log

That the disk recovers to a committed state is not inductive
by itself. It must be known how far each loop has come (`StageInv`: the first
`idx - 1` blocks are copied or installed), that the header on disk is empty or
equal to the header in memory, that no operation runs during commit
(`OpsInv`: `outstanding` is the number of processes inside, and is 0 unless the
stage is idle), and that a block not in the header is clean while a logged
block is pinned until it is installed (`CacheInv`). The last part is what
makes `Recycle` harmless. `LogInv` is their conjunction with `TypeOK` and the
distinctness of headers, which absorption in `write` maintains and without
which "the log slot of block b" would be ambiguous.

The refinement is `InitRefines` and `NextRefines`, step by step under
`LogInv`: `WriteHead` is `AFlush` (the slots hold the cache, so what recovery
computes jumps from `home` to `cache`), `Crash` is `ACrash`, `FinishCommit` is
`ADone`, and the steps of `Install`, `EmptyHead`, recovery and `Recycle`
stutter. The lemmas `Recovered...` say that copying a logged block home or
clearing the header of an installed log does not change what recovery computes.

No lost wakeup needs one more fact, `WakeupInv`: an idle log without
operations is empty, so that with `MAXOPBLOCKS < LOGSIZE` nobody has reason to
sleep.

`NoPanic` is about a sum: each open operation has `MAXOPBLOCKS` less what it
has written still to its credit. The proof needs no sum. `Reserved` is the set
of pairs of an open operation and the number of a place it has not used, and
`ReserveInv` says that its cardinality and the length of the header together
stay below `LOGSIZE`. A write that records a block takes one pair out, one that
is absorbed takes at most one out, and `begin_op` admits an operation only if a
full set of pairs for everybody fits.

### Proc

`ProcInv` says for each place of a CPU's loop what the process it has is
(`CpuInv`), that a kernel stack is in use by one CPU (`StackInv`), that `fork`
has its child to itself until it is queued (`ForkInv`), where a process is that
holds the parent map (`KernelInv`), who has a parent (`ParentInv`), what a
sleeper in `waiting` may rely on (`WaitInv`: children and no zombie, or
somebody in `exit_init` about to wake it) and that a pid is in use once or is
recycled (`PidInv`). `ExclusiveRun` follows from who is queued: `yielding`
queues a process that still runs, so it is `excl`, and no state, that keeps the
next CPU from its stack. The pids matter since `pid_dealloc` asserts that the
pid is in use, and a pid in the recycle list and in the table would be given
twice.

### BufCache

`BufInv`: the reference count is the number of `Buf`s plus one for a recorded
block (`CountInv`), one buffer per block, whoever is past `lock` owns the sleep
lock, a buffer that is referred to keeps its block, a valid buffer has the
latest contents, and what the disk does not have is recorded or about to be
(`DataInv`). Exact counts are what makes recycling safe, and recycling is what
could make counts refer to another block, so neither part is inductive alone.
`bget` panics only with every buffer in use: it looks at all of the list. A
load of a `pin` remembers the count, and until `torn` the store finds it
unchanged. The wakeups and the types need none of this and hold for ever.

### VirtioDisk

`DiskInv`: each submitted request has a chain of three descriptors of its own
and what is in no chain is free (`ChainInv`), entries of the available ring and
requests with the device are submitted and not transferred (`AvailInv`),
entries of the used ring are transferred and conversely (`UsedInv`), the four
ring indices do not pass each other (`IndexInv`), which keeps a cell of a ring
from being overwritten as there are never more than `NUM / 3` requests, and a
used entry has a pending interrupt or a running handler (`SleepInv`). The chain
that `free_chain` follows is a recursive function. What it computes is proved
by giving the function (`ChainIs`, for three descriptors in a row) and by a
least counterexample (`ChainTyped`, for any links), and not by induction.
`TypeOK`, `HeadersInv` and the part of `NoLostWakeup` about descriptors hold
whatever `alloc3_desc` does. An allocation that fails with descriptors in hand
and happens to give back these keeps `DiskInv`, and is one of the proof's cases.

### FileData

Four layers, each inductive with the help of those before it.

`CallInv`: types; a call works on a `File` that one of the caller's descriptors
keeps open (`HandleInv`, so that no `close` drops it); the lock of an inode is
held by the one process at its blocks (`LockInv`); `OffsetShared`; an inode
differs from its image on disk only inside an operation on it (`ImageInv`); a
batch lies within the largest file (`CountInv`). `CrashImage` follows.

`SpaceInv`, until a panic: every block in use belongs to one place of one file
and every place that is set names a block in use (`OwnInv`), nothing below the
size of a file or behind the loop of a write is a hole (`HoleInv`), and a read
stays within the file (`ReachInv`). The places of a file include the one of its
indirect block: were that block listed by two files, an allocation for one
would give the other a block too. After a panic only `Full` is claimed.

`LoggedInv`: what an operation has logged is the bitmap, the indirect block of
its file, or the block of a position inside its batch. A batch of `n` blocks of
bytes at any offset meets at most `n + 1` blocks (`BlocksCovered`), and with
`n = (MAXOPBLOCKS - 4) / 2` that and the three others are fewer than
`MAXOPBLOCKS`. This is the bound that `LogNoPanic` assumes as `Modest`.

`FlatInv`: a file is as long as its flat file and has its bytes except at
positions that an open batch has touched, where it has the batch's bytes; what
a read has copied out are bytes of the flat file. A turn of the write loop
changes the bytes of its chunk and, by `OwnInv`, of no other position of any
file (`ChunkBytes`); positions of one block differ as their offsets do
(`SameBlockOff`). The end of a batch moves its bytes into the flat file, and
the chunk that `copy_in` did not complete is torn there.

### Inodes

Two layers. The first, `CountInv` and `QueueInv`, holds always, through every
slip and panic.

A handle is one of five variables of a process or an item of its drop queue, and
`RefsCounted` compares `refs` with the cardinality of the set of handles. The
proof goes back to sums: the handles of one process are a sum of bits over its
variables and the places of its queue (`Handles`), no queue is longer than six
(`PlaceOK`), and only the process that moves changes its own share. A step that
moves a handle from a variable to the queue leaves the sum alone; `get`, `dup`
and `put` change it and `refs` by one. `PlaceOK` says what a process has at each
place of a call, so that a variable that is overwritten was 0: this is where an
early return that forgets a handle would show.

A sleep lock has exactly one guard (`LockInv`), counted in the same way over
the places and the queue. What a guard in a queue protects is referred to
behind it or by a variable (`BackedInv`). From these follows the claim in the
comment of `put`: whoever owns the lock has a handle, so that with `refs = 1` it
is `put`'s own, and its own guard would have been dropped before
(`LastUnlocked`). `QueueInv` says that items name slots and that only the
head of a queue is a `put` in progress. A slot in use has an inode and locked
data has been read (`SlotInv`). `OneSlot` needs the count: `get` takes a new
slot only when no slot with that inode has `refs > 0`.

The second layer, `LiveInv`, holds until a panic or a "reuse". Data marked valid is current
and its slot is in use (`ValidInv`). While a `put` that has freed an inode has
not given up the slot, the slot is not valid and the inode is free on disk
(`FreedInv`). This is what an allocation in between breaks: its `get` finds the
same slot and its `lock` reads the new data there; when it drops its handle
first, `put` sees `refs = 2` and leaves the data valid, and the delayed
decrement then frees a slot with valid data for another inode to find.
`FreshInv` ties an inode from `inode_alloc`
to its slot, and `OrphanInv` strengthens `NoOrphan`: an inode without links is
being created or is valid in a slot, so that the last `put` sees its link count
and frees it; a handle alone would not be enough. After a panic the guards are
not unwound, and nothing is claimed.

### Pipe and Console

Both are rings with growing indices. In the pipe, `RingInv` ties the wrapping
counters to the numbers of bytes sent and taken, and the cells from one to the
other hold those bytes; a byte far from the wrap shares its cell with none that
comes while it is unread (`CellApart`). In the
console, `InputInv` is `InputKept` cell by cell, with the line being edited
between `wi` and `ei`: an erase shortens it, a character that ends the line or
fills the ring commits it, and a character is dropped when `ei` is a full ring
ahead of `ri`. That no committed character is overwritten rests on two indices
less than a ring apart having different cells (`ModApart`). An EOT
that is put back leaves the ring as it is. The sleepers of the pipe
(`SleepInv`) and of the console (`ReaderInv`, `WriterInv`) have invariants of
their own. In the pipe it must be said who may hold the lock between two bytes.

### Only model-checked

- The liveness properties `SleeperIsWoken`, `QueuedRuns`, `CloseEndsCalls` and
  `WritesFinish`, which are out of the prover's reach.
- `OutputInOrder` of `Console`: it compares sequences filtered with
  `SelectSeq`, a recursive definition with an operator as its parameter.
- `LinksCounted`, the second part of `NoLockCycle` and `NoPanic` of `Inodes`.
  They depend on the shape of the tree: every directory has one parent, and
  locks are taken downwards but for `..`.
- `SpinLock`, whose proof is left to the plan (section 7).
- `UserMem` and `Buddy` (`HeapSound`, `FreesOnce`), whose loops over size classes
  need induction.

## 5. Where code and documentation disagree

What TLC refutes. Each can be reproduced with the configuration named here; no
run is kept for them. Where a property of a run has a condition on a history
variable, it is the property without that condition that fails.

- **A full operation** (`log.rs:457`). `begin_op` reserves `MAXOPBLOCKS` per
  operation against `LOGSIZE`, but `write` panics two blocks earlier.
  Operations that all use the full `MAXOPBLOCKS`, "maxinum of blocks an FS op
  can write" (`consts/fs.rs:29`), reach the panic: `NoPanic` of `Log` with
  `LogAdmission.cfg` and `OpBlocks = 2`.
- **A killed sleeper** (`process/mod.rs:710`). `kill` makes a sleeper
  `RUNNABLE` without adding it to `PROCFIFO`, though its comment (682) says it
  wakes the process; it never runs again, as `wakeup` looks for sleepers only.
  `KilledRuns` of `Proc`, with `ProcFair.cfg` and `Killers = {1}`. A process so
  killed inside an operation of the log keeps it open for ever, and nobody is
  admitted again; one killed in `putc` never ends its write: `SleeperIsWoken`
  and `WritesFinish` without what they say of killed processes.
- **Partial allocation** (`virtio_disk.rs:163`). The error path of
  `alloc3_desc` frees descriptor `j` instead of `idx[j]`, though its comment (156)
  says that it gives back what it took: `DescriptorsOwned`, `DoneIsTransferred`
  and the second part of `NoLostWakeup` without `~misfreed`, with
  `DiskShare.cfg`.
- **Pin** (`bio.rs:279`). `pin` and `unpin` change `refcnt` without `ctrl`'s
  lock; an update of another process is lost and a recorded block can be
  evicted. `PinnedStays` and `HolderSeesLatest` without `~torn`, with
  `BufShare.cfg`.
- **Reuse of an inode slot** (`inode.rs:116`). `get` does not reset `valid`
  when it recycles a slot, while `put` unlocks the data before it locks `meta`
  again. `CachedIsCurrent`, `LinksCounted`, `NoOrphan` and the
  `debug_assert_eq!` at 222 (`asserted`) fail without the condition on "reuse",
  with `InodesTree.cfg` and the menu `Reusing`; an inode is then found empty or
  without links, and panics follow.
- **A removed directory** (`inode.rs:267`). A process whose working directory
  was removed can still create or link in it, and what it makes has a name that
  nothing reaches; `..` of it may name an inode that was freed, so that `lock`
  panics on an empty inode. `LinksCounted` and `NoPanic` without "haunt", with
  the menus `Haunting` and `Climbing`.
- **A handle dropped after `end_op`** (`syscall.rs:678`, 706–709). `link` of a
  directory ends the operation before the handle is dropped, and a failed `link`
  drops the new directory after it: if the directory was removed meanwhile,
  `put` truncates outside of an operation and `LOG.write` panics. `NoPanic`
  without `LateDrop`, with the menu `Linking`.
- **Interrupts in a handler** (`cpu.rs:296`). `sched` restores `intena` through
  the `Cpu` it left, so that a process that migrates leaves the wrong value on
  either CPU, and a handler may run with interrupts on, which the comment in
  `trap.rs` (about 256) rules out: `HandlerIsOff` with `SpinShare.cfg`.
  `HandlerStaysOff`, which holds, is the same until a process has migrated.
- `UniquePids` (`Proc`): `exiting` gives the pid back while the zombie carries
  it (`process/mod.rs:520`), so that a zombie and a new process share it; with
  `ProcCore.cfg`. `PidsOfLive`, which holds, is about live processes.
- `ForkChildNotKilled` (`Proc`): a kill between `alloc_proc` and the second lock
  of the child breaks the assertion at `process/proc/mod.rs:782`; with
  `ProcCore.cfg`.
- `IndexWraps` (`VirtioDisk`): `avail.idx += 1` (`virtio_disk.rs:335`) panics in
  the dev profile after 65535 requests; with `DiskShare.cfg`.
- `NoSleepOnData` (`Pipe`): a writer killed after some bytes returns without
  waking the readers (`pipe.rs:198`); with `PipeKill.cfg`.
- `DropAssert` (`Pipe`): when the first `File` of `create` cannot be allocated,
  the pipe is dropped with one end open (`pipe.rs:79` and `:294`); with
  `PipeKill.cfg`.
- **Wrap** (`pipe.rs:142`): 454 does not divide 2^32, so the cells of bytes that
  are unread when a counter wraps are not the ones that the reader looks at.
  `BytesInOrder` without `FarFromWrap`, with `PipeKill.cfg`.
- `FreesOnce` (`UserMem`): a page fault without memory kills the process and
  maps address 0 all the same (`trap.rs:141`); freeing that page panics. The
  property without its exemption, with `UserMemory.cfg`.

`NoLostWakeup` of `Pipe` and `ReadyOnce` of `Proc` are therefore stated for
processes that have not been killed.

Met while modelling, and built into the models as the code has it:

- **Files.** `fwrite` returns an error when a later batch fails although
  earlier ones are in the file; its comment promises the number of bytes. A
  failed `copy_in` leaves a changed block that is not logged. `bm_alloc` panics
  when the disk is full. `copy_in` may fail with everything copied when the
  buffer ends with its page.
- **Memory.** `uvm_copy` returns `Ok` when memory runs out or a page was never
  touched, though its comment (829–834) promises rollback and `Err`. `copy_out`
  panics on a page that is not mapped, where its comment (948–971) says `Err`:
  a buffer from `sbrk` that was not touched, or one that ends with its page.
  `sbrk` does not check for a size below zero (`proc/mod.rs:441`), and the subtraction panics.
  The frames of a `Task` are never freed; `waiting_pid` omits the alarm's cleanup
  (`process/mod.rs:670`); `alloc_proc` loses frames when a later one fails; a
  fault on the guard page loses a page, and so does one that finds no memory for
  a page table; there is no check of bounds in the page fault
  (`trap.rs` 136–149); pages behind a hole are lost on exit. `lost` names the
  frames, and `panicked` the panics.
- **Console.** Ctrl-P is `todo!` (`console.rs:159`): the handler panics with the
  console locked.
- **System calls.** Numbers 22 and 23 have several match arms, of which only
  the first (`setpri`, `getpri`) is reached: `trace`, `pgaccess`, `sigalarm`,
  `sigreturn`, `getmtime` and `waitpid` cannot be called.

## 6. Not modelled

- Register accessors, assembly, boot (`start.rs`, `rmain.rs`), the interrupt
  controller and the kernel's own page table: machine access, or code that runs
  once before there is any concurrency. The `STARTED` flag of `rmain.rs` is the
  only synchronisation there. The interrupt-enable bit is in `SpinLock`.
- Address types and the bits of page-table entries (`mm/addr.rs`): data
  translation. `UserMem` has a map from pages to frames instead of the radix
  walk, in one lowest-level table; errors that need a second table are not met.
- Program headers, string arguments and argument decoding, but for the address
  checks and allocations that `exec` makes with them.
- `printf`: formatting.
- Alarms: their system calls are unreachable; the frame they keep is in
  `UserMem`. Priorities (`alloc_runnable`) are never used by the scheduler.
  Threads of a process (`process/task/`) are created but never scheduled; their
  frames are in `UserMem`. `page_allocator.rs`, `pagetable2.rs` and
  `uvm_alloc_ustack` are not called.
- `fstat`, `getpid` and `uptime` change no state.
- User programs, `mkfs`, and the user libraries with their cooperative thread
  runtime (`user_rust/src/thread`) are outside the kernel; vendored crates are
  not this project's code.

## 7. Plan

Done: every concurrent component of the kernel has a module and a run; the log,
the processes, the disk driver, the block cache, the inode cache, file contents,
the pipe and the console have proofs.

Next are proofs, most important first:

1. The directory tree: `LinksCounted` and `NoLockCycle` of `Inodes`.
2. `LocksExclude` of `SpinLock`.
3. Disjointness of the blocks of `Buddy`, if the loops over classes can be
   brought into the prover's reach.

Further models: a composition of `BufCache` with the log's commit, so that the
pin of `Log` is the two-step pin of the code; a second lowest-level table in
`UserMem`; the user-level thread runtime.
