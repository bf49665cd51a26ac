# TLA+ models of the cros kernel

This directory holds TLA+ models of the cros AArch64 kernel. The sources are
`src/src/...`; the design document is `spec.md`. Every action names the
function it translates, and `PROJECT.json` maps every modelled definition to
its source lines.

## 1. The system: inventory

The kernel runs on one CPU and is not reentrant. An SVC (syscall) or an IRQ
enters through `do_syscall`/`handle_irq` with interrupts masked, and it runs to
completion before user code resumes. The only concurrency is therefore the
interleaving of:

- the syscalls the current user process chooses to make, and
- the timer interrupt that preempts it.

Each syscall and each timer tick is one atomic step.

| Component | Source | State | Operations | Interacts with |
|---|---|---|---|---|
| Kernel facade | `kernel.cpp` | `processTable` (BST pid→Process), `scheduler`, `currPid`, ramfs | `syscall_*`, `switchTask`, `addProcess`, `deleteActiveProcess`, `raiseSignal`, `exec` | every other part |
| Process | `sched/process.cpp` | pid, parent, state ACTIVE/SIGNAL/SIGWAIT, ctx, backupCtx, addressSpace, signalHandlers[64], files | ctors/copy/dtor, `exec`, `clone`, `setSignalAction`, `signalTrigger`, `signalReturn`, `storeProgramArgs`, fd table ops | AddressSpace refcount, FileContext refcount |
| Scheduler queue | `sched/queue.cpp` | doubly linked FIFO, `cur_Process` | `enqueue`, `dequeue`, `remove`, `sched_next` | Kernel |
| Refcount | `util/hasrefcount.cpp` | `refcount` | add/removeReference | AddressSpace, FileContext |
| Address spaces | `memory/mmap.cpp`, `memory/aarch64/mmu.cpp` | `idCounter`, top-level table frame, ASID | `createAddressSpace`, `destoryAddressSpace` (a no-op), `loadAddressSpace`, `map_region`, `unmap_region`, page-fault table fill | PageAllocator |
| Page allocator | `memory/pageallocator.cpp` | `blockMap`, `availList[0..31]`, `maxKVal`, `freeBlockCount` | constructor seeding, `reserve`, `free`, `insert` | mmap, mmu, ELF loader, `syscall_mmap` |
| Pipes | `fs/pipe.cpp` | ring `buffer[PIPE_SIZE]`, `readPos`, `writePos`, reader/writer counts | `put`, `read`, endpoint open/close | fd table |
| Timer / IRQ | `devices/timer.cpp`, `aarch64/irq/irq.cpp` | comparator | `handle_irq` → `handleInterrupt` → `switchTask` | Kernel |
| Memory map | `memory/memorymap.cpp` | sorted `map[16]` of (type, location, size), `mapSize` | `place` (= `insert` + `trim` loop), `remove` | boot (`aarch64/aarch64.cpp`), PageAllocator constructor |
| FAT32 ramfs | `fs/fat32` | the `Entry` tree built at mount, the disk image; per open file a `FileContextFAT32` with `pos` | mount, `find_entry`, `file_type`, `file_size`, `read_file`, `write_file`; context `read`, `copy` | `syscall_open`, `syscall_read`, `exec` |
| User test program | `test/main.c` (user mode) | its program counter | `sigaction(17, handler, trampoline)`, then forever `clone(thread)`, `sigwait`; `thread` terminates; `handler` returns through `sigret` | Kernel, through syscalls |
| UART | `devices/uart.cpp` | receive ring `buffer[4096]`, `bufferIndex`; per `UARTContext` a `pos` | `handleInterrupt` → `readByte`, `open`, context `read`, `write`, `copy` | IRQ dispatch, log, exec's fds 0-2 |
| ELF, disk, log, bootstrap | `loader`, `devices/disk_driver.c++`, `util/log.cpp`, `aarch64/bootstrap.cpp` | device and file data | I/O and parsing | exec, boot |

**Behaviours that make this code hard:**

- Signals change a process's state, and the run queue is updated separately
  (`raiseSignal`).
- Two copies of every Process exist: the one `clone` allocates and the one
  the table stores.
- Address spaces and file contexts are reference counted by hand.
- `exec` can fail at several points after it has already changed state.
- Nothing handles the moment no process is runnable.
- The buddy allocator splits and merges blocks.
- The pipe ring buffer has off-by-one conditions for "full" and "empty".
- The UART's receive interrupt fills one ring that every open UART context
  reads from its own position, and nothing stops it overtaking a reader.

## 2. What is modelled

### `Kernel.tla`: processes, signals, scheduling, address-space refcounts

The model's variables map to the code as follows:

| Variable | Code |
|---|---|
| `table` | the pids in `processTable` |
| `pstate`, `parent`, `pas`, `backup`, `action` | the Process fields; `pas` is the AddressSpace id, `backup` is `backupCtx != nullptr` |
| `queue`, `current` | the queue's list and `cur_Process` |
| `idCounter` | the counter in `mmap.cpp` |
| `asRefs`, `asLive` | each AddressSpace refcount, and the objects not yet deleted |
| `loaded` | the space currently in TTBR0 |
| `fault` | a halt caused by a null or dangling dereference |

`Init` is the state after the boot code (`aarch64.cpp` lines 61-75) has:

1. created pid 0 with the default constructor,
2. made it current, and
3. exec'd `/bin/init` in address space 1 (`idCounter` starts at 1 and is then 2).

One action per syscall: `Clone`, `Terminate`, `Exec`, `Yield`, `SigRaise`,
`SigRet`, `SigWait` and `SigAction`. `TimerTick` is the timer IRQ.

Shared helpers translate the functions these actions call:

| Helper | Code |
|---|---|
| `SwitchTask` | `switchTask` |
| `SchedNext` | `sched_next` |
| `WakeQueue`, `RaisedState`, `CanAccept`, `Fires` | `raiseSignal` and `signalTrigger` |
| `ReleaseAS` | `~Process` and `Process::exec` |

The actions model these code paths:

- **`Clone`** covers both outcomes of `Process::clone`:
  - the leaking success: the child goes into the table and is enqueued, and its space gains two references;
  - the `nullptr` return, which `addProcess` dereferences.
- **`Exec`** has one branch per return path of `Kernel::exec`:
  - not found and EIO change nothing;
  - a NOMEM from `createAddressSpace` gives a null AddressSpace;
  - a failed kernel-stack `rmalloc` leaves the new space loaded;
  - success.

Abstracted away:

- register contents and return values;
- file descriptors, which get their own module later;
- the KILL branch of `raiseSignal`, because no code ever sets `ActionType::KILL`.

Signal numbers are drawn from {17, 64}: SIGCHLD and one out-of-range value.

`RefcountExact` (spec section 8: a space's refcount equals the number of
live processes using it) is stated and fails after one clone: the leaked
Process of `Process::clone` keeps a second reference. It is not run:
`destoryAddressSpace` frees nothing, so the extra reference only leaks the
heap object. `files_eof` runs the same leak's consequence for pipe ends.

`BackupIffSignal` (spec section 3: `backupCtx` is set exactly while a
process is in SIGNAL) is stated and fails: `sigwait` called from inside a
handler overwrites SIGNAL with SIGWAIT, so `signalReturn` never restores the
saved context. No run checks it: the run budget went to the memory map's
finding.

`LoadedIsCurrent` (the loaded address space is the current process's) is
stated and fails: `exec` loads the new address space before the `rmalloc`
of the kernel stack, and when that fails it returns ENOMEM to the caller,
which resumes under the new, empty, tables. No run checks it: the run
budget went to the FAT32 read finding. The hazard at `kernel.cpp:491` is
listed in `PROJECT.json`. The hazard at `kernel.cpp:191` is listed in `PROJECT.json`.

### `Buddy.tla`: the physical page allocator, and `PageFrames.tla`: its abstraction

State:

- `blockMap` maps a block index to its header `{kval, tag}`.
- `avail[k]` is the circular list of order k, read from `linkf` to `linkb`.
- `freeBlockCount` is the code's counter.

Operations:

- `Seeded`/`SeedLoop` is the constructor loop. It inserts every available
  slice at order 0, in address order.
- `Reserve(size)` rounds the size with `RequestOrder` (line 68, including the
  unsigned wrap). It pops the tail of the first non-empty list and splits with
  `SplitLoop`.
- `Free(index)` re-inserts the block at its recorded kval. It merges with
  `InsertLoop` (lines 105-124).

Two pieces of state are not in the code:

- `held` records the blocks callers hold and the size they asked for. It is the
  precondition of `free`: only bases `reserve` returned are freed.
- `lastFailed` records a NOMEM result.

`llog2` comes from `util/math.h`, which is not in the tree. It is modelled
from the spec as ceil(log2), which makes `k` minimal as section 4.1 requires.

`PageFrames` is what the allocator promises:

- a frame is either free or in exactly one reservation;
- a reservation is a run of contiguous frames taken from the free ones;
- `free` gives back exactly those frames.

`Buddy` maps onto it through `FreeFrames` and `AllocFrames` and checks
`Abstract!Spec` as the PROPERTY `Refinement`.

### `Pipe.tla`: one pipe, and `Channel.tla`: what a pipe promises

The model's variables map to the code as follows:

| Variable | Code |
|---|---|
| `buffer`, `writePos`, `readPos`, `readerCount`, `writerCount` | the Pipe fields |
| `live` | whether the Pipe object exists |

The actions are:

- `PutLoop`/`Write` translate `Pipe::put`, including the two-case full test.
- `ReadLoop`/`Read` translate `Pipe::read` and `PipeReader::read`, including EEOF.
- `CreatePipe` is `syscall_create_pipe`.
- `CopyReader`/`CopyWriter` are the endpoint constructors that `copy()` runs.
- `DropReader`/`DropWriter` are the endpoint destructors, and delete the pipe with its last endpoint.

Bytes are abstracted to their sequence numbers. The variables `sent`,
`delivered`, `ret` and `last` record what the callers observe.

`Channel` is the FIFO of spec 4.8, with capacity `Cap`. It includes the EPIPE,
EFULL and EEOF rules. `Pipe` refines it with `Cap = PIPE_SIZE - 1` through the
mapping `Contents`, which lists the bytes from `readPos` to `writePos`.

Which process holds which endpoint, and the FileContext refcount that decides
when a destructor runs, are modelled in `Files.tla`.

### `UART.tla`: the receive ring and the UART contexts

`aarch64_boot` constructs the global `UART`, installs it as the handler of
IRQ 57 and makes it the log stream. `exec` opens that stream for fds 0, 1
and 2, so every process's standard streams are `UARTContext`s. They all read
one receive ring, each from its own `pos`.

| TLA+ | code |
|---|---|
| `ring`, `bufferIndex` | `UART::buffer`, `UART::bufferIndex` |
| `fifo` | the PL011 receive FIFO (FR bit 4 is "empty") |
| `contexts`, `pos` | the live `UARTContext`s and their `pos` |
| `received`, `seen`, `got`, `tx`, `result` | history: bytes moved into the ring, the last byte each context returned, the last read's bytes, the last write's output, the last return value |

- `Arrive` is the line delivering a byte into the FIFO. It is hardware, not code.
- `HandleInterrupt` is `handleInterrupt` with Receive or ReceiveTimeout set.
  Both call `readByte` (`ReadByteLoop`), which drains the FIFO into the ring
  and wraps `bufferIndex`. A second call finds the FIFO empty. The other MIS
  bits only log.
- `Open` is `UART::open`: a new context at `pos = bufferIndex`.
- `ReadLoop`/`Read` are `UARTContext::read` as `syscall_read` calls it. The
  read copies until `pos` meets `bufferIndex` or `n` bytes are copied.
- `Write` is `UARTContext::write`: each byte goes to DR, a newline is followed
  by a carriage return, and the call returns `n`.
- `Copy` is `UARTContext::copy`, which keeps `pos`. `Close` is the destructor.

Exception entry masks IRQs, and the kernel never unmasks them
(`Interrupts::enable` has no caller). The interrupt is therefore taken only
between syscalls, and both it and every syscall are atomic steps. Bytes are
sequence numbers: the i-th byte into the ring is i, and 0 marks a slot never
written. The global object sits in zeroed storage. The constructor's
`memset(buffer, bufferSize, 0)` has its arguments swapped and clears nothing.

Bytes received while no context is open are lost to later opens, by design.

**Overrun.** A context `bufferSize` bytes behind has `pos == bufferIndex`: it
reads nothing and all those bytes are lost without notice. Further behind,
it is lapped and reads only the newest `(received - seen) % bufferSize`.
`NoLossWithinCapacity` therefore holds only below that bound. Without the
bound, TLC fails it after an open, three arrivals and the interrupts that drain them. This
overrun loss is stated here rather than run; it is a consequence of the
design, not a slip in a line.

### `Tree.tla`: the AVL tree, and `Files.tla`: descriptor tables, contexts, pipe ends

`Tree` translates `containers/binary_search_tree.h` into pure operators over a
tree value `[root, node, size]`. `node` is the node heap, indexed by address.
Each slot holds `key`, `val`, `parent`, `left`, `right` and `height`, plus a
`live` flag. A deleted node keeps its last contents with `live = FALSE`: that
is what a stale pointer reads. The member functions are operators that return
the updated tree:

- `AddRec` is `add_rec`;
- `RemoveRec` is `remove_rec`, with `Replace` for `node::replace` and its
  successor chain;
- `Rebalance`, `RotateLeft` and `RotateRight` are the rotations;
- `SearchRec`, `Contains` and `Get` are the lookups;
- `Begin` and `Advance` are the iterator (`operator++` climbs by parent
  pointers).

Duplicate keys go right, as in the code. `Then(e, Op)` evaluates a tree once
and hands it on, so TLC does not re-evaluate a nested call at each use.

`Files` composes several things:

- one such tree per Process (`files[p]`, fd → FileContext);
- the FileContext heap (`ctx`: kind, pipe, refcount, live);
- the Pipe heap (`pipe`: reader and writer counts);
- the process table (`ptable`, pid → the Process slot it holds), which is the
  same tree type, holding Processes by value.

Each syscall is one action, and the loops of the code are recursive
operators:

| Action | Code |
|---|---|
| `Open`, `Close` | `syscall_open` (a file found), `syscall_close` |
| `Fddup` | `syscall_fddup`, including `fddup(fd, fd)` |
| `CreatePipe` | `syscall_create_pipe`: two `storeFileContext` calls at `files.size()` |
| `Exec` | the standard-stream tail of `Kernel::exec` (fds 0, 1, 1, 2) |
| `Clone` | `Process::clone` (`CopyLoop`: a `copy()` of every context into the Process that is then leaked) and `addProcess` (`CtorLoop`: the copy constructor of the table's Process) |
| `Terminate` | `deleteActiveProcess` |

Terminate follows the process-table removal. `remove_rec` refills the
terminating pid's node down its successor chain by `Process::operator=`
(`Overwrite`: close the object's descriptors, then store the next Process's
contexts). It then deletes the last node, whose `~Process` runs the close loop
(`CloseLoop`). The close loop advances the iterator from a node that `remove`
may have refilled or deleted, so it can skip descriptors or read a deleted
node. After the loop, the tree's destructor calls `clear()`. On an empty tree,
`clear_rec(nullptr)` reads through a null pointer, and the page-fault handler
panics on that read (`mmu.cpp` 404-408).

Reading a deleted node is undefined behaviour. The model takes two outcomes:
the read returns the old contents, or the kernel faults (`fault`). A fault
halts the model.

The ghost `keys[p]` is the bag of descriptors that p stored and did not close.
It is what the table should hold.

At the end of each syscall, `Commit` settles every tree: live nodes move to
addresses 1, 2, ... in iteration order. The process table's pids are replaced
by their ranks. Node addresses never outlive a syscall, and `nextPid` only
grows and is only compared, so this renaming maps behaviours to behaviours
and keeps the state space small.

### `ProgramArgs.tla`: argv and envp on the new stack

`storeProgramArgs` (`sched/process.cpp` 233-282) with `Context::pushString`,
`pushLong` and `setProcessArgs` (`sched/aarch64/context.cpp`), as a pure
operator `StoreProgramArgs(argv, envp)`. Addresses are byte offsets from the
stack pointer 0x7FC0000000 that `Kernel::exec` sets. A string is its
`strlen`. Every byte no push wrote reads as zero, because the stack frames
are fresh. `Init` takes every argument vector of up to `MaxArgs` strings and
computes the layout; `Next` is stuttering. `WordAt` is what a user load
finds, and `ArrayReadsBack` walks an array the way `main` does.

### `MemoryMap.tla`: the boot-time memory map

`MemoryMap` (`memory/memorymap.cpp`) as a state machine. `map` is the
array as a sequence (index i of the code is element i + 1). One `Place`
action is one whole `place()` call: `Insert` (the swap-walk of `insert`),
then `TrimLoop`, which calls `Trim(i)` from 0 until it returns -1. `Trim` is
a `CASE` over the eight branches of `trim`, in the code's order, and `Remove`
is `remove`, a no-op outside the array. `placed` is a ghost list of the
arguments. A write to `map[capacity]` and a `trim` loop that does not end
within `MaxTrims` calls are recorded in `fault`. Neither is reached.

`MapSorted` (spec section 3 and `place()`'s contract) is violated, run
`memory_map` below. `AdjacentMerged` (`trim()`'s contract) is also stated
and also fails: when a swallowed lower-typed region is removed, `trim`
returns `index` and never compares `index - 1` with what moved down. It is
not run; a run checks one violated property.

### `FAT32.tla`: the ramfs: mount, read, write and create

The `FAT32` object the kernel builds at boot (`initRamFS`), and the
`FileContextFAT32` objects `syscall_open` creates. The disk image is the
constant `Image`: the FAT as a function from cluster numbers to the values
stored, and each cluster's directory view as a sequence of slots, records of
the fields the parser reads (attribute byte, short name, long name, first
cluster, size). A data byte is named by its place on disk,
`<<"img", cluster, byte in cluster>>`, and a path by the names `parse_file_path`
splits it into.

- `Init` is the mount: `MountEntry` is the `Entry` constructor, with
  `EntryFields` (`parse_root_entry`, `parse_dir_entry`),
  `FindClusterAllocations` and `FindSubDirEntries`. `entries` holds the
  `Entry` objects by the slot they parse.
- `FindEntry` is `find_entry` (first match by name in each directory), and
  `ReadFile`/`ReadData` are `read_file`/`read_data`.
- `OpenFile`/`OpenMissing` are `syscall_open`'s two outcomes. `Read` is
  `FileContextFAT32::read`: `EIO`, `EEOF`, or the clip and `ReadLoop`.
  `Copy` and `Close` are `copy()` and the destructor.
- `WriteFile` is `FAT32::write_file` with `WriteData` (`write_data`),
  `AllocateMoreClusters`, `AllocLoop` (its loop and end marker),
  `InitialCluster` and `FindFreeCluster`. The disk state it changes is
  `fat` (FAT entries), `data` (each sector is the image's, `Orig`, or the
  last write's token and data length) and `dsize` (the size field of each
  slot). `written` is a ghost: the last write to each (file, sector).
  `ByteAt` is `DiskInterface::read` of a sector. No syscall calls
  `write_file`; it is an action of the `FAT32` object's API, as
  `FAT32::test` uses it.
- `Create` is `create_file` (t = FILE) and `create_dir` (t = DIRECTORY):
  the checks (`Refused`), then `NewDirEntry` (`new_dir_entry`) with
  `FindEmptyEntries`/`EmptyRun` (`find_empty_entries`), `InitDirCluster`
  (`init_dir_cluster`), `WriteDirEntry` and `PutLongNames`
  (`write_dir_entry`, `write_long_name_entry`). `dir` holds each
  cluster's slots as they are on disk now. A cluster is one sector, so
  `PutSlot` also rewrites that sector in `data`, and a `write_file` of a
  sector turns its slots EMPTY (`Overwrite`). A created Entry is keyed by
  its short slot and the call that made it.
- `fault` records a disk access outside the image (`oob`), a null
  dereference (`null`), or an out-of-range one (`ub`). It ends the
  behaviour.

`ReadReturnsFileBytes` is violated, run `fat32_read` below. It says a
read returns what `write_file` last wrote to each sector, or else the
image's bytes.

The model also holds write and create bugs, but the read overrun is found
first. Each was checked on a copy whose read loop bounds the chunk by
`n - count`, at 4 or 5 calls.
- `allocate_more_clusters` calls `find_free_cluster` again before the FAT
  entry of the cluster it just took is written. Asking for two clusters
  gets the same one twice: writing sector 2 of the empty file E gives it
  clusters `<<7, 8, 8>>`, with FAT entry 8 pointing to itself before the
  end marker. A later write of sector 1 then overwrites sector 2, and a
  read of E returns it: `ReadReturnsFileBytes` fails after 5 steps.
- `write_data` stores `(sector_offset + 1) * bytes_per_sector` in the
  slot's size field on disk, but the `Entry` gets
  `sector_offset * bytes_per_sector + length`. One write of one byte
  leaves `dsize` 2 and `size` 1.
- `find_empty_entries` computes the "next cluster" from `byte_offset`,
  the entry's own slot, so the test never changes. It walks past the
  directory's clusters into whatever follows on disk. `create_dir("/A/N")`
  (no FILE check in `create_dir`) writes N's slots over file A's first
  sector, and `ReadReturnsFileBytes` fails after open, `create_dir`, read.
  Creating in the full directory D spills into cluster 6, the data of
  D/b1b2.
- `find_empty_entries` on the root reads `parent_dir->byte_offset` with
  `parent_dir` null, so `create_dir("/N")` faults (`create_file("/N")` is
  refused first: the root's type is ROOT, not DIRECTORY).
- `init_dir_cluster` writes "." and ".." into the new directory's own slot
  and the slot after it, not into the new cluster.
None of these has a run: every run slot is taken, and a violation run
checks one property. With the read fixed and no invariant, 4 calls give 488k states
with no evaluation error, and each of the `null`, `ub` and `oob` outcomes is
reachable.
`ChainsMatchFat` (each mounted entry's clusters are its FAT chain) is
stated and also fails, in the initial state: after the first step
`find_cluster_allocations` tests the cluster number it moved to rather than
the FAT value there, and it appends the end-of-chain value. File A's
clusters are `<<3, 4, 0x0FFFFFFF>>`. A read stays inside the file's size,
so for files the extra entry is only reached by the overrun. A directory of
two clusters, however, makes `find_sub_dir_entries` read outside the image
at mount. It is not run; a run checks one violated property.

### `Mmu.tla`: translation tables, demand fill, mmap and exec's address space

The user half of virtual memory (`memory/aarch64/mmu.cpp`, `memory/mmap.cpp`,
and the address-space part of `Kernel::exec`, `syscall_mmap` and
`syscall_munmap` in `kernel.cpp`). A table has `E` entries (3 for 512), so
the three-level walk covers `E^3` pages. The last entry of every top table
is the loopback, so the loaded space's tables appear at the fixed window
`userTables[0..2]`, which the model counts in entry addresses (`TBase`,
`Tables(i)`). The code never writes a table frame directly: it stores through
the window, and a store whose window page is missing takes a write
translation fault that `handlePageFault` answers with `fillTranslationTable`.

| Variable | Code |
|---|---|
| `mem` | physical memory of the table frames: frame → entry → descriptor `[p, user, out]` |
| `alloc` | the page allocator's `blockMap` and `availList` |
| `tops` | each AddressSpace's top table frame, indexed by id (`idCounter`) |
| `active` | the space in TTBR0 |
| `scratch` | whether the kernel tables behind `initializeTopTable`'s scratch page exist |
| `kframes`, `data`, `promised` | ghosts: frames filled into the kernel half, frames reserved for user memory, and the frame `map_region` was asked to put at each page |
| `fault` | why the kernel halted (`hacf`, a fault loop, a null dereference) |

| Action / helper | Code |
|---|---|
| `Exec` (`ExecSt`) | `Kernel::exec` lines 479-485: `createAddressSpace`, `initializeTopTable`, `loadAddressSpace`, `buildProgramImage`, the stack `map_region` |
| `Mmap(a)`, `Munmap(a)` | `syscall_mmap`, `syscall_munmap` |
| `Load(s)` | `loadAddressSpace` when the scheduler switches to a process of space `s` |
| `SetPageEntry`, `ClearEntry` (`SetEntry`) | `setPageEntry(0, ...)`, `clearEntry(0, ...)`: a store through the window, with the fault and one retry |
| `HandlePageFault`, `FillLoop` | `handlePageFault`'s write translation fault cases, `fillTranslationTable` |
| `GetPageFrame` (`GetLoop`) | `getPageFrame`: guarded loads through the window |
| `MapRegion`, `UnmapRegion` | `map_region`, `unmap_region` |
| `BuildProgramImage` | `buildProgramImage` for a list of LOAD segments given by byte `vaddr` and `size`: `diff = vaddr % page_size`, the `getPageFrame` test of the first page, `mapSize` (`size + diff`, or `size - (page_size - diff)` when the page is mapped) mapped from a reserve of `size` bytes; a negative `mapSize` halts as `map_size_wraps` |
| `PhysPlus` | `frame + p` in `map_region`: NOMEM is `~0`, so NOMEM plus `p` pages wraps to frame `p - 1` |
| `ReserveIn` | `PageAllocator::reserve`, by `Buddy`'s own `RequestOrder` and `SplitLoop` (an `INSTANCE` of `Buddy`) |

A syscall is one step: `Finish` commits its whole effect, or, when it halts,
only `fault`. After a halt nothing runs, so the memory the halting syscall
had half written is never observed. `Load` may switch to any created space:
this over-approximates the scheduler, which `Kernel.tla` models. The kernel
half is abstracted to the two tables the first scratch store of
`initializeTopTable` fills (`ScratchFill`); the user-half properties only see
the frames it consumes.

The properties:

- `MapRoundTrip` (spec section 8): in every address space, every user page
  translates to the frame that the last completed `map_region` for it was
  asked to use, or to nothing after `unmap_region`, however the demand fills
  and the execs of other spaces interleave.
- `FramesExclusive`: every frame has one use: a free list, the kernel
  tables, user memory, or one table position of one space, whatever the
  user pages map.
- `UserFramesExclusive` (run `user_frames`, expected violated): every mapped
  user page, NOMEM aside, points into user memory and no other user page of
  any space maps the same frame.
- `GetPageFrameAgrees`: `getPageFrame`, reading through the window, returns
  what the hardware walk gives, and never faults.

### `InitProgram.tla`: the kernel running `test/main.c`

`InitProgram` EXTENDS `Kernel` and adds two variables:

- `pc`: for each pid, the next syscall its program issues;
- `saved`: the counter that `backupCtx` holds while the process is in SIGNAL.

`main` starts at `sigaction`, then loops `clone` → `sigwait` → `clone`. A cloned
thread starts at `terminate`. When `Terminate` moves the parent into SIGNAL,
the parent's counter is saved and set to `sigret`: the handler prints, then
returns to the trampoline. `HandlerSigRet` restores the saved counter. Each
action is the `Kernel` action of that syscall, conjoined with the counter
update; `Preempt` is `TimerTick`. The program's `printk` calls and its initial
`mmap` change no `Kernel` state and are left out. Fairness is weak fairness of
`Preempt` only, as in `Kernel`.

The run replaces free syscalls with this program and asks whether the
program alone can halt the kernel. It can, in six steps (see the runs
table): nothing in the program or the kernel closes the window between
`clone` and `sigwait`.

## 3. Runs

| Run | cfg | Expect | What it shows |
|---|---|---|---|
| kernel_safety | `Kernel.cfg` | pass | 3 pids, 2 address spaces, run queue ≤ 2, 267k states. The checks: `TypeOK`; `AddressSpaceSafe` (no space in use, or loaded, is deleted); `QueuedEventuallyRuns` (with only the timer fair, every queued process gets the CPU unless the kernel halts first). |
| kernel_dup_queue | `KernelDupQueue.cfg` | violation | `NoDuplicateInRunQueue`: a SIGWAIT process signalled twice with a NONE action is queued twice. After it exits, the queue holds a dangling pointer. |
| kernel_no_runnable | `InitProgram.cfg` | violation | `NoSchedulerCrash`, for the kernel running `test/main.c`: `sigaction`, `clone`, a timer tick, the thread's `terminate` (SIGCHLD runs main's handler at once), `sigret`, then main's `sigwait` leaves nothing runnable and `switchTask` dereferences a null current process. The program's wakeup was lost to the preemption between `clone` and `sigwait`. |
| buddy | `Buddy.cfg` | pass | 8 blocks, all available, request sizes {0,4,5,9,32,33} bytes with blockSize 4. The checks hold in every state: `FreeListsWellFormed`; `MaximalCoalescing` (spec section 8); `ReservedBlockFitsRequest`; `Refinement` of PageFrames. |
| pipe | `Pipe.cfg` | pass | `MC_Pipe` checks the two byte-stream FileContexts besides files. They share no state, so `Init` picks one and each is checked in its own behaviours; 37k states. Pipe: a 4-slot ring, reads and writes of {0,1,3} bytes, 6 bytes per pipe so both positions wrap, 2 endpoints of each kind. `Refinement` of Channel holds: no byte is lost, duplicated or reordered, and every return code is right. UART (`UART.tla` through `U == INSTANCE UART`): `UartTypeOK`; `NoLossWithinCapacity` (a context fewer than `bufferSize` bytes behind would read exactly the bytes received since the last one it returned, across wraps, interrupts, copies and closes); `ReadsInOrder` (each read returns at most `n` bytes, its count, and they are consecutive and newer than anything that context returned before). |
| memory | `Mmu.cfg` | pass | `E = 3`, 31 free frames, up to 3 spaces and 10 syscalls; 7.7k states. `TypeOK`, `MapRoundTrip`, `FramesExclusive` (of the free lists and table frames) and `GetPageFrameAgrees` hold through exec (including its unchecked stack NOMEM and segments that start in a mapped page or mid-page), mmap, munmap of never-mapped pages, and switches between spaces, with table fills at levels 1 and 2. |
| user_frames | `UserFrames.cfg` | violation | `UserFramesExclusive`, under the memory run's constants: at the first exec, the 4-byte segment at byte 13 starts one byte into page 3, so `mapSize = size + diff = 5` bytes maps two pages from a reserve of one frame (`elf.cpp:78-80`), and page 4 maps frame 8, which the data segment already uses. Without that segment the same invariant fails after five syscalls: a second exec's stack reserve returns NOMEM unchecked (`kernel.cpp:485`), and `NOMEM + p` wraps its pages 1..3 to frames 0..2, which other uses hold. |
| files | `Files.cfg` | pass | Boot plus 5 syscalls of 2 processes; 238k states. The checks: `TypeOK`; `FdTablesWellFormed` (each table is a search tree with consistent links, iteration visits every node in key order, `_size` is right, and the keys are exactly the stored-and-unclosed descriptors); `RefcountCoversHolders` (no context has fewer references than table entries of live processes); `PipeEndsCounted` (reader and writer counts equal the live endpoints, and no endpoint outlives its pipe). These hold through clone leaks, skipped closes and operator= moves. |
| files_dangling | `FilesDangling.cfg` | violation | `NoDanglingDescriptor`: `fddup(fd, fd)` on a sole reference frees the context, then stores the freed pointer (one syscall after boot). |
| fat32_read | `FAT32.cfg` | violation | `ReadReturnsFileBytes` (spec section 4.8): open a 3-byte file of two 2-byte sectors and `read(fd, buf, 3)`. `FileContextFAT32::read` copies `min(n, bytesLeft)` bytes per pass, with `n` the whole request, so it copies 2 + 2 bytes, returns 4 and writes past the caller's buffer, the last byte from beyond the end of the file. With the chunk bounded by `n - count` the same cfg passes at 4 calls only without `Create`; with it, open, `create_dir("/A/N")` and a read of A fail it: `find_empty_entries` writes the new slots over A's data. At 5 calls without `Create` the allocator's self-loop fails it too. |
| memory_map | `MemoryMap.cfg` | violation | `MapSorted` (spec section 3): `place(MMIO,1,1)`, `place(UNAVAILABLE,0,3)`, `place(AVAILABLE,0,3)` leaves AVAILABLE [2,3) overlapping UNAVAILABLE [2,3). `trim` splits the AVAILABLE region around the UNAVAILABLE one; the left part has size 0, so `remove(index)` shifts the array, yet `trim` returns `index + 2` and skips the remainder. The page allocator's constructor then seeds the UNAVAILABLE frame as free. The fixed `place()` sequence of `aarch64_boot` does not reach this case. |
| files_eof | `FilesEof.cfg` | violation | `NoWriterMeansEOF` (spec section 8, test 4): `create_pipe`, then `terminate`, whose `~Process` loop skips the writer. No live process can reach the writer, yet the count stays 1, so the reader never sees EEOF. The leaked `copy` of `clone` does the same. |

Every property of a passing run has a mutant in `PROJECT.json`: a plausible
bug in the mapped code that TLC must catch.

### Bounds, and why they are enough

**Kernel.**

- `MaxPid = 2` lets a process and its clone both clone, and a parent outlive
  its child.
- `MaxAS = 2` allows one exec after boot. That is enough to reach a delete
  caused by a refcount reaching zero.
- `MaxQueue = 2` allows a double enqueue, and two queued processes behind a
  running one, which is what `QueuedEventuallyRuns` must get through.
- `kernel_dup_queue` uses `MaxPid = 1` and `MaxQueue = 3`. Its
  counterexample needs two processes.

**InitProgram.** `MaxPid = 3` lets main go round its loop three times, so
the preemption can fall in any iteration. `MaxAS = 1`: the program never
execs. `Signals = {17}`: SIGCHLD is the only signal the program takes.
The crash needs one thread, and BFS finds it in the first iteration.

**Buddy.**

- Three orders cover a split through every level and a merge up to the top.
- The request sizes exercise:
  - rounding up (5 → 2 blocks, 9 → 4 blocks);
  - the whole map (32);
  - a request larger than memory (33);
  - the wrap of size 0.

**Mmu.**

- `E = 3` keeps the recursive window: the top table's last entry is the
  loopback and two user regions of nine pages lie below it.
- 31 free frames (`MaxKVal = 5`) are enough for two complete execs with
  table fills at both levels, and too few for a third, so `nomem_table`,
  `exec_null_space` and the stack's unchecked NOMEM are all reached.
- Pages are 4 bytes. The program has three segments: 4 bytes at byte 4 (one
  whole page), 6 bytes at byte 6 (it starts in the text's mapped page, the
  case where `buildProgramImage` asks `getPageFrame`), and 4 bytes at byte
  13 (one byte into an unmapped page, so `diff` enlarges `mapSize`). The
  `map_size_wraps` and `unhandled_fault` halts are not reached with these
  segments.
- `StackPages = 4` makes the stack's reserve a 4-frame block, which can fail
  when single frames remain.
- `MapArgs` has a page with tables (vpn 3), a range crossing into the other
  region (vpn 8-9, a level-1 fill), and size 0 (reserve's wrap, so ENOMEM).
- `MaxCalls = 10` allows three execs and several mmap, munmap and switches.

**ProgramArgs.**

- Up to two strings in each vector give every count parity.
- `strlen` values 0, 7 and 15 give an all-padding slot, a slot with bytes
  and padding, and a slot the terminator fills.

**MemoryMap.**

- Three places of three types (AVAILABLE, UNAVAILABLE, MMIO) at locations
  0..3 with sizes 1..3 give overlaps of equal and of different types,
  containment both ways, and regions that only touch. TLC finds the
  overlap after three places.
- `Capacity = 16` is the code's. With `Capacity = 4` and four places the
  overflow fault is still never reached, because one `place()` splits at
  most once.
- `MaxTrims = 40` exceeds any `trim` loop of a map of this size.

**FAT32.**

- 2-byte sectors, one per cluster, make a 3-byte file span two clusters.
  Every read of 2 or 3 bytes then crosses a sector boundary, which is where
  the chunk arithmetic matters. The arithmetic is the same for 512-byte
  sectors.
- The image has a file in the root, a directory with `.` and `..`, and a
  file with a long name, so lookups go two levels deep and skip the dot
  entries. Paths include a directory and a missing name, for `ENOFILE`.
- The empty file E and the free clusters 7 and 8 let `write_file` take
  every branch of the allocator: `initial_cluster`, a loop of one and of
  two passes, and running out of free clusters. A write to A follows its
  chain's end-of-chain entry, which lies outside the image. Writes cover
  sectors 0..2 and data of 1 or 2 bytes, so a write both grows a file and
  lands inside it.
- The create paths are N in the full directory D, at the root, inside
  file A and inside the empty file E. Between them they reach every
  refusal, the null and empty-vector dereferences, and a successful
  creation.
- Two contexts allow a `copy()` beside the original. Four calls reach the
  overrun at depth 3.

**Files.**

- Two Process slots are enough for a clone, and for a removal that moves a
  Process by `operator=` (the boot process is the table's root, so its clone
  is its successor).
- Five nodes per table hold the three standard streams and a pipe's two ends.
- Six contexts cover those plus the copies a clone makes.
- One pipe is enough.
- Descriptors 0-4 are the ones that boot, open and pipe hand out.
- `MaxCalls = 5` bounds a behaviour to five syscalls after boot. It is the
  largest bound that finishes in about a minute. It reaches:
  - clone after create_pipe;
  - terminate of either process;
  - a close that refills through a successor;
  - the duplicate key that `files.size()` produces after a close.

  TLC's coverage shows every action and every outcome of `Terminate` taken.

**UART.** The instance has `bufferSize = 3`, a 2-byte FIFO, 7 received
bytes, 2 contexts, reads of 1 and 3 bytes, and one write of a newline and a
character.

- 7 bytes wrap `bufferIndex` twice.
- A context can fall 1, 2 or 3 (= `bufferSize`) bytes behind, so both sides
  of the capacity bound are reached.
- A 2-byte FIFO lets one interrupt move several bytes and wrap inside the
  drain loop.
- Two contexts allow a copy beside its original, and a close.

### Fairness

`Fairness == WF_vars(TimerTick)`. `SystemTimer` is armed every 50 ms and
`handle_irq` runs whenever a user process executes, so preemption really is
guaranteed. Nothing obliges a user program to make a syscall, so no syscall
is fair. `Files` states no liveness property: its EEOF question is a
safety property (a writer count that no live process can lower). A halted kernel (`fault # "none"`) has no successor, so these runs set
`CHECK_DEADLOCK FALSE`, as does `memory`, which also stops at its call bound. `Mmu` states no liveness: a syscall is one step. The pipe run checks deadlock too: a UART context can always be opened, written or closed, and the UART, like a pipe, has no fairness because nothing obliges a process to read. The buddy run checks deadlock: `reserve` is always
callable.

## 4. Plan

Most important first. Each item is a module, an MC instance and runs.

1. **Pipe and descriptors**. Done: `Pipe.tla` refines `Channel.tla`, and
   `Files.tla` models who holds which endpoint. What remains is to compose
   `Files` with `Kernel`'s scheduler queue, whose pointers into process-table
   nodes go stale when `operator=` moves Processes.
2. **An abstract descriptor table** (a map fd → context) that `Tree`
   operations refine, checked as a PROPERTY.
3. **Virtual memory**. Done for the user half in `Mmu.tla`. What remains:
   a run with `mmap`/`munmap` pointers inside the table window (no syscall
   validates `ptr`), and the kernel half (`setTableEntry`, block
   descriptors). The ASID in TTBR0 needs no model: `loadAddressSpace` flushes
   the whole TLB (`TLBI VMALLE1`).
4. **storeProgramArgs**. Done in `ProgramArgs.tla`. What remains: the
   stack's lower bound, which no push checks.
5. **The scheduler's view of the process table.** `Tree` already models the
   BST and `Files` models the `operator=` moves. The scheduler's pointers are
   not modelled yet.
6. **Memory map**. Done in `MemoryMap.tla`; the run finds the overlap bug.
   What remains: the page allocator's constructor seeded from the map.
7. **FAT32 read path and `write_file`**. Done in `FAT32.tla`; the run
   finds the read overrun. The allocator's self-loop needs a run of its own
   once one is free. What remains: composing it with `Files`' descriptor tables, and
   `exec`'s reads of the program through `read_file`.

## 5. Not modelled, and why

- **The rest of FAT32.** `list_dir`, `file_size` and the dump functions
  change no state. `remove_*`, `copy_*` and `move_*` are stubs that return
  failure. `long_to_short_name` and the long-name checksum only shape
  slot names, which no property reads. A remount of a written image is
  not modelled: the mount reads `Image`. No syscall reaches the write and
  create paths (`create` and `unlink` return ENOSYS,
  `FileContextFAT32::write` returns EIO); only the uncalled `FAT32::test`
  does.
- **The UART's register programming and `operator>>`.** The constructor's
  register writes and the transmit busy-wait change no state a read or
  write observes. The polling `operator>>` has no caller.
- **ELF parsing, disk and log.** These are byte-level I/O and
  parsing. Their outcomes (not found, I/O error) are the nondeterministic
  branches of `Kernel`'s `Exec`. `Mmu` models `buildProgramImage`'s
  reserving and mapping for a fixed segment list, but not the bytes that
  `memset` (whose arguments are swapped) and `memcpy` write.
- **User-space stores and permissions.** `Mmu` keeps only `apEL0` of a
  descriptor; read-only and execute-never bits are set by `map_region`'s
  flags and checked by nothing modelled.
- **`storeProgramArgs`'s terminator.** `ProgramArgs.tla` states
  `ArgsMarshalled` (spec section 4.5, exec step 6), and TLC finds it false
  under `ProgramArgs.cfg`: the argv pointer array has no NULL terminator, and
  with `argc = envc = 0` `argv[0]` is read from the table window. An odd
  `argc` (the boot's `/bin/init`) is saved by the alignment pad. It is kept
  out of the run list to give the user-frame alias its run.
- **A property that no runnable process is lost.** The run queue is a
  search tree keyed by pid that holds `&processTable.get(pid)`, and the
  table's `remove` moves Processes between nodes, so a queued pointer can
  come to name another process. `Kernel.tla` queues pids, which cannot
  express this; such a property would need node identity in the table.
- **`reserve(0)`.** `Buddy.tla` states `NomemOnlyWhenExhausted`, which TLC
  finds false for a request of size 0 (the `(size - 1)` wrap). It is not
  run, to keep one run per question; the `memory` run reaches the effect,
  `mmap` of size 0 returning ENOMEM.
- **`linked_list.h` and `hashmap.h`.** No kernel code uses them (the
  scheduler queue in `sched/queue.cpp` has its own node list).
- **The kernel heap.** Only `heap.h` is in the tree. Its failures are the
  nondeterministic branches of `Clone` and `Exec`.
- **Early boot page tables** (`bootstrap.cpp`). These run once, before any
  process exists.
- **`read(fd, buf, 0)` on a pipe with no writer.** `Pipe.tla` states
  `ReadZeroReturnsZero` (spec section 9, open question 3). TLC finds it false, because
  the read returns EEOF. No run checks it, for lack of run budget; the hazard
  is listed in `PROJECT.json`.
- **AVL balance after long removals.** `node::replace` rebalances only the
  parents on its chain, so heights can go stale in tables larger than five
  nodes. Search order, which is what correctness depends on, is checked.
- **The KILL branch of `raiseSignal`**, which uses the buggy `queue::remove`.
  It is unreachable: no code sets `ActionType::KILL`.
