# A TLA+ model of the Chaff kernel

Chaff is a small 32-bit x86 kernel in C (`src/kernel`). This directory models
the parts of it where steps of several threads, interrupts, signals and devices
meet, and the data structures those parts rest on: the scheduler, wait queues,
the timer, processes and threads with their reaper, signals; interrupts and the
FPU; the memory of processes; files, path lookup, mounts, device files and the
block cache; hash tables and the kernel's allocators. TLC checks the models on
small instances; TLAPS proves the safety of six of them (wait queues, signals,
processor, block cache, memory, mounts with devfs) for every value of their
constants.

## The system and its parts

| Part | Source (under `src/kernel/src`) | State |
|---|---|---|
| Scheduler, idle thread | `process/scheduler.c`, `process/schedulerAsm.s` | modelled: `Scheduler` |
| Wait queues | `process/waitqueue.c` | modelled: `WaitQueue`, abstract `EventWait` |
| Timer: sleep, alarms, beep, quantum | `timer.c` | modelled: `Timer` |
| Processes, threads, fork, wait, exit | `process/process.c` | modelled but for out-of-memory paths: `Process` |
| Orphan reaper | `process/reaper.c` | modelled: in `Process` |
| Signals | `process/signal.c` | modelled but for the register frame: `Signal` |
| Interrupt dispatch, handler chains, PIC masks | `interrupt.c` | modelled: `Interrupts`, `Cpu`; the return to user mode also in `Scheduler` |
| Lazy FPU switching | `cpu.c` | modelled: `Fpu`, `Cpu` |
| Physical pages | `mm/physical.c` | single pages: `Memory` |
| Contexts, regions, page tables, faults | `mm/region.c`, `mm/pageMapping.c`, `mm/pageFault.c` | modelled for one page table: `Memory`, abstract `AddressSpace` |
| Slab allocator | `mm/slab.c` | modelled: `Slab` |
| Kernel virtual memory | `mm/vmalloc.c` | modelled: `VMalloc` |
| Hash tables | `htable.c` | modelled: `HashTable`, abstract `FiniteMap` |
| Descriptors, open files | `io/iocontext.c` | modelled but for offsets: `Files` |
| Open, path lookup | `io/open.c` | modelled: `Files` (`IoOpen`), `PathLookup` (`IoLookupPath`) |
| Access checks | `io/mode.c` | modelled: in `PathLookup` |
| Mounts | `io/mount.c` | modelled: `Mounts` |
| Device file system | `io/devfs.c` | modelled but for `DevFsReadDir`: `DevFs` |
| Block cache | `io/bcache.c` | modelled but for destruction: `BlockCache` |
| The rest | see "Not modelled" | |

How the parts interact: everything that blocks goes through `ProcYieldBlock`,
everything that ends a wait through `ProcWakeUpSig`. The timer and the signals
are the two sources of asynchronous wake-ups; exits wake the waiters of a
process and the reaper. Kernel and user side meet at the end of `IntrHandler`,
where a thread out of quantum yields and pending signals are delivered; a switch
also decides who owns the FPU registers. File calls block inside the operations
of a file system. Devfs sends them to a device, for block devices through the
block cache. The mounts, devfs names and cached blocks are kept in hash tables,
whose arrays are vmalloc areas; files, blocks and thread states are slab objects.

## What is atomic

Interrupts come through interrupt gates, so kernel code is not interrupted. It
gives up the processor only inside `ProcDoSchedule`. The models therefore make
one atomic action of the code from one possible context switch to the next, and
`pc[t]` says where a thread that is not running user code is:

| `pc` | where |
|---|---|
| `run` | user code, or a kernel thread between calls |
| `return`, `signals` | end of `IntrHandler`: before the quantum check (l. 197), before `ProcSignalHandler` (l. 203) |
| `wait`, `sleep`, `waitP`, `waitT`, `suspend`, `reap` | inside the call of `ProcYieldBlock` of the wait queue, `TimerSleep`, `ProcWaitProcess`, `ProcWaitThread`, `SuspendSelf`, the reaper |
| `close` | blocked in a file's close operation, called by `ProcExitProcess` (l. 556) |
| `spin` | in the loop of `SuspendSelf` for ever (`WaitQueue`; `spinning` in `Signal`) |

`Files` and `BlockCache` do not repeat the scheduler. A thread blocks in an
operation of the file system or device, or in a wait queue, and any thread that
is not blocked may go on. Where one piece of code without a blocking point is
several actions, for instance the loop of `IoContextDeleteReference`, the
variable `cpu` names the thread that has to finish first. In `Mounts` a type's
`mount` and a file system's `umount` block; `DevFs` blocks in a device's `open`
and `close`. `HashTable`, `VMalloc` and `Slab` never block, so their actions are
whole calls.

An interrupt is taken in user mode or in the idle thread's `hlt`. The system
call dispatcher is an empty `#warning` in `interrupt.c`, so calls are modelled
as made directly by the running thread, returning through `IntrHandler`.

Where the code uses a freed object, an uninitialised pointer or a list it has
broken, the model sets a flag (`corrupt`, `broken`, `unsafe`, `stale`, `raced`,
`hung`) and says nothing of what follows: only a stuttering step `Undefined` is
left. Histories (`early`, `borrowed`, `lost`, `heirs`) mark the objects for
which the code has already lost count. The properties then state that these are
the only ways to go wrong. Each way is listed under "Other places where comments
and code disagree".

## The modules

* `Scheduler` has `state`, `schedInterrupted`, `threadQueue`, `currThread`,
  `TimerQuantum` and `idleAwake` (whether `hlt` was left). Its operators are the
  functions of `scheduler.c`; the next four modules build actions from them.
* `WaitQueue` adds the queues and threads that wait on them, wake each other,
  get signals, are suspended by them and exit. Which signals are pending is left
  to `Signal`: here a suspension ends, or hangs the kernel (`Spin`), at any time.
  `EventWait` says what `waitqueue.h` promises: waiters of a
  queue are woken oldest first, an interruptable waiter may give up, and a wait
  returns what happened to it.
* `Timer` has the sleep queue (threads), the alarm queue (processes), the
  `alarmPtr` fields (the processes in the set `alarmPtr`), the speaker and a
  clock that ticks up to `MaxTime` and can be set. The history `owed[t]` is how
  long a sleeper still has to sleep: ticks lower it, and setting the clock forward
  does; setting it back does not raise it.
* `Process` treats process and thread objects as reusable slots. Freeing a slot
  leaves the fields a later reader may still see; freeing a free slot, or
  reaching one of the `Panic` calls, sets `panic`. `parent` of a disowned child
  keeps its old value, as in the code. SIGCLD has its default action, ignored.
  The last thread of a process may block in the close operations of its files, as
  `CloseBlocks` says; it has no memory context then, and when it is switched back
  to, `MemContextSwitchTo(NULL)` is undefined (`pageDir = NULL`).
* `Signal` has one process without children, so the loops of `signal.c` that
  run over `process->children` where threads are meant visit nothing.
  `ProcSignalSetMask` takes a thread, which `signal.c` always gives it as
  `ProcCurrThread`, so only the current thread changes its mask. The
  variable `spinning` is the state in which `SuspendSelf` never leaves its loop.
* `Fpu` has the registers' owner `fpuCurrent`, the TS bit, the states saved in
  memory and the values each thread last computed; thread structures are freed
  and reused. `Interrupts` has the chain of entries of each IRQ with the memory
  cell of each entry, the mask and in-service bits of both PICs, and the walk of
  `IntrHandler`, between whose steps a handler may register and unregister.
  `Cpu` composes the two: an interrupt may end in a switch of threads.
* `Memory` has the reference counts, search positions and contents of physical
  pages, and for each context its directory page, page table, entries and
  regions. Addresses are page numbers within one page table, which is allocated
  and freed with its context, so the count of its entries is left out. `stopped` stands
  for a panic and for the search that does not end. `AddressSpace` says what
  contexts promise: memory of their own, changed by their own writes only.
  Its `ready[c]` is the set of pages that `c` may write without a page fault.
  No entry of the TLB outlives the one in memory: `invlpg` and the reload of CR3
  are part of the actions.
* `Slab` keeps the slabs of each cache on three lists and the free chain of each
  slab; headers of large slabs and the cache descriptors are objects of two
  caches of the allocator itself. Operations are functions from one heap to the
  next, because allocating an object may allocate a header. Sizes are unsigned
  numbers modulo `UINT_SIZE`; the search of `MemSlabCreate` for a number of pages
  is a fold of its loop's body (`TryPages`).
* `VMalloc` has the two flags of each page and, as history, the areas handed out.
  `HashTable` has the buckets as sets, its array as one of those areas, and
  shares the pages with another user. `FiniteMap` is what a table promises:
  inserting, removing and finding act on one map, and growing changes nothing.
  What is compared is the map and the last call with its arguments and its answer,
  so a call that answers for another key is not one of `FiniteMap`.
* `Files` has the descriptor tables of two processes, the reference counts of
  the files, and calls that stop inside `ops->open`, `truncate`, `close`, or an
  operation. `target` is the argument of `IoReleaseFile` and where it returns to.
* `Mounts` has the list of types, the file systems with their parent, counts and
  locks, and mounts and unmounts in progress. `DevFs` adds devices, their names
  and slots, and open device files; `heirs` are the devices that were registered
  in a slot to which a file of an earlier device still refers. `Vfs` composes them.
  `PathLookup` defines `IoLookupPath`, which changes nothing, as a fold over the
  elements of a path in one state of `Vfs`: an unmount while a lookup blocks in
  `readINode` or `findINode` is not modelled.
* `BlockCache` has the blocks with their state, count, data and sleepers, and a
  device whose transfers take time and may fail. Requests may be part of a
  block, a whole block, or cross into the next block.

Operators whose comment starts with "Mutant" are wrong variants of the
definition after them, kept to show that the properties notice such a mistake.

## What the runs check

All runs pass.

| Run | Configuration | Shows |
|---|---|---|
| `wait_queue` | 2 user threads, 1 kernel thread, 2 queues | the run queue agrees with the thread states; `hlt` only with nothing runnable; each waiter linked once; "interrupted" reported exactly without a wake-up; refinement of `EventWait`; every runnable thread runs and leaves its wait, unless the kernel hangs in `SuspendSelf` |
| `timer` | 2 user threads of 2 processes, 1 kernel thread, clock 0..2 | each queue entry freed by one side and `alarmPtr` exact (`EntriesFreedOnce`); nobody sleeps less than asked for unless the clock is set forward, a tick takes a whole queue when all of it is due and nobody before, no beep past its end but one with end 0 (`EndsOnTime`) |
| `process_family` | 3 process slots with 1 thread each, waits by process id and for any | lists and objects agree, no panic, no exit missed |
| `process_threads` | 2 process slots, up to 3 threads, 1 kernel thread, waits for any | lists and objects agree, nothing alive is reaped, no exit missed, the reaper does not sleep on work, the page directory is that of the running process, but for a thread that comes back to a close (`OwnAddressSpace`) |
| `signal` | 2 threads, 4 signals | a thread does not sleep on a signal of its own; SIGSTOP and SIGCONT are never both pending; a wait ends only for a signal |
| `memory` | 2 contexts, 2 user pages, 2 pages in each zone | reference counts and the count of free pages are exact; a writable page is not shared; mapped pages lie in regions; refinement of `AddressSpace` |
| `block_cache` | 3 threads, 2 blocks of 2 cells, 4 block objects | a block that is found and OK equals the device; one transfer per block; no sleeper forgotten; counts equal holders until a whole cached block is written |
| `files` | 2 threads of one process and 1 of the process it forks, 2 descriptors, 3 files, 6 calls | counts equal descriptors and calls, but for files closed early and races with a close; an open keeps its descriptor |
| `vfs` | 2 threads, 4 devices (two of one name) for 3 slots, 2 types, 3 file systems, 2 device files, 7 calls | locks and counts match the mounts; the mounts are a tree; `..` undoes every step down, and every mount and device is reachable (`LookupFollowsMounts`); names match slots; a file acts on its device while that is registered, then on none or an heir, and every other device has as many opens as open files (`FilesKeepDevice`) |
| `hash_table` | 3 items with 2 keys, 5 virtual pages, arrays of 2 buckets and up | the table implements a finite map, also for two keys in one bucket; its array is an area of its own |
| `slab` | 2 caches of large objects, two or one to a slab, 6 slabs | every object is used or free, never both; the lists match; headers and descriptors are not lost; for every size below `UINT_SIZE` a cache is made or refused as the code says, and the loop finds the number of pages that its comments describe (`SuitablePages`), with at least one object; `MemKAlloc` picks the smallest cache |
| `cpu` | idle and 2 user threads, IRQs 1 and 9, 2 handlers, 2 entries, 4 registrations, creations and reaps | a thread computes with its own registers; no SIGFPE for using the FPU; PIC masks match the table and both PICs are told of every interrupt (`PicMatchesTable`); every handler is called |

The type invariant of a module other than `WaitQueue` is a conjunct of one of its
invariants: `EntriesFreedOnce`, `ListsMatchObjects` (`Process`),
`NoThreadSignalSleptOn`, `PagesCounted`, `CountsExact`, `LocksMatchMounts` and
`NamesMatchSlots`, `OwnsArray`, `ObjectsAccounted`, `KeepsRegisters` and
`PicMatchesTable`. `EntriesFreedOnce` and `ListsMatchObjects` also have the
scheduler's `RunQueueMatchesStates`.

### Bounds

Three threads are the smallest number with a running thread, an older and a
younger waiter; two queues show a thread linked to the wrong one. A quantum of
one tick makes every tick a possible preemption; nothing depends on its length
but being positive. Three process slots give a grandparent, parent and child,
and one slot to be reused after a reap. The clock starts at 0, so that an end
time of 0, which stands for "no beep", occurs; it runs long enough for two sleeps
and an alarm to overlap, for a tick to meet one due and one not, and for the clock
to be set forward and back between them. A close may block uninterruptably in both
process runs, interruptably in `process_threads`.
`ProcessFamily.cfg` waits for processes by id and for any. `ProcessThreads.cfg`
waits only for "any": waits by id in a process with several threads meet the stale
`chosenOne` described below, and in a process with one thread `ProcWaitThread` has
only the caller itself to name, so no run waits for a thread by its id. Six physical
pages are just enough for two directories, two tables, a shared page and its
copy, so every allocation of `Memory` also fails somewhere; two pages in a zone
let the search wrap around. One region per context, of two pages at most, is
enough for a page to be cut off and one to stay; regions that grow into each
other are left out of the instance.

Three threads on the block cache are one that transfers, one that waits for it,
and one that reads the block again after the first one failed; four block objects
let failed blocks stay with their holders while new ones are made. Six calls in
`Files` are enough for an open, a dup or fork, a use and two closes to overlap.
Three file systems give a chain of mounts and two mounts onto one directory. Two
device files and a slot more than they need let a device keep its file while the
slot of another is given away. The hash table starts with two buckets, so that it
grows at its second item; the two keys share a bucket of two and of four, and not
of eight. The caches of the slab run have large objects, whose headers are
objects themselves; slabs with their header inside are those of the allocator's own
two caches. `UINT_SIZE` is 2^16 instead of 2^32: beyond twice the limit of 32 KB
sizes differ only in wrapping around at the end. `fpuSwitches` counts modulo 3 with
a threshold of 1 so that it wraps; the code has 256 and 10. Irqs 1 and 9 have one
line in each PIC. IRQ 8 is not in the instance because its line is never unmasked.

Symmetry is used only for interchangeable threads, slots, contexts, handlers and
memory cells, and not in the run with liveness.

### Fairness

Only `wait_queue` checks liveness. Weak fairness of the steps inside the kernel
and of the idle loop: kernel code is not interrupted. Weak fairness of
`KernelYield`: kernel threads are cooperative, and one that never yields would
stop the kernel. Strong fairness of `TimerInterrupt`: a tick stays requested at
the PIC until it is taken, however often other interrupts come first. Nothing is
assumed of user code, nor that `SuspendSelf` ends: `RunnableRuns` says that a
runnable thread runs or that the kernel is `Hung` in that loop.

That exited threads are reaped follows from two checked properties:
`ReaperHasItsWork` says that the reaper is runnable while its list is not empty,
and `RunnableRuns` that a runnable thread runs (short of that hang);
`process_threads` is too large
for TLC to check the liveness formula itself. Nothing eventual is claimed of a
writer that waits for a busy block: the loop of `IoBlockCacheWriteBuffer` can
lose the race to other writers for ever.

## What is proved

Eight modules hold proofs. `SchedulerProofs` proves, for each operator of
`Scheduler`, that it keeps the run queue, the thread states and the idle thread
in agreement (`SchedInv`); the proofs of `WaitQueue` and `Signal` rest on it.
The memory proofs are in two modules: `MemorySpaceProofs` has the invariant, the
lemmas on physical pages and the operations on contexts, `MemoryProofs` the rest.
Each proof has the same form: a conjunction (`IInv`) that `Init` implies, that
every action keeps, one lemma per action, and that implies the property.
Each `IInv` was checked by TLC on the configuration of the run before it was proved.

| Theorem | Property |
|---|---|
| `WaitQueueProofs!TypeCorrect`, `RunQueueCorrect`, `IdleCorrect`, `LinkedOnce`, `NoLostWakeUp` | the five invariants of `wait_queue` |
| `WaitQueueProofs!Refinement` | `WaitQueue` implements `EventWait` |
| `SignalProofs!NotSleptOn`, `StopsOrContinues`, `WaitEnds` | the three invariants of `signal` |
| `SignalProofs!RunQueueKept` | `RunQueueMatchesStates` and `IdleOnlyWhenNothingRunnable` in `Signal` too |
| `CpuProofs!RegistersKept`, `PicCorrect`, `HandlersAllCalled` | the three invariants of `cpu` |
| `BlockCacheProofs!TransfersExclude`, `SleepersWoken`, `CountsKept`, `CacheCoherent` | the four invariants of `block_cache` |
| `MemoryProofs!CountsKept`, `WritesArePrivate`, `MappingsHaveRegions` | the three invariants of `memory` |
| `MemoryProofs!Refinement` | `Memory` implements `AddressSpace` |
| `VfsProofs!LocksAndCounts`, `NamesAndSlots`, `FilesAndDevices` | the three invariants of `vfs` that are not about lookups |

**Wait queues**, for any finite set of threads, any set of queues and any positive
quantum. None of the five invariants is inductive alone: that the run queue has
no repeats needs that a wake-up finds a waiter blocked, which is
`WaitersLinkedOnce`; that "interrupted" is reported exactly without a wake-up
needs both. Most actions are "quiet": they change no wait queue, and make at
most an interruptable waiter runnable by a signal (lemma `QueuesUnchanged`).
The others, blocking, ending a wait, and the two wake-ups, have a lemma each. For
the refinement, quiet steps are stutters or `GiveUp`, and every other step is one
step of `EventWait`.

**Signals**, for any finite set of threads and any signals, masks, actions and
exceptions. That a thread asleep has no unblocked signal of its own needs to know
where it sleeps, in `ProcSignalWait` or `SuspendSelf` (`ThreadOK`), because only
there a signal that arrives makes it runnable; that a wait ends for a signal
needs that a signal that ended it stays pending until the thread runs.

**Processor**, for any set of threads, IRQs, handlers and entries, and any bounds
on calls. `KeepsRegisters` speaks of the current thread; the invariant says it of
all: the owner's values are in the registers, everybody else's in memory
(`OwnerKept`, `SavedKept`), and TS is clear only for the owner
(`TrapsUnlessOwner`). They hold while nothing was freed that is still named by
`fpuCurrent` (`Safe`; see `process.c` 697 below). `NoHandlerMissed` needs that the
handlers still missing are ahead of the walk (`MissingAhead`), which is kept
because registering appends, and that no two entries of a chain share memory.

**Block cache**, for any finite set of threads, any sizes of block and device,
any requests and failures. The four invariants are proved together: one transfer
per block follows from the agreement of a block's state with the thread that
transfers it (`PointerOK`, `BlockOK`) and from a block being found at one offset
only (`TableOnce`); that a cached block equals the device needs what the block
holds during a write (`ContentsOK`). All of it depends on no block being freed in
use, which is `CountOK`, and ends when a whole cached block is written
(`io/bcache.c` 362 below). `CacheCoherent` has one more assumption, that 32 bits
can address the device: `Align` clears the upper half of an offset, and on a
larger device two blocks would share one place of the table.

**Memory**, for any finite set of contexts, any sizes of the three zones, any
regions and any values, and any number of user pages within the one page table
that the model gives each context. The invariant counts the
uses of a page as directory, as table and as mapped page separately (`DirUses`,
`TabUses`, `MapUses`): lemma `CountChange` turns "one use more, or less, and the
count changed by one" into the exact count, so the loops of `MemContextClone` and
`MemContextDelete` are treated page by page. A directory and a table have count
one, a context maps a page once, and what is writable has count one (`PagesOK`);
so the page that copy on write takes over without copying has no other use.
Every mapped page is in a region and regions are sorted by their start
(`RegionsOK`), which is what makes the search of `MemRegionFind` find it, also
where a region has grown over the next one. For `AddressSpace` the memory of a
context maps to the contents of its mapped pages, zero where there is none, and
`ready` to its writable entries. A step then changes what is seen only in
`UserAccess`; the other lemmas show that a page that is mapped anywhere keeps its
contents: pages are wiped or copied into only when they had count zero, so no
context sees them (`Alive`, `MappedAlive`).

**Mounts and devfs**, for any sets of threads, types, devices, file systems and
files, finite or not: that only finitely many file systems are allocated, and
finitely many files open, is part of the invariant. `LocksMatchMounts` is not
inductive, because it says nothing of the calls that are blocked. Each of them
works on a file system of its own, onto which nothing is mounted, and which no
mount point leads to unless it is being unmounted (`CallsOK`); so what a failing
mount gives back was taken by that mount, and nothing is mounted onto a file
system that goes away. That a free file system holds nothing, that mount points
are children and that the root has no parent (`TreeOK`) makes the counts change
by exactly one at every exit. For devfs, `FilesKeepDevice` says of every file that
the device in its slot is its own, or none or an heir (`DeviceOK`), and of every
registered device that is no heir that its opens are the files that have it
(`Accounted`). It is inductive once
names match slots, so that a device is in one slot, and a closed file refers to
nothing (`HandlesOK`). Registering is the step that needs both halves: the slot it
takes may be one that files still refer to, and then the new device is an heir.

The assumptions are those named in the modules: sets of threads and contexts are
finite, `NoState` is not a value of the registers, there is a value to write, the
kernel's context is not a user's. TLC evaluates them on every run.

Only model-checked:

* `RunnableRuns`: liveness, and with it ENABLED, is out of the prover's reach.
* `LookupFollowsMounts` and the invariants of `Slab`: `IoLookupPath` and
  `MemSlabDestroy` are folds over sequences, and what a fold computes for every
  input needs an induction the provers cannot instantiate. The layout arithmetic
  of `Slab` is evaluated for every size below `UINT_SIZE`.
* The invariants of `Timer`, `Process` and `Files`, and `OwnsArray` and
  `ImplementsMap` of `HashTable`: no obstacle is known, the proofs are not written.
  `HashTableReserve` needs that doubling reaches every count, an induction.

## Other places where comments and code disagree

Met while translating. The models follow the code; no run is spent on these.

Processes, timer, signals:

* `timer.c` 124 inserts before the first entry with a smaller time, so the queue
  is in descending order; the comment at 123 asks "Is this time more than ours?"
  of the entry, and the tick stops at the first entry that has not expired. A
  short sleep behind a longer one is woken late, with it.
* `timer.c` 105: setting the clock forward ends sleeps before "at least the
  specified length of time" (`timer.h` 77), and setting it back makes them longer.
  A beep whose end is 0 is taken for none and plays on.
* `timer.c` 158 returns the time left with the wrong sign (`timer.h` 80).
* `process.c` 641: the last-thread test counts zombies that are not reaped yet,
  so a process whose threads all exit may never end. 640 says "If this is the
  last thread, pass on to ProcExitProcess".
* `process.c` 356: `chosenOne` is checked once (329, "ID must be a child
  process") and used after every wait; another thread of the process may have
  reaped it meanwhile.
* `process.c` 632: children get the kernel's list but keep their old parent
  (comment at 58); nobody reaps such an orphan.
* `process.c` 556 closes the files after the memory context is gone (550). A close
  that blocks ("close may block", `io/iocontext.c` 70) is returned to through
  `MemContextSwitchTo(NULL)`.
* `process.c` 341: "There must be a child process" is checked once; of two
  waiters for any child the second may stay blocked with no child left.
* `signal.c` 276 looks for a thread to wake among the child processes, so a
  signal to a process whose threads all sleep wakes nobody (272: "Wake up an
  interruptable thread").
* `signal.c` 326 and 336 keep exactly the signals that they should remove.
* `signal.c` 383 and 390 use the index of a bit for the bit: SIGKILL and SIGSTOP
  are not noticed there, SIGILL ends a thread, SIGINT and SIGTRAP suspend it.
* `signal.c` 32 returns when the thread is not blocked ("Already running"), so
  SIGCONT to a runnable thread with SIGSTOP pending is dropped and the thread stops.
* `signal.c` 350 leaves an ignored signal pending on the threads.
* `signal.c` 59: with any other unblocked signal pending `SuspendSelf` loops for
  ever in the kernel.

Processor:

* `process.c` 697 frees the FPU state of the current thread, not of the one
  reaped. The reaper loses its registers, the reaped thread's state leaks, and
  `fpuCurrent` may be left pointing to a freed thread, or to the new thread that
  gets its memory, although "fpuState must be valid for these" (`cpu.c` 36).
* `interrupt.c` 242 and 307 test `irq > 8`: IRQ 8 is never unmasked.
* `interrupt.c` 165: a handler that unregisters itself or its successor makes the
  walk skip a handler or go on from a freed entry. Unregistering a handler of
  IRQ 2 masks the cascade line, and with it the slave.
* `hwTime.c` 160 converts from 12 hours when the 24-hour flag is set;
  `process/tls.c` 38 shifts the upper byte of the base out of the descriptor.

Memory:

* `mm/physical.c` 163: in a full zone whose `headPtr` is its start the search
  never ends, although "zones contain all the zones that are below them"
  (`mm/physical.h` 110). `head` is compared before it is wrapped.
* `mm/region.c` 449 tests the region's old length for collision, so a region can
  grow over the next one.
* `mm/region.c` 376 compares a region to be added at the end with memory behind
  the context, and may refuse it.
* `mm/region.c` 248 divides addresses by the page size and unmaps the quotients.
* `mm/pageFault.c` 101 wipes a new page through its user mapping, which panics
  when the region is read-only (CR0.WP is set).
* `mm/pagingInt.h` 155 masks the table index with 12 bits instead of 10;
  `mm/pageMapping.c` 112 returns "not empty" when the count reaches zero.
* `mm/check.c` 62 fails for regions that are contiguous, and not for others.
* `mm/slab.c` 125 aligns the size 0 and the three largest to 0, which passes the
  only check (128) and divides by zero at 168.
* `mm/slab.c` 400 leaves the slabs it frees on the list of empty ones.
* `mm/slab.c` 377: with one object per slab an emptied slab goes to the partial
  list, and `MemSlabDestroy` refuses a cache without objects.
* `mm/vmalloc.c` 155 maps pages at NULL when nothing was reserved.
* `htable.c` 242 never ends for an empty table; 257 compares the bucket count
  with an eighth of itself, so `HashTableShrink` never does anything.

Files:

* `io/iocontext.c` 89: closing a file that has other references only lowers its
  count; the descriptor stays open, and closing it again frees the file under
  its other users. The same happens to a descriptor that IoDup replaces while
  another call uses it.
* `io/iocontext.c` 63: a file that is taken while its `close` blocks is freed
  under the one who took it; a `close` error when a context is deleted leaks it.
* `io/iocontext.c` 80 remembers the highest, not the lowest, free descriptor.
* `io/iocontext.c` 278: the offset is advanced after a read that may block, so two
  reads in progress use one offset. `IoRead` asks `MemCanRead` of the buffer it
  writes, and `IoWrite` asks `MemCanWrite` of the one it reads.
* `io/open.c` 261-366: most early returns keep the descriptor reserved, and a
  fork during an open copies the reservation for ever. 433 frees a file that was
  opened without closing it. 410 calls `open` without a look whether there is one.
* `io/open.c` 135 and 144 go past the end of a path that ends in `.`, or in `..`
  at the root.
* `io/mode.c` 39 and 47 use the bits of the wrong class for the owner and the world.
* `io/mount.c` 43: registering a type empties the list first, so only the last
  type is found; registering one again, or unregistering any, empties the list.
* `io/mount.c` 170 unmounts an uninitialised `newFs` after a failure, leaves the
  parent's count raised, and tests the result the wrong way round; a mount that
  loses the race for its directory returns 0. 124 and 248 use a NULL device.
* `io/mount.c` 212: open files are not counted, although `io/fs.h` 324 says so, and
  a file system can be mounted onto while its `umount` blocks. A file system
  mounted onto a root directory is not found by lookups.
* `io/devfs.c` 94: iNodes are not shifted by one, so the device in slot 0 looks
  like the root directory. 241: a file keeps its slot after its device is gone
  and reaches the next device there, which also gets its close. 257: a read
  returns 0, so no offset advances.
* `io/bcache.c` 362: writing a whole cached block takes no reference but gives one
  up. 361 clears the upper half of the offset with a 32-bit mask. 92 leaves the
  hash table uninitialised. No block is ever on `blockList`, so destroying a cache
  always succeeds and loses the blocks. 289 checks the buffer for the wrong
  access. A read during a write sees data that is not on the device yet.

## Not modelled

* `mm/check.c` is a read-only walk over the regions of `Memory`. Its test is
  inverted, so no property of it holds that is more than the loop itself.
* `hwTime.c` and `process/tls.c` compute one number each from registers or an
  address; there is no state and nothing runs at the same time.
* `IoBlockCacheDestroy`, `DevFsReadDir` and `HashTableShrink` cannot be reached or
  do nothing, as described above. `IoContextAddReference` is never called.
* File offsets and buffers: the calls of `Files` move no data, so the offset race
  above is described and not checked.
* Allocation of several contiguous physical pages, out-of-memory paths of process
  creation, exit codes and process names.
* `kMain.c`, `mm/memInit.c`, `loader.s` and `cpuAsm.s` run once, before interrupts
  are on; the initial states stand for their result.
* `exceptions.c`: a handler sends one signal, which is `SendOrCrash` in `Signal`,
  or panics. `log.c` and `utils.c` are output and primitives.

## Plan

1. Proofs: `ListsMatchObjects` and `ReaperHasItsWork` of `Process`,
   `EntriesFreedOnce` and `EndsOnTime` of `Timer` on top of `SchedulerProofs`;
   `OwnsArray` and `ImplementsMap` of `HashTable`; `OpenOwnsDescriptor` of `Files`.
2. `Memory`: two regions per context, three contexts, allocation of several pages.
3. `PathLookup` with blocking `readINode` and `findINode`.
