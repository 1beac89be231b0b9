# A TLA+ model of the STRELA driver and library

STRELA is a coarse-grained reconfigurable array (CGRA) that runs one job at a
time: it loads a configuration, then executes it on four input and four output
columns. This directory models the Linux driver for it, a DRM accel driver on
the GPU scheduler `drm_sched`, and the user space library above the driver.
Paths below are relative to `src/`.

## The system

| Part | Source | Modules | State |
|---|---|---|---|
| Job lifecycle on the scheduler | `driver/strela_job.c` | `StrelaJob`, `StrelaQueue` | modelled |
| Module, devices, probe and removal | `driver/strela_drv.c`, `strela_hw_setup` | `StrelaDevice` | modelled |
| Buffer objects and their references | `driver/strela_gem.c`, bindings of `strela_job.c` | `StrelaGem` | modelled |
| Simulated device | `driver/strela_core.c`, `is_sim` | `StrelaSim` | modelled |
| CGRA backend and its interrupt | `driver/strela_core.c` | `StrelaHw` | modelled |
| Column checks and size registers | `driver/strela_job.c`, `strela_core.c`, `strela_driver.c` | `StrelaBinding` | modelled |
| Library: jobs, device, old interface | `lib/strela.c` | `StrelaLib` | modelled |
| Library: kernels, buffers, cache ranges | `lib/strela.c` | `StrelaBuffer` | modelled |
| Free list allocator | `lib/allocators.c` | `StrelaFreeList` | modelled |
| Pool allocator | `lib/allocators.c` | `StrelaBuffer` | but for `pool_free`, which is unreachable |
| Arena allocator | `lib/allocators.c` | | unused, not modelled |
| Character device driver (older) | `driver/strela_driver.c` | `StrelaCharDev`, `StrelaBinding` | but for register packing and `mmap` |

A client's submit ioctl builds a job, arms it, publishes its fence in a sync
object and pushes it to the client's scheduler entity. The scheduler's
workqueue calls `strela_run_job`, which puts the job on the device
(`sdev->active`). The device ends each of its two phases with
`strela_job_phase_done`; the end of the second signals the job's `hw_fence`,
which makes the scheduler signal the fence the client sees. A job that takes
500 ms is taken off the device by `strela_timedout_job`. Removal
(`strela_job_fini`) stops the scheduler and finishes what is left. The library
keeps sixteen job slots and turns each fence into a descriptor that it polls.

## The modules

**StrelaQueue** is the abstract promise: each job pushed is finished once, those
of one client in order, and the device works for one job at a time.

**StrelaJob** is the driver on the scheduler. Five threads of control
interleave: ioctls and closes, the scheduler's ordered workqueue (`wq`), its
timeout work (`tdr`), removal (`rm`), and the device. A critical section of
`sdev->lock` is one step; everything else that another thread can see is a step
of its own. The scheduler is external code, modelled from how the driver uses it:
its lists, its one credit, its callback on the `hw_fence`, and the halves of
`drm_sched_stop`, `drm_sched_start` and `drm_sched_fini` between which other
threads can run. A job is named by the seqno of its `hw_fence`. In this module
the device may call `strela_job_phase_done` at any time for any phase.

**StrelaSim** and **StrelaHw** add the two backends, and both are shown to
implement `StrelaJob`. `StrelaSim` has the worker `strela_sim_work`, its waits,
and the line `sim_abort`. `StrelaHw` has the pending bits of the CGRA, the hard
interrupt handler and its thread. The engine itself is external, and the
repository does not say whether a reset clears a pending bit: the constant
`ResetClearsInterrupts` covers both.

**StrelaDevice** is the life of the module and of its devices: `strela_init` and
`strela_exit`, `strela_probe` with `strela_hw_setup` one step at a time, each of
which may fail, the managed resources the driver core releases in reverse, and
unbinding through sysfs.

**StrelaGem** extends it with files and buffer objects. The reference count of an
object (`count`, what the code counts) and those who point at it (`holders`:
handles, mappings, dma-bufs, ioctls on their way, bindings of jobs) are separate
variables, so that the one can disagree with the other. An ioctl is several
steps, between which another thread of the client may close the handle. A job
here has only the states its references depend on; `StrelaJob` has the rest.

**StrelaBinding** is one input column: `strela_binding_check` in u64,
`strela_input_size` in u32, the copy loop, and the older driver's
`strela_check_bounds` in u32. The widths are constants.

**StrelaCharDev** is the older driver: its exclusive open, the ioctls that wait
for a completion with a limit, the interrupt, and the resources its init and
probe acquire and its error paths release.

**StrelaFreeList** is the allocator of buffers: the sorted list of free blocks,
headers with their padding, both placement policies, and coalescing. Rounding a
size wraps around as `size_t` does.

**StrelaBuffer** extends it to the buffers and kernels of the library: handles
from and to pointers, flush and invalidate with the rounding of the library and
the checks of the driver, and the pool, whose links are in the chunks it hands
out.

**StrelaLib** is the job submodule of the library with the descriptors of the
process: 0 is standard input, and the kernel hands out the lowest that is free.
It has the search of `/dev/accel`, opening with a failure at any step, reopening
and closing, and the old interface. The library is used by one thread
(`include/strela.h`), so a call is one step and a blocking call is enabled when
what it waits for has happened; `strela_execute`, whose wait has a limit, is two
steps, with time in units of the driver's timeout. A signal may interrupt its wait, which
`strela_job_update` takes for a job that is still pending, and may interrupt
`strela_job_slot_finish`, which aborts; the process then ends and another begins
(`ProcessEnds`). A job that the device still has when the process ends, or when the
device is closed with an error, is the `orphan` for which later jobs wait. Reading `/dev/accel` is a step
for opening the directory, one for each entry that is opened, closed again or
found to be the device, and one for the end (`OpenDir`, `OpenEntry`, `CloseEntry`,
`FoundEntry`, `EndOfEntries`), so that there may be any number of entries of any
kind; then each ioctl and mmap of `strela_dev_init` is one (`Acquire`,
`AcquireFails`). Below the library, jobs end in order, as `StrelaQueue` promises.

The modules `MC...` instantiate these for TLC. `MCDrivers` puts the two drivers,
of which a machine loads one, and the columns side by side; `MCLibrary` does so with the parts
of the library, which share nothing but the sticky error. Operators commented "mutant" are
deliberate mistakes, used to confirm that each property can fail; no
specification uses them.

## What the runs show

| Run | Config | Bounds | Result |
|---|---|---|---|
| `job` | `MCJob.cfg` | 1 client, 3 jobs | holds |
| `job_two_clients` | `MCJobTwo.cfg` | 2 clients, 2 jobs, fair | holds |
| `job_racing_ioctls` | `MCJobRace.cfg` | 2 ioctls of a file at once | violated |
| `sim` | `MCSim.cfg` | 2 jobs, 2 columns, fair | holds |
| `hw` | `MCHw.cfg` | 3 jobs, prompt interrupts | holds |
| `hw_late_irq` | `MCHwLate.cfg` | late interrupt thread | violated |
| `drivers` | `MCDrivers.cfg` | 3 devices; 2 files, 1 object, 2 jobs; 4 ioctls of the older driver; half registers of 4 bits | holds |
| `region_end` | `MCBinding.cfg` | half registers of 4 bits | violated |
| `library` | `MCLibrary.cfg` | 2 slots, 3 submissions; signals; 144 words; 4 kernels | holds |
| `lib_failed_export` | `MCLibExport.cfg` | an export may fail | violated |
| `lib_execute` | `MCLibExecute.cfg` | 4 slots | violated |
| `buffer_size_wrap` | `MCLibWrap.cfg` | a size one word below `SIZE_MAX` | violated |

`job` checks the rules the driver's comments and `DESIGN.md` state: the job on
the device is alive and unfinished (`ActiveIsUnfinished`), a started job has
exactly one place that will free it (`StartedIsHeldOnce`), the one credit is
exact (`OneCredit`), a completion is never lost to a timeout or to a callback
added too late (`CompletionIsHeard`), a job always has a timer
(`TimeoutIsArmed`), and removal retires every started job. It also checks that
the driver implements `StrelaQueue`, by which a fence reports one outcome. `job_two_clients` adds dependencies across clients and the liveness
property `EveryJobEnds`: every fence that was published signals, although the
device may hang on every job.

`sim` shows that the worker, which uses a job after dropping the lock, never
uses a freed one, also when it is queued again before its last run has returned,
that it copies nothing once the client's fence has signalled, and
that `strela_hw_stop` returns however long a phase sleeps. `hw` shows that no
interrupt is lost and that success means that the job ran on its own
configuration, provided an interrupt is handled before a timeout resets the
device. Both check that the driver on that backend implements `StrelaJob`
(`SimImplementsJob`, `HwImplementsJob`).

`drivers` asks three things of the accel driver. Whoever can reach a device, by
its shared interrupt or by opening it, finds what the code relies on, at every
step of a probe and of a removal (`ReachableIsReady`), and an unloaded module
leaves nothing (`NothingIsLeft`). A buffer object is whole as long as anyone
points at it, be it a job whose client has gone, and freed once nobody does
(`UsedIsAlive`, `NothingIsLeaked`). A range that reaches the DMA API is inside its
object (`SyncInBounds`). Of the older driver it shows that an ioctl that returns
0 means that its phase has ended, as long as no earlier ioctl gave up
(`OkMeansFinished`; the comment at `driver/strela_driver.c:130` asks just that,
and after a timeout the answer is that the late completion answers the next
ioctl); that a waiter whose phase has ended is woken (`WaiterIsWoken`); and that
a failed load leaves nothing but the pages of a probe that could not get its
interrupt, which two returns skip (`CharDevLeavesNothing`). Of the columns it
shows that the checks of both drivers decide what exact arithmetic would
(`CheckIsExact`), and that an accepted column is encoded without loss and read
inside its object (`RegisterDecodes`, `WordsInBounds`).

`library` shows that freeing a job waits for it, that a status is that of the
last submission, and that no descriptor or mapping is lost or closed twice
however the search for a device or its opening ends (`DescriptorsAreOwned`). The
exception to the first and the last is closing a device while an error stands.
`strela_execute`, unless a signal interrupts it, finds its job pending only if the
jobs the driver had when it submitted, an orphan among them, could keep the driver
busy for its whole wait (`PendingIsLate`). The free list loses nothing and gives nothing out twice (`ArenaIsTiled`), joins all
free neighbours, as the torture test in `tools/test_allocator.c` asserts at its
end (`FreeBlocksAreJoined`), and keeps its metadata apart from what a user who
stays inside their buffer writes (`MetadataIsSafe`). What the library asks the
driver to sync the driver accepts, and it touches one buffer and no metadata
(`SyncIsSafe`). Freeing all kernels gives back each slot once (`PoolIsSound`).

### Disagreements

1. **Racing ioctls** (`DependencyHeldBack`). The fence is published before the
   job is queued. Another ioctl of the same file can depend on it and be queued
   first; the scheduler ignores a dependency within an entity, so the dependent
   job runs first. The comment says "The scheduler holds the job back until
   that fence signals" (`driver/strela_job.c:309`).
2. **Late interrupts** (`ExecAfterOwnConfig`). If the interrupt thread is
   delayed past the reset by a timeout, the stale completion ends the CONFIG
   phase of the next job. `strela_job_phase_done` means to drop a "Spurious or
   late completion" (`driver/strela_job.c:51`) and can tell it only by the
   phase. The run assumes that the reset clears the pending bits; the status
   already read by the hard handler is enough. It needs a thread delayed from
   just before the reset until after the next start, which is a short window.
3. **Failed export** (`FreedIsFinished`). Resubmitting a finished job closes its
   descriptor and keeps the number. If the export then fails, freeing the slot
   polls a closed descriptor and does not wait for the job, against
   `lib/strela.c:544`.
4. **strela_execute** (`ExecuteIsFinal`). It asserts that its job is over after
   two seconds, because "The driver should fail the job even before two seconds."
   (`lib/strela.c:1046`). The driver gives each job 500 ms from its start, so that
   three jobs ahead that time out use up the wait. In the run they are the
   client's own; another client's do the same. A signal has the same effect at
   once: `strela_job_update` leaves an interrupted job pending, "the caller may
   retry" (`lib/strela.c:783`), and `strela_execute` does not. `library` has the
   signals, and `PendingIsLate` is what holds in spite of both.
5. **Size of a buffer** (`TooBigIsRefused`). A size less than a cache line below
   `SIZE_MAX` is rounded up to 0 in `free_list_alloc`, and a valid buffer with
   more words than the memory has is returned, where `include/strela.h:55`
   promises an error. The run is of a 32-bit machine, as the board is. Sizes just
   below those wrap around later, with the header added; `FreeListFits` leaves
   them out.
6. **End of the region** (`RegionEndIsRefused`). `strela_check_bounds` of the older
   driver refuses a column that ends after the region (`driver/strela_driver.c:116`);
   the comment above it also has one that ends with it, ">= DATA_REGION_SIZE"
   (`driver/strela_driver.c:99`). The code is right: by `CheckIsExact` what it
   accepts is inside.

Some observations have no run, because nothing in the repository states the
opposite as a rule. The seqno of a `hw_fence` is taken when an ioctl starts and
its place in the queue when it ends, so fences of the one context can signal out
of order, although `DESIGN.md:207` bases that context on a strictly ordered
queue. Flushing the last words of a buffer whose size is not a whole number of
lines is refused with `BAD_ARG`, since the rounding leaves the buffer. A flush
whose offset and count add up to more than a `size_t` holds (`lib/strela.c:474`)
is not: it wraps around to a range inside the buffer, which may be empty, and is
reported as done. `SyncIsSafe` says that this range is safe, not that it is the one
asked for.
`strela_buffer_inval` with a range that is not of whole lines replaces an error
that stands. Closing a device while an error stands forgets the descriptors of
its jobs; `close(2)` waits for all but the last of them, which goes on by itself.
The node of a device can be opened before `strela_init` has returned. If
registering a simulated device then fails, the module goes away under the open file;
`NothingIsLeft` says that nothing of a device is left, not that no client is.
After an unbind the files that are open go on making ioctls, although
`driver/strela_drv.c:147` says "stop new ioctls" of `drm_dev_unregister`; what they
then find of the scheduler is not modelled (see the assumptions).

Two divergences are comments only. `driver/strela_device.h:24` says that
`sim_abort` is raised under the lock; `strela_hw_stop` raises it without. The
model raises it without, and the properties of `StrelaSim` hold.
`lib/allocators.c:361` says that the `block_size` of a header is what comes "after
this header"; `free_list_alloc` counts the padding and the header in it as well,
and `free_list_free` relies on that, as does `ArenaIsTiled`.

### Bounds

Three jobs are the fewest with one finished and waiting to be freed, one on the
device and one queued, and so with the timeout walking a list of two. Two
clients are the fewest with a dependency across entities; the state space of two
clients with three jobs exceeds the time for a run, and the safety properties in
it are proved for any number. Two columns distinguish the first, the last and
an abort between them. In `drivers` and `region_end` the offsets, counts, strides and object
sizes include both sides of each limit of the narrowed widths. Two job slots and
three submissions allow resubmission, reuse of a slot and two jobs in flight, and
with a wait of one and a half timeouts two jobs can use it up;
the second STRELA is sought, so that one is passed over, and there is no bound on
the entries of other drivers. Four descriptors beside standard input are fewer than
a search with two jobs in flight, so that opening an entry can fail for lack of one.
`lib_execute` needs four slots, and its specification (`QueuedAheadSpec`) keeps to
the behaviours in which nothing fails, `strela_dev_count` finds no entry and jobs
end only while `strela_execute` waits.

In `drivers` three values of `sim_dev_count` are none, fewer than there is room
for and more. Clients open the CGRA, and only when no simulated device is loaded
(`OpenLoads`): the devices share nothing but the module, and the product of both
is large. Two files and two jobs of two bindings each are the fewest in which an
object outlives the client that made it, by a dma-buf and by a job, and in which
an error path has a binding resolved and one to go. One object is enough for its
count, because no operation relates two; the theorems are for any number. In
`library` four buffers of no word, less than a line, a line and more than one
fill the memory in every order; the torture memory starts at an address that is
not aligned.

`MaxIoctls` is 1 in `job` and `job_two_clients`: each client submits from one
thread, as the library does. `job_racing_ioctls`, with 2, shows what more threads do.

### Assumptions and fairness

- `PromptTeardown`: between the two lines of `strela_job_fini` that cancel the
  timeout work and call `drm_sched_fini`, the free work may start the timer
  again, 500 ms ahead. The models take it that removal gets on within that time.
  Without this `StoppedStaysStopped` fails.
- `PromptIrq`: in `hw` only; `hw_late_irq` drops it.
- In `StrelaJob` removal waits for open files, as unloading the module does.
  Unbinding through sysfs with open files is in `StrelaGem`, with the references
  of the jobs and not their scheduling.
- A module that goes away under an open file (see above) is beyond the model: in
  `drivers` files are opened only where that cannot happen (`OpenLoads`).
- In `StrelaLib` no other client uses the device.
- An expired timer is served within a unit of time in `StrelaLib` (`Tick`).
- The program that calls the library uses only handles it was given and has not
  freed, and stays inside its buffers; one thread uses the older driver.
- Weak fairness on work items, on expired timers, and on the steps of an ioctl,
  close or removal that has begun: the kernel runs what is queued. None is
  assumed for clients, who need not submit or close, nor for the device. In
  `StrelaSim` a wait need end only when `sim_abort` is raised.

## What is proved

Every safety property that the runs check is proved for every value of the
constants. Eight modules hold the proofs:

| Module | Holds |
|---|---|
| `StrelaJobSteps` | steps of `IInv`: ioctls, files, the scheduler's workqueue, the device, the timeout, removal |
| `StrelaJobRefines` | steps of `DependencyInv`, of the refinement of `StrelaQueue`, of the types; steps of `SimInv` and `HwInv` |
| `StrelaJobProofs` | the theorems about `StrelaJob`, `StrelaSim` and `StrelaHw` |
| `StrelaGemProofs` | `StrelaGem` |
| `StrelaDriverProofs` | `StrelaDevice`, `StrelaCharDev` and `StrelaBinding` |
| `StrelaFreeListProofs` | steps of the free list: order, tiling, headers |
| `StrelaLibraryProofs` | the theorems about `StrelaFreeList`; `StrelaBuffer` |
| `StrelaLibProofs` | `StrelaLib` |

### Jobs

For any clients and any number of jobs `StrelaJobProofs` proves

- `TypeCorrect`: `Spec => []TypeOK`, without further assumption;
- under `PromptTeardown`, `Safety`: `Spec => []IInv`, and from it
  `ActiveIsUnfinished`, `NoWarning`, `StartedIsHeldOnce`, `OneCredit`,
  `CompletionIsHeard`, `TimeoutIsArmed`, `RemovalRetiresStarted`,
  `StoppedStaysStopped` and the action property `FenceSignalsOnce`;
- under `PromptTeardown`, `QueueRefinement`: `Spec => ImplementsQueue`;
- under `PromptTeardown` and `MaxIoctls = 1`, `DependencySafety`: `Spec =>
  []DependencyHeldBack`. Without `MaxIoctls = 1` it is false (`job_racing_ioctls`).

The properties support one another and none is inductive alone. `IInv` adds what
connects them: how far a job's `life` determines the rest of its state
(`LifeInv`); that an unfinished job is being started, is listened to, or is
suspended by the timeout (`UnfinishedInv`); and what each thread's position says
about the scheduler (`ThreadInv`, `RemovalInv`). There is one lemma per group of
actions and one step per action. Two lemmas about `LifeInv` carry most actions: it
survives a step that leaves a job alone, and a step in which a started job goes
on or is freed after it has finished. What leaves every other job alone
(`OtherJobsFrame`) or moves only a thread (`ControlFrame`) is shown once.

The refinement goes by action as well. The two actions that finish a whole list
in the code (`drm_sched_start` and `strela_job_fini`) are one step of the queue,
because by `OneCredit` the list has at most one unfinished job. That a job the
scheduler takes has none of its client's unfinished jobs before it (`HeadIsNext`)
needs three facts of `IInv`: it is the head of its queue, a credit is free, and
the queue of a killed job is closed.

A dependency on another client's job only makes the scheduler wait until that job
is scheduled, and one on a job of the same client makes it wait for nothing. That
the job has finished is due, in the first case, to the one credit: the job was
started, and a credit is free again. In the second it is due to the order of the
queue, and `DependencyInv` says what that takes: the job was pushed, and before
the one that depends on it. That fails if a client has two jobs whose ioctls are
under way, which the invariant excludes and `MaxIoctls = 1` keeps excluded.

### Backends

`SimRefinement` and `HwRefinement` prove that the driver on either backend
implements `StrelaJob`, without assumption. All of the above therefore holds for
both, and `IInv` may be used in the proofs of

- `WorkerServesActive`, `OkMeansCopied` and the action property
  `NoCopyAfterFence` of `StrelaSim`, under `PromptTeardown`, for any number of
  columns;
- `ExecAfterOwnConfig`, `OkMeansExecuted` and `InterruptIsNotLost` of `StrelaHw`,
  under `PromptTeardown` and `PromptIrq`, whether or not a reset clears the
  pending bits (`ResetClearsInterrupts`). `hw_late_irq` shows that the first is
  false without `PromptIrq`.

`SimInv` says that a worker which holds a job holds the one on the device, or one
that the timeout or removal has taken off it and does not let go until
`cancel_work_sync` has returned. `HwInv` says that the end of a phase is in
exactly one place on its way from the engine to the driver (`PassedOn`), that
engine and driver agree on the job and on its phase (`ActiveInv`), and that only
a job that was executed has a signalled fence (`EngineJobsInv`).

### Buffer objects

`StrelaGemProofs` proves, for any files, objects, jobs, bindings, page and line
sizes and widths, under `GemAssumption` only: `UsedIsAlive`, `NothingIsLeaked`
and `SyncInBounds`. The inductive invariant is `GemInv`. Its
heart is `CountIsExact`: the count of an object is the number of its holders, and
it has all its resources while that is not zero and none otherwise. That is
inductive only if no step adds a holder who is one already or removes one who is
not, for which `IoctlHolds` says which object an ioctl on its way holds, and
`BindingsInOrder` that a job resolves its bindings one after the other. Two
lemmas about getting and putting a reference carry all actions.

### Devices

`StrelaDriverProofs` proves `ReachableIsReady` and `NothingIsLeft` of `DeviceSpec`,
for any number of simulated devices and any value of `sim_dev_count`. `DeviceSpec`
is `StrelaDevice` on its own, with files that come and go as they like;
`DeviceRefinement` in `StrelaGemProofs` proves `GemSpec => DeviceSpec`, and so both
hold of the whole accel driver. By the inductive invariant `DeviceInv` the state
of a device and the step its probe has reached determine which resources it has
(`StageInv`). While a probe is undone they are a prefix of the managed ones, in
the order of the probe, because devres releases them in reverse; the lock goes
with the first of these and so outlives the interrupt.

### The older driver and the columns

`StrelaDriverProofs` proves, for any number of ioctls, `OkMeansFinished`,
`WaiterIsWoken` and `CharDevLeavesNothing`. In `CharDevInv`, `OneAtATime` says that
until an ioctl gives up at most one phase is on its way from the engine to the
ioctl, and in one place; `IrqInv` says that what the handler has not reported is
still pending, which is why zeroing the status in the thread loses nothing, also
after ioctls have given up; and `HeldInv` bounds what is held by what init and
probe have acquired.

It also proves, for every width with `0 < WordSize < HalfWord` and every set of
inputs: `strela_binding_check` decides in u64, and the older driver's
`strela_check_bounds` in u32, exactly what unbounded arithmetic would
(`CheckIsExact`); the size register of an accepted column decodes to the stride
and byte count asked for (`RegisterDecodes`); and the copy loop stays inside the
object (`WordsInBounds`). The argument: a span can wrap only if the stride alone
exceeds its field, which is why the separate check of the stride is needed; once
both fit, no later product or sum reaches its width.

### Memory of the library

`StrelaLibraryProofs` proves of the free list, for any memories, requests and
sizes of nodes, headers and alignments,

- `ArenaIsTiled` and `FreeBlocksAreJoined` from `FreeListAssumption` alone, also
  where rounding a size wraps around;
- `MetadataIsSafe` if no rounded size wraps around (`SizesFit`). If one does, the
  size in the header exceeds the block, which is how `buffer_size_wrap` comes about.

The inductive invariant is `FreeListInv`: the nodes are in the order of their
addresses and do not touch, a live block is apart from every node and every other
live block, every word of the arena is in a node or a live block (`Tiled`), and
`used` is the number of words in live blocks. `free_list_alloc` takes the first
words of one node out of the list (`Takes`), whether or not it splits it. In
`free_list_free` the order is broken for a moment: the new node may touch both of
its neighbours, and each half of `free_list_coalescence` mends one side, with the
words of the list unchanged (`SameWords`). That an arena of which all was freed is
one node again follows: two nodes that do not touch would leave a word between
them that no block has.

Of `MemorySpec`, in which a program uses buffers and kernels, it proves

- `PoolIsSound`, for any number of kernels. The invariant names the order in which
  the links go through the free chunks; taking the head leaves the rest of it, and
  a kernel that is written has no link;
- `SyncIsSafe`, under `SizesFit` and `SmallMemories`. `BufferInv` says that a handle
  is that of a live allocation that starts at a cache line, and that what was
  synced last is inside one handle. `SmallMemories` (a memory is at most a third of
  what a `size_t` counts) is needed because `strela_buffer_alloc` sees that the
  size in bytes has wrapped around only if the result is less than the number of
  words (`lib/strela.c:344`); a larger one must be refused for lack of room.

That the size of a kernel is a whole number of lines (80 words, five lines of 16)
is part of `BufferAssumption`: otherwise the driver would refuse to flush one.

### Jobs of the library

`StrelaLibProofs` proves of `LibSpec`, for any number of slots, descriptors,
submissions and entries of `/dev/accel` and any device sought,

- if no export of a fence fails (`~ExportMayFail`), `FreedIsFinished`,
  `StatusIsTheJobs` and `DescriptorsAreOwned`. The hypothesis is needed: with an
  export that fails the first is false (`lib_failed_export`);
- `ExecuteSafety`: `LibSpec => []PendingIsLate`, whether exports fail or not and
  whether or not there are signals. If a wait that was not interrupted ends with the
  job pending, the jobs the driver had at the submission, an orphan included, add up
  to the wait of `strela_execute` in timeouts. With the code's 500 ms and 2000 ms
  that takes four jobs, its own included. It is the program that has to see to it:
  the library has 16 slots, and with four jobs the assertion fails (`lib_execute`).
  Jobs of other clients, which share the device and would count as well, are not in
  this model.

The inductive invariant of the first three is `LibInv`. The library learns about a
job by polling a descriptor whose number it keeps in a slot, so that nothing about a
slot is inductive without the descriptor and the job it leads to: `SlotsOk` says
that the slot of a submitted or finished job has the descriptor of that job's fence
and that the job is the slot's, that a job the driver has not finished is the last
of a slot that is still `SUBMITTED`, and that an open descriptor of a fence belongs
to a slot. From the last two follows that a slot that is freed or reused has no job
left, from the first that no descriptor is closed twice. Releasing, submitting,
ending and updating each have a lemma about `SlotsOk` alone, over parameters, so
that the calls that combine them (`strela_config`, `strela_dev_deinit`) only put
these together. `DeviceOk`, `TableOk` and `MapsOk` do the same for the
descriptors and mappings of the device, at every step of the search and of the
opening.

That an orphan is left only by an error or by the end of the process
(`orphan # "ok"`) follows from the first as well: `strela_dev_deinit` without an error
has waited for every slot, and every unfinished job has one (`OrphanStep`).

`PendingIsLate` rests on `WaitOk`: what `strela_execute` has waited, plus the
timeouts of all jobs the driver has, less what the device has spent on the first of
them, is at most what it was at the submission (`backlog`). A tick of the clock adds
to the first and takes from the sum; the end of a job takes a whole timeout away. A
job that is pending at the end of the wait is still in the sum, so that the wait was
no longer than `backlog`.

## What is only model-checked

- Liveness (`EveryJobEnds`, `HwStopReturns`), which is out of the prover's reach.
- The violations listed above.

## Not modelled, and why

- The arena allocator and `pool_free`: nothing that can run calls them.
- The packing of the older driver's registers (`STRELA_MKINPSIZE`,
  `driver/strela_driver.c:169`) and its `mmap` of the whole fixed region: the
  first is a formula without a stated contract, the second has no state.
- Interrupted system calls other than `poll(2)` and the wait for a sync object: an
  `open(2)` or an ioctl of `strela_dev_init` that is interrupted is one that fails,
  and `close(2)` is taken not to be, which a TODO at `lib/strela.c:868` leaves open.
- The scheduler after an unbind with open files: see the assumptions.
- Handles kept over `strela_kernel_free_all` and `strela_buffer_free_all`, and
  freeing the memory of jobs in flight: the modelled program does neither, and the
  TODO at `lib/strela.c:275` names the missing check.
- Several threads on one descriptor of the older driver: its exclusive open does
  not exclude them, and its completions do not tell them apart.
- Whether `logical_dev` outlives `device_destroy` in the older driver's
  `strela_remove` (`driver/strela_driver.c:425`): that is up to the driver core.
- dma-bufs of other drivers: what an imported object is like is up to the helpers
  of the DRM core.
- Contents of buffers and configurations, copying in and out of buffers, and
  cache maintenance behind the DMA API: no control depends on them.
- The RTL of the CGRA, which is not in the repository; build and board scripts,
  which have no state.
