# KajPS5: TLA+ models, checks and proofs

KajPS5 loads PlayStation 5 title executables, runs their code natively and
answers their system calls with high-level replacements. This directory holds
a formal development of the parts of it in which order matters: the life cycle
of the guest process, the guest scheduler and the kernel's blocking services
built on it, guest memory with the coherence records and leases that GPU work
takes on it, and the path of GPU command buffers from a driver call to the host
GPU. TLC checks each of them on small instances. For every instance, TLAPS proves the
safety of the scheduler, on which all the blocking services rest, of the mutexes,
condition variables, read-write locks, event queues, semaphores, event flags and
C++ guards built on it, of the coherence records: that their tokens are sound and that
a record stays clean only while memory is what it was when the backend asked, and of
the leases that GPU work holds: who owns a registration whatever fails, that writes are
announced exactly while they are outstanding, that device buffers have one owner, and
that one the GPU works with is kept.

Source paths below are relative to `src/src/`.

## 1. Inventory of the system

| Component | State it keeps | Operations | Correct when |
|---|---|---|---|
| Guest scheduler (`kernel/guest_scheduler`) | thread records (state, wait key, deadline, timeout mark), FIFO ready queue, current thread | create, discard, select, yield, block, wake by key or thread, join, exit, consume timeout | queue and states agree; a wake-up, exit or deadline reaches whoever waits for it; ready threads run |
| Pthread mutexes and conditions (`kernel/pthread`) | owner, recursion count, FIFO of waiters, grants; condition queues; completed waits | create, destroy, lock, try-lock, unlock, wait, timed wait, signal, broadcast, thread exit | ownership is handed over whole; a wait returns with the mutex; no signal is wasted |
| Read-write locks (`kernel/pthread`) | writer, readers, queue, grants | create, destroy, lock, try-lock, unlock, thread exit | writers are alone; queue served in order; no grant left over |
| Event queues (`kernel/event_queue`) | registrations with generations, pending events, waiter entries with reserved events | create, delete, add, remove, trigger, poll, wait | edges are delivered once; nobody sleeps beside an event; stale events are not returned |
| Semaphores, event flags, C++ guards (`kernel/semaphore`, `event_flag`, `cxa_guard`) | count; bits; guard word and owner | signal/wait/poll/delete; set/clear/wait/poll/delete; acquire/release/abort | nobody sleeps beside a satisfied condition |
| GPU submission queue (`gpu/submission_queue`) | one FIFO per queue, pending counters, id counter | submit, submit batch, drain | counters agree with the queues; a drain reaches a fixed point and returns |
| Command processor (`gpu/command_processor`) | per submission a stack of frames and a pending wait | decode a packet, enter and leave indirect buffers, park, resume | every packet takes effect once and in order |
| Vulkan action bridge and executors (`gpu/vulkan_action_bridge`, `gpu/vulkan/*`, `gpu/runtime`) | one blocked action; retained submissions | execute, poll, reclaim | no draw lost or repeated |
| Resource coherence and guest caches (`gpu/resource_coherence`, `gpu/vulkan/buffer_cache`, `image_cache`) | generation records, cached allocations, pending GPU writes | register, query, acknowledge, mark, invalidate, prepare, complete, discard | no write of guest or GPU is overwritten by older bytes |
| Guest memory (`core/memory`) | mappings with identities, write generations, observers | map, protect, unmap, read, write, copy, fill | tokens identify a mapping; observers learn of every write |
| Native execution (`cpu/*`) | host contexts, saved calls, thread entries | run a thread, dispatch a call, park, resume | a blocked call is issued again exactly once per wake-up |
| Title session, module runtime (`runtime/*`, `kernel/process_lifecycle`) | phase, initialiser and finaliser plans | configure, start, run, finalise, fail | initialisers before the entry point, finalisers once, failure is final |
| Loader (`loader/*`) | parsed images, relocations, exports | parse, plan, relocate | sequential, per file |
| HLE exports (`hle/*`) | call tables | decode arguments, call a service, encode the result | sequential translation |
| Files, heaps, direct memory, AMPR (`kernel/*`) | tables | open, read, allocate, ... | sequential, one host thread |
| Shader recompiler, tile layout (`gpu/shader`, `gpu/tile_layout`) | none between calls | compile, compute an address | a compiler's and an address function's correctness |
| Application, Windows platform (`app`, `platform`) | windows, options | command line, message pump | I/O |

How they interact. All guest threads run cooperatively on **one** host thread:
the title loop (`app/main.cpp` 629-690) asks the native runner for the next
slice, the runner asks the scheduler for the next thread. A guest thread calls
an HLE export, which calls a kernel service; the service may block the calling
thread in the scheduler and answer `kWouldBlock`. The saved call is then
dispatched again after the scheduler has selected the woken thread
(`cpu/native_hle_trampoline.cpp`; `docs/stage2-kernel.md:170`: "A caller must
invoke the wait again after the scheduler selects the woken thread"). A driver
export (`hle/agc_exports.cpp` 89) submits command buffers and drains the GPU
queues inside the call; draws and dispatches go through the bridge to the
Vulkan executors, whose fences signal asynchronously.

What is hard here:

* *Retry.* A blocking call is run at least twice, and what happened between
  the runs (signal, grant, timeout, deletion) must be found in the service's
  state by the second run, exactly once.
* *Deadlines.* A deadline passes without an event; it is noticed by whichever
  call next looks at the clock, possibly a wake-up of the same wait.
* *Hand-over.* Mutexes, locks and events are given to threads that have not
  run yet.
* *Exit.* A thread may end while it owns objects or has joiners.
* *Parking in mid-stream.* GPU submissions stop inside nested buffers on
  conditions that other queues or the guest make true.
* *Snapshots.* GPU work runs on a copy of guest memory. Guest threads write and
  remap the range meanwhile, and what the GPU wrote is merged back later, by
  whichever call finds the fence signalled.
* *Callbacks outside locks.* Guest memory numbers its writes under a lock and
  reports them after it, so reports overtake each other.
* *Life-cycle calls among other threads.* Initialisers, main, exit callbacks and
  finalisers are guest threads; others run, exit and fault between their slices.
* *Limits.* Pending counts, id ranges, nesting depth, retained launches.

`PROJECT.json` lists these hazards at the lines where they bite, with the
properties that cover them.

## 2. Modules

```
SchedulerState            operations of GuestScheduler on a scheduler record
  |-- SchedulerLemmas         what each operation preserves     (TLAPS)
  |-- GuestScheduler          the scheduler as a component      (MCGuestScheduler)
  |     `-- GuestSchedulerProofs                                (TLAPS)
  `-- GuestThreads            threads that make and repeat service calls
        |-- PthreadMutex                                        (MCPthreadMutex)
        |     `-- PthreadMutexProofs                            (TLAPS)
        |-- PthreadRwlock                                       (MCPthreadRwlock)
        |     `-- PthreadRwlockProofs                           (TLAPS)
        |-- EventQueue                                          (MCEventQueue)
        |     `-- EventQueueProofs                              (TLAPS)
        `-- Semaphore, EventFlag, CxaGuard
              `-- KernelWaits     the three on one scheduler    (MCKernelWaits)
                    `-- KernelWaitsProofs                       (TLAPS)
CommandCursor             one submission's decoder
VulkanActionBridge        the bridge and the launches in flight
  `-- GpuSubmissionQueue      queues + cursors + bridge         (MCGpuSubmissionQueue)
SchedulerState
  `-- TitleSession            session, launcher, runner         (MCTitleSession)
AddressSpace              guest memory as a table of pages (abstract)
  |-- GuestMemory             the interval lists; implements AddressSpace
  |                                                             (MCGuestMemory)
  `-- CoherenceRecords        records, tokens, write generations
        |-- ResourceCoherence     writers, remaps, one backend  (MCResourceCoherence)
        |     `-- CoherenceProofs                               (TLAPS)
        `-- GuestLeases           caches + compute executor     (MCGuestLeases)
              `-- GuestLeasesProofs                             (TLAPS)
```

**SchedulerState** has the scheduler's state as one record and each method of
`GuestScheduler` as an operator from record to record. The services call
several of them in one step, so their modules use the operators; the component
module turns them into actions. `threads_` is a `std::map`, so wake-up loops
push threads in handle order; `SelectNext` and both wake-ups retire expired
waits first, in the order the code has.

**GuestScheduler** is the scheduler under arbitrary callers: `Create`,
`Discard`, `Select`, `Yield`, `Block` with and without deadline, `Wake` by key
with a limit, wake of one thread, `Join`, `Exit`, `ConsumeTimeout`, and the
clock. Every method holds `mutex_` from start to end, so it is one action.

**GuestThreads** states the environment of a service: threads created at the
start, `Dispatch` (the host loop), `Relinquish` (a yield), `Tick`, and the rule
that a thread whose call answered `kWouldBlock` repeats that same call
(`MayCall`, `CallAfter`). Services are called from the one host thread, so a
service call is one step. Where a call reads the clock twice, the second
reading may be later (`LaterTimes`).

**PthreadMutex** has the four mutex types and condition variables. Owner,
recursion count, waiter FIFO, `granted_waiters`, the two waiter counts and
`completed_condition_waits_` are the code's fields. `StartWait` and `FinishWait`
are the two ways through `WaitConditionInternal`: the first call of a wait
releases the mutex, hands it on and blocks; the repeated one consumes the timeout
or finds the completed wait, and relocks. `Exit` is `PthreadService::ExitCurrent`:
a completed wait of the thread is dropped and owned mutexes pass to their next
waiter. **PthreadRwlock** does the same for read-write locks;
in this code a second reader blocks while another one holds the lock, unless a
grant lets several in, and the model keeps that.

**EventQueue** has registrations with generations, pending events, waiter
entries and the reservation of events for waiters. `Fire` is a trigger with the
loop of `ReserveWaitingThreadsLocked`: `Leftover` says what is still pending after
each waiter was visited, a waiter takes the head of what its predecessor left, and
`WakeWaiters` wakes those that got something. The code reads the clock anew for each
waiter (`event_queue.cpp:446`); the model reads it once for the loop and once for the
wake-ups, so a deadline that comes between two visits is not followed. Each trigger carries a number so that
an event can be followed; `received` is a history variable.

**Semaphore**, **EventFlag** and **CxaGuard** wake all sleepers of an object
and let each look again. **KernelWaits** composes them on one scheduler: a
thread goes from object to object, so a wake by one service that reached
another one's sleeper would show.

**CommandCursor** is the resumable decoder. A packet is one of six kinds, the
ones whose control flow differs; registers and packet layout are data and are
left out. `Expansion` is the reference: the packets of a buffer in order, with
called buffers spliced in. **VulkanActionBridge** has the one
`blocked_action_`, the launches in flight and their fences; whether a launch
completes within its timeout, is retained, or fails with or without being retained
is open, and so is whether a poll or a reclaim fails. Device loss is not
modelled. **GpuSubmissionQueue** has the queues with their limits and the drain
loop, one packet per step, and the guest's stores to labels between drains. A drain
in which a submission failed answers the driver call with a status that ends the
session (`agc_exports.cpp` 91-109, `title_session.cpp` 359-362): `GuestRuns` is false
from then on.

**AddressSpace** is what guest memory promises: a table with, for each page,
the identity of its mapping, its protection and the location its bytes are at
(two pages that show one backing have one location). `Map`, `MapShared`,
`Protect`, `Unmap` and `Mutate` change single entries, and a mutation reports
every page that shows a changed location.

**GuestMemory** is the code's representation: `regions_`,
`mapping_identity_regions_` and `shared_mappings_` as sorted lists of intervals
that the operations split, join and search, private bytes and backings, and the
report of changed ranges with its limit (past it the whole memory counts as
changed). Host failures are actions: a refused protection in `Map`, an unmap
that fails after the pages were cleared, an initialisation that stops
half-way. `ImplementsAddressSpace` is the refinement: the table is read off the
lists.

**CoherenceRecords** has the records of `GpuResourceCoherence` and the write
generations, as operators and state shared by two modules.
**ResourceCoherence** puts them under concurrency: several threads write a range
page by page under the shared lock, take a generation, and deliver their
callback in a later step; another thread remaps, or fails to unmap after the bytes
were cleared, and reports that. The backend is the one of the two caches: it copies
the bytes (`Upload`, `buffer_cache.cpp:341`, `image_cache.cpp:504`), asks for the
generation (`Query`, 545 and 652) and acknowledges what it was told. `born` (the
identities at registration), the copied bytes and `seen`, what memory held when the
generation was asked for, are history variables.

**GuestLeases** is the translated compute path: `Prepare` of the buffer cache (one
buffer per step, then device buffer and acknowledgement), then of the image cache
for one image after the other, reclaiming, submission, `MarkSubmitted` view by view
with its rollback, the fence wait with its timeout, `PollCompleted`, completion with
the three-way merge, discard with its pool of device buffers, and device loss. Other
threads write, remap and fail to unmap between the steps of the host.

Every early return is an action. A descriptor or a range is refused
(`PrepareBuffersFails`, `PrepareImagesFails`); a range was registered and then cannot
be read (`ReadFails`: the registration is taken back, its id is used up); memory runs
out between the registration and its entry in the list of views (`AllocationFails`:
the registration is in no list and stays; `orphans` remembers it); a flush or an
acknowledgement is refused when the device buffer is in hand (`UploadFails`: the buffer
is destroyed, also when it came from the pool); `SubmitRefused`, `SubmitFails`,
`MarkFails` (the rollback ignores whether a mark could be taken back, and `stuck`
remembers where it could not), `WaitTimesOut` and `DeviceLost`. A `bad_alloc` later in
an image's preparation (`image_cache.cpp` 510, 650, 845) leaves what `AllocationFails`
leaves one step earlier. In `Complete`, a device buffer that cannot be invalidated
(`buffer_cache.cpp` 640-656) leaves what a failing fence status at that slot leaves, and
a `bad_alloc` inside the merge (690) what an unreadable range at that view leaves.

A device buffer has a `LogicalSize`; `Candidates` takes the smallest idle one that is
large enough or, beside idle ones that are too small, a new one. `executing` is the set
of device buffers the GPU works with, from the queue's acceptance to the GPU's end,
apart from what the host believes. What else is built on the way
(images, pipelines, descriptors) appears only as a step that may fail. A value
is one page wide: the three-way merge works byte by byte, and a page is what
the properties tell apart. The loops over views, pages and slots are recursive
functions (`Stage`, `Merge`, `Reclaimed`), so that a loop that stops half-way
leaves what the code leaves.

**TitleSession** is the process: `TitleSession` (configure, start, run,
finalise, fail), `NativeGuestProcessLauncher` (one initialiser after another,
then main), `NativeGuestThreadRunner` (one slice of a thread) and the exit
callbacks of `ProcessLifecycleService`. A slice is `BeginSlice`, any number of
guest calls, and the step that ends it with what the session does with the
result. `executing` is apart from the scheduler's current thread because
`pthread_exit`, and a `pthread_join` that has to wait, take the thread off the
scheduler and still answer the guest, as the code does.

Names follow the source; `PROJECT.json` maps each definition to its lines.
Definitions introduced by a "Variant for the checks" comment are faulty forms
of the definition after them: they are used by no specification and exist to
confirm that the properties detect such faults.

## 3. Runs

| Run | Instance | Checks |
|---|---|---|
| `scheduler` | 3 handles, clock 0..2, 2 service keys | `ReadyQueueExact`, `WaitBookkeeping`, `JoinersWoken`, `TimeoutWins`, `ReadyThreadRuns`, `TimedWaitEnds` |
| `pthread_mutex` | 3 threads, clock 0..1, 1 mutex of any of 4 types, 1 condition, recursion 2, timeout 1, with fairness | `MutexHandedOver`, `WaitersAreBlocked`, `WaitsKeepObjectsAlive`, `WakeupHasReason`, `WaitReturnsLocked`, `SignalReachesWaiter`, `LockAnswered`, `TimedWaitReturns` |
| `pthread_rwlock` | 4 threads, 1 lock, 2 read holds per thread | `WriterExcludes`, `WaitersAreBlocked`, `GrantIsTaken`, `ServedInOrder` |
| `event_queue` | 3 threads, clock 0..1, 1 queue, 1 identifier in 2 filters, 2 generations, 2 triggers, count 1, with fairness | `EdgeEventOnce`, `NoSleeperBesideEvents`, `WaiterAgreesWithThread`, `ReceivedIsCurrent`, `WaitsEnd` |
| `kernel_waits` | 3 threads, 1 semaphore of at most 2, 1 flag of 2 bits with AND/OR and clearing modes, 1 guard | `NoLostWakeup`, `WordAgreesWithOwner` |
| `gpu_queue` | 8 buffers, 2 labels, 2 queues, 3 ids, limits 2 submissions and 4 dwords, depth 1, 4 passes, 1 retained launch per executor | `PendingAccounted`, `ExecutesProgram`, `DrainSettles`, `DrainEnds` |
| `gpu_draw_replay` | the same | `NoDrawRepeated`, violated |
| `gpu_draw_lost` | 2 buffers: a dispatch to target 1; draws to targets 2 and 1; otherwise the same with 2 retained launches | `NoDrawLost`, violated |
| `guest_memory` | 3 pages, 1 backing of 2 pages, 2 mapping generations, 2 protections, 2 byte values, 1 exact range per report | `ListsAgree`, `FindsLowestFit`, `ImplementsAddressSpace` |
| `coherence` | 2 pages, 2 mapping and 2 write generations, 2 writers (symmetric), 1 record | `TokenSound`, `CleanIsUnchanged` |
| `guest_leases` | 2 pages, 3 dispatch shapes, 3 records, 2 slots, 4 device buffers (three of one page, one of two), pool of 1 | `RecordsOwned`, `PendingExact`, `BackingOwnedOnce`, `GpuBackingKept` |
| `title_session` | at most 2 initialisers and 1 finaliser, 2 callbacks of each kind, 7 threads, 4 guest calls, with fairness | `CallsInOrder`, `FinalizationEnds` |

Each `TypeOK` is proved, not run. Three more configurations show what the source's own
comments say and the code does not do; TLC finds each one violated (see "Findings"):

| Configuration | Module | Violated |
|---|---|---|
| `ResourceCoherenceStale.cfg` | `MCResourceCoherence` | `CleanIsFresh` |
| `GuestLeasesLeak.cfg` | `MCGuestLeases` | `FailedPreparationReleases` |
| `GuestLeasesPartial.cfg` | `MCGuestLeases` | `FailedCompletionKeepsPending` |

What the passing runs show:

* **Scheduler.** No sequence of calls loses a thread, queues it twice, leaves a
  wait key or deadline on a thread that does not wait, or leaves a joiner
  behind an exited thread. When a deadline and a wake-up coincide, the deadline
  wins and the timeout is reported. Ready threads run and timed waits end.
* **Mutexes and conditions.** A mutex with waiters is never free; a granted
  owner is awake and repeats the call that takes it. A condition wait returns
  only with its mutex held once, whichever of signal, timeout and contention
  happened. A woken waiter always finds the reason. A signal goes to the first
  waiter with time left. The counts that guard against destruction are exact.
* **Read-write locks.** Writers exclude, also across thread exits; the queue is
  served in order; no grant is left for a later call to find.
* **Event queues.** An edge event is pending, reserved or received, never two
  of these. No thread with time left sleeps beside a pending event. A reserved
  event whose registration changed is not returned. Waits end on their deadline
  or when the queue is deleted.
* **Kernel waits.** A sleeper always has reason to sleep. The guard word and the
  recorded owner agree, also when the word cannot be written.
* **GPU queue.** The counters equal what is queued after any mix of batches,
  failures and completions; the sink receives the program's packets in order,
  none twice and none skipped, however often the submission is parked; a drain
  that stops for lack of progress leaves nothing runnable; it always returns.
* **Guest memory.** The three lists are sorted, disjoint, coalesced and cover the
  same pages after any sequence of calls. They behave like a table of pages: a
  call on a part of a region, of an identity or of a shared mapping changes the
  pages of one range alike and nothing else, and a mutation, also one that the host stops
  half-way, reports every address that shows a changed byte. The search for
  free pages finds the lowest fit.
* **Coherence.** A record that passes the token check is about the mappings it
  was registered on. A record stays clean only while memory holds what it held when
  the acknowledged generation was asked for, although callbacks overtake each other,
  and once generations are used up nothing is taken for clean. That is the records'
  half; the copy is fresh only if it was made after the question, and the caches make
  it before (`ResourceCoherenceStale.cfg`).
* **Leases.** On every path of refusal, timeout, loss and late completion the
  registrations are those of a lease somebody holds, of work lost with the
  device, which the code keeps and counts, or of a preparation that ran out of
  memory at the wrong place. A record is pending exactly while a result of it is
  unpublished, or where a rollback met a remapped range. A device buffer has one owner,
  and one the GPU works with stays with its submission until the fence has signalled.
* **Title session.** Initialisers end in order and before main starts; exit
  callbacks run once, last first within their kind, before the finalisers; a
  process that exited has run all of them. Finalisation does not stop halfway:
  it ends, or the guest function it waits for sleeps.

**Bounds.** Three threads are the smallest number for a holder, a waiter and a
third that overtakes, signals or exits; read-write locks have four so that a
batch of two readers can stand behind a writer. In the scheduler two clock steps give a wait
that has expired, one that expires now and one with time left; the services
are run with one step, a wait with time left and an expired one. Two generations
give one re-registration; two triggers give a second one while the first is
pending, reserved or received. The GPU
buffers contain a signal, a wait inside a called buffer, two queues that wait
for each other, a draw and a dispatch on one target, a buffer that calls
itself, a faulting and a malformed packet; `gpu_draw_lost` has a second target, so
that a draw can complete beside a retained dispatch; four passes are enough for two
queues to release each other twice. Handles, ids, triggers and the clock are
bounded by the guards of the actions that advance them. Three pages are the
smallest memory in which a region can be split in the middle, and two mapping
generations with the exhausted mark behind them give a remap and the end of the
range; a backing of two pages can be split at either end but not in the middle, which
only private regions are. Two writers and two pages give callbacks that overtake each other and
overlap in part; the passing run identifies states that differ only in the copied
bytes, which no step and neither of its properties reads (`VIEW`). The three shapes of
the leases are two written buffers (a rollback after one of them was marked, a
completion that stops between them, a device buffer of two pages), a read buffer with
a written image (buffers that complete and an image that does not) and a single read
buffer (both slots taken while a third dispatch is prepared, and an idle buffer that is
too small for the next dispatch). Three ids are three leases of one page, or one of
two pages beside one of one, so three device buffers of one page and one of two never
run out. Seven threads leave
room for the largest plan and a thread that guest code creates. All threads may exit or
sleep without deadline and the bounded clock stops, so a state without
successor is legitimate and deadlock is not reported; that nobody sleeps
without reason is stated by the invariants instead.

**Fairness.** The host loop keeps selecting (`WF(Select)`, `WF(Dispatch)`) and
the clock keeps running (`WF(Tick)`), which is what `app/main.cpp` 629-690 and
the machine do. That guest code comes back to the host (by yielding, blocking,
joining or exiting), that a resumed thread repeats its call, and that owners
unlock (`SF(Unlock)`, needed since an owner may alternate between unlocking and
other calls) is assumed of the guest; `LockAnswered` is meaningless without it. In the title
session the host keeps calling `Run` (`WF(BeginSlice)`) and a guest function in
the executor returns in the end (`WF(GuestReturn)`), which no host can enforce
and without which no finalisation ends. The GPU drain is a loop of the
host (`WF(DrainStep)`); no fairness is assumed of the guest's submissions or of
fences, and no liveness is claimed past one drain, because a blocked submission
is resumed only by a later driver call.

### Findings

`gpu_draw_replay` and `gpu_draw_lost` come from one design point: the bridge
keeps a single blocked action for all queues, and uses it both for "launched,
waiting for its fence" and for "refused, not launched".

* *Repeated work.* Any action that does not block empties the slot. A retained
  dispatch of one queue whose slot was emptied by another queue is launched
  again. `gpu/command_processor.h:276` says a blocked submission "resumes the
  same stream without repeating completed actions", and the repository's
  `README.md:53` says so for draws.
* *Lost work.* A draw refused because a retained launch still writes its target
  takes the slot if it is free. From then on it is polled, not executed, and is
  accepted as soon as the graphics executor retains nothing. In the run no action
  fails: a dispatch to target 1 is retained; a draw to target 2 completes and empties
  the slot; the draw to target 1 is refused and takes it; in the next pass that draw is
  polled, and graphics has nothing in flight.
  `gpu/runtime.cpp:888` says the refused draw is to "retry after
  PollVulkanGraphics".

Three more are about the caches, each with a configuration of its own:

* *Generation asked for too late* (`ResourceCoherenceStale.cfg`).
  `gpu/resource_coherence.h:56` says of `Query` that "the returned generation must be
  acknowledged only after the backend has uploaded exactly those checked guest bytes".
  Both caches read first and query directly before they acknowledge. A write between
  the two, with its callback, is acknowledged unread. Guest threads share one host
  thread with the caches today, so nothing writes in between; guest memory and the
  records are built and tested for writers on other threads.
* *A registration left behind* (`GuestLeasesLeak.cfg`). `buffer_cache.h:103` says that
  `Discard` "releases coherence registrations for a preparation that never transferred
  into a submitted Vulkan lease" and is safe after a failed preparation. A `bad_alloc`
  between `buffer_cache.cpp:323` and 347 (or after `image_cache.cpp:502`) leaves a
  registration that is in no list.
* *Half a completion* (`GuestLeasesPartial.cfg`). `buffer_cache.h:110` says of `Complete`
  that "a false return leaves every GPU-dirty record pending"; the loop that resolves
  the views stops at the first one that fails and leaves those before it resolved.

Met while modelling and kept as the code has it:

* The buffer cache merges before it asks whether the mapping is still the same; the
  image cache asks first. `core/memory/guest_memory.h:175` asks a backend that spans
  calls to "revalidate before committing work".
* A completion that fails keeps its slot, and `ReclaimCompletedLocked` returns
  at the first such slot (`gpu/vulkan/execution.cpp` 451-458), so one range that
  was unmapped under a dispatch makes every later dispatch fail.
* `exit` leaves the guest's thread in the scheduler, so the runner answers
  `kSchedulerUpdateFailed` and the session fails instead of finalising
  (`cpu/native_guest_thread_runner.cpp:423`). `pthread_exit` and a waiting
  `pthread_join` answer the guest, whose code goes on off the scheduler; when it
  returns, the session fails.
* `atexit` and `__cxa_atexit` callbacks are kept in two lists and run list by
  list, each last in, first out (`docs/stage2-hle.md:140` speaks of "their"
  order); a callback registered during finalisation is not run.

### Refinement

`GuestMemory` implements `AddressSpace` under the mapping in the module: the
identity, protection and location of a page are looked up in the interval
lists, and the bytes at a location are private or of a backing. TLC checks that
the initial state maps to an initial state and each step to a step of the
table or a stutter. `CoherenceRecords` extends the abstract module, so what is
shown about tokens and leases is about memory as the table, and the refinement
carries it to the lists.

## 4. Proofs

Eight modules hold theorems. Each follows the same plan: an inductive invariant
`IInv` (or `TokenInv`, `FreshInv`, `LeaseInv`), one step per action that preserves it, and
the properties the runs check as its consequences. The assumptions on the
constants are the named `ASSUME`s of the modules, which TLC evaluates on the
runs.

### The scheduler

`GuestSchedulerProofs`, for every `MaxHandle`, `MaxTime` and set of service keys:

| Theorem | Statement |
|---|---|
| `Invariance` | `Spec => []IInv` |
| `TypeCorrect` | `Spec => []TypeOK` |
| `ReadyQueueCorrect` | `Spec => []ReadyQueueExact` |
| `OneThreadRuns` | `Spec => []CurrentIsRunning` |
| `WaitBookkeepingCorrect` | `Spec => []WaitBookkeeping` |
| `NoJoinerLeftBehind` | `Spec => []JoinersWoken` |
| `TimeoutsAreExact` | `Spec => TimeoutWins` |

Assumptions: `MaxHandle` is a positive natural number, `MaxTime` a natural
number, and the keys of the services are neither the empty key nor the key of a
thread's exit (`MakeThreadExitWaitKey` has a prefix of its own).

The argument. None of the parts is inductive alone. That the queue lists each
ready thread once needs that the current thread is the only running one (a yield
appends it) and that blocked threads are not in the queue (a wake appends them).
That a joiner is not missed needs that a thread's exit key is waited on only by
blocked threads (the exit wakes by key), which is the wait bookkeeping. So `Books`
conjoins `SchedulerOK` (type, `QueueExact`, `OneRunning`, `WaitsOK`,
`NoJoinerMissed`), the types of clock and counter, and `UnallocatedAbsent`: a
handle not given out yet is absent, without which `Create` could add a thread
that is already queued. `TimeoutWins` is an action property: a wait whose time is
up ends with its timeout reported. Every operation that wakes retires the expired
waits first, with one exception: `ExitCurrent` wakes the joiners of the thread
without looking at the clock. That this takes no timeout away holds because
`JoinThread` blocks without a deadline, and `UntimedJoins` is the part of `IInv`
that says so.

`SchedulerLemmas` has one lemma per operator of `SchedulerState`: each operator
preserves `SchedulerOK`, and says whom it wakes and what the others notice. They
rest on lemmas about the queue: what `Erase` keeps, that `InOrder` lists a finite
set without repetition, what appending a duplicate-free sequence of fresh handles
preserves. The service modules use the same operators, and their proofs the same
lemmas.

### Semaphores, event flags and guards

`KernelWaitsProofs`, for every number of threads, semaphores, flags, bits and
guards:

| Theorem | Statement |
|---|---|
| `Invariance` | `Spec => []IInv` |
| `TypeCorrect` | `Spec => []TypeOK` |
| `WakeupsReachSleepers` | `Spec => []NoLostWakeup` |
| `GuardWordCorrect` | `Spec => []WordAgreesWithOwner` |

Assumptions: `SemaphoreAssumption`, `EventFlagAssumption`, `GuardsAssumption` and
those of the scheduler.

The argument. `IInv` is the conjunction of the three properties: the type of the
scheduler includes `SchedulerOK`, and that is what was missing. A thread goes to
sleep under a key only in its own call, which just found the object unable to
serve it. Any later step keeps the sleepers of the key in the same call
(`SleepersKept`) and leaves the object as able or less able to serve them, or
wakes all of them. The keys of different objects differ (`KeyFacts`), so a step
of one service is covered by `SleepersKept` in the other two.

### Read-write locks

`PthreadRwlockProofs`, for every number of threads and locks and every bound on
the holds of a reader:

| Theorem | Statement |
|---|---|
| `Invariance` | `Spec => []IInv` |
| `TypeCorrect` | `Spec => []TypeOK` |
| `WriterIsAlone` | `Spec => []WriterExcludes` |
| `QueueServes` | `Spec => []WaitersAreBlocked` |
| `GrantsAreTaken` | `Spec => []GrantIsTaken` |
| `QueueInOrder` | `Spec => ServedInOrder` |

Assumptions: `RwlockAssumption` and those of the scheduler.

The argument. `IInv` states `LockOK` of each lock: its queue lists exactly its
sleepers, each in the lock call it is queued for, a lock with a queue is not
free, and a grant is held by an awake thread that repeats the call. An unlock or
an exit takes a lock through a state in which it is free and queued (`Handing`,
which is `LockOK` without that conjunct) and then hands it on; `Left` and
`Answered` say what remains of a lock when its holder leaves or a call is
answered. An exit does this to several locks and then wakes all the granted
threads, lock by lock: `Handed` and `HandedKeys` describe these wake-ups as one
set. All that any other lock notices of a step is stated by `Moves`. No wait on a
lock has a deadline, so waking retires nobody (`NoDeadlines`). `ServedInOrder` is
an action property; `NobodyPasses` proves it from the prefix of the queue that
`GrantWaiters` takes.

### Mutexes and condition variables

`PthreadMutexProofs`, for every number of threads, mutexes and conditions, every
clock and recursion bound and every choice of mutex types and timeouts:

| Theorem | Statement |
|---|---|
| `Invariance` | `Spec => []IInv` |
| `TypeCorrect` | `Spec => []TypeOK` |
| `HandedOver` | `Spec => []MutexHandedOver` |
| `QueueServes` | `Spec => []WaitersAreBlocked` |
| `ObjectsAreKept` | `Spec => []WaitsKeepObjectsAlive` |
| `WakeupsAreExplained` | `Spec => []WakeupHasReason` |
| `ReturnsLocked` | `Spec => WaitReturnsLocked` |
| `SignalsReach` | `Spec => SignalReachesWaiter` |

Assumptions: `PthreadAssumption` and those of the scheduler.

The argument. `IInv` has five parts. `MutexOK`, for each mutex: owner and count
agree, a mutex with a queue has an owner, the owner lives, the queue lists exactly
the sleepers of the mutex, and a grant belongs to the owner, who is awake and
repeats a call for this mutex. `QueuesOK`: a thread is queued on one condition at
most, once, and not beside a completed wait. `WaitOK`, for each thread: in a wait
call it either has the wait completed and is awake or asleep on the mutex, or it
is queued and asleep on the condition or marked as timed out; in no other call has
a living thread either. `CountsOK`: the two counts that keep the objects alive are
the numbers of threads in a wait on the condition and with the mutex. The code
counts up and down; the proof compares with the cardinality of a set of threads
that gains or loses one element.

A step changes one mutex and the wait of one thread, or, in a signal, of those it
takes (`Taken`, `Signalled`), or, in an exit, all mutexes the thread owns and
their heirs (`Inherits`, `Leaves`). What all the others may notice is small and is
stated once: a thread drifts (`Drifts`: nothing happens to it, or its wait
expires, or a join of it ends) and a mutex sees a thread pass (`Passes`, `Stays`).
`MutexKept` and `WaitKept` turn that into the invariant of the bystander.
`Relocked` describes the end of a wait, in which the repeated call has taken the
mutex back or queues for it with the wait completed; `ReturnsLocked` is its
consequence. `SignalsReach` follows from the prefix of the queue that
`SignalCondition` takes: the expired waiters it passes, each completed as timed
out, and the first one with time left, or all of them in a broadcast.

### Event queues

`EventQueueProofs`, for every number of threads, queues, identifiers, generations
and triggers, every clock and every choice of counts and timeouts:

| Theorem | Statement |
|---|---|
| `Invariance` | `Spec => []IInv` |
| `TypeCorrect` | `Spec => []TypeOK` |
| `EntriesAgree` | `Spec => []WaiterAgreesWithThread` |
| `NobodySleepsBesideEvents` | `Spec => []NoSleeperBesideEvents` |
| `EdgeEventsOnce` | `Spec => []EdgeEventOnce` |
| `WaitReturnsCurrent` | `Spec => ReceivedIsCurrent` |

Assumptions: `EventQueueAssumption` and those of the scheduler.

The argument. The events of a queue lie at places: the pending list and the waiter
entries they are reserved in (`Places`). `EventsOK` says of them that a number names
one event, that an edge event is at one place and position only, and at none once
it was received. A poll puts level events back, so one of them may lie at several
places; that is why the invariant says "one event" and not "one copy". Every step
is a flow from places to places (`Flows`, with `FlowsKeep` once and for all): a poll
draws from the pending list, a reservation moves the head of the list into an entry,
a removal drops, a trigger adds an event with a new number. The reservation loop is
a recursive function over the handles; `VisitKeeps` carries `EventsOK` through its
stages, by the least handle at which it could fail, and shows with it that once
nothing is left nothing is left later on.

`NoSleeperBesideEvents` is not inductive: it speaks of threads asleep, and a thread
that was timed out, found nothing and blocks again must find the queue empty.
`Served` says of every entry that waits with time left, asleep or not, that nothing
is pending. That an empty poll means an empty list needs `QueueOK`: everything
pending is current, which `Registered` and `Unregistered` preserve by dropping the
events of the registration they touch. `WaiterOK` ties an entry to its thread: asleep
under the key of the queue with the entry's deadline, or awake with an answer, or
timed out with its deadline passed. What a bystander notices is `Drifts`, as for the
mutexes. `ReceivedIsCurrent` follows from the two: what a wait returns was filtered
by `IsCurrent`, and an event with the same number in the entry is the same event; a
queue that is not live has no registrations.

### Coherence

`CoherenceProofs`, for every number of pages, writers, records and generations:

| Theorem | Statement |
|---|---|
| `TypeCorrect` | `Spec => []TypeOK` of `ResourceCoherence` |
| `TokensAreSound` | `Spec => []TokenSound` |
| `CleanRecordsUnchanged` | `Spec => []CleanIsUnchanged` |

Assumptions: those of `AddressSpace` and `CoherenceRecords` on their bounds
(`SpaceAssumption`, `RecordAssumption`).

The argument. A token is the newest identity in a range, one number for many
mappings, and it is not obvious that it suffices: a page may be unmapped and
mapped again while another page of the range keeps the newest number.
`TokenSound` is not inductive, since it says nothing of records that are not
current now and may become so again when a hole is mapped. `TokenInv` adds
`Anchored`: for each page of a live record, the identity at registration is at
most the token, and the identity now is the one at registration, none, or
greater than the token; and no page has an identity that was not given out, so
that the next mapping is newer than every token. Only `Remap`, `Register` and
`UnregisterResource` touch what `Anchored` reads; all other actions preserve it
by `KeepsPreserves`. A record that is current has all pages mapped and the
newest equal to the token, so no page is newer and each is what it was. The
maximum needs that a bounded non-empty set of numbers has a greatest element
(`GreatestElement`, from the well-foundedness of `<`).

The clean mark builds on it. Between a write and the delivery of its callback a clean
record is stale, and callbacks overtake each other, so the invariant speaks of
what is on its way. A page is `Owed` to a record while some writer has written it
and not yet numbered the write, or carries a callback that the record will not
ignore: one with a greater generation, or one that says the generations ran out.
`Promise`: of a current record that is clean, or that the backend is about to
acknowledge, memory holds what it held at the query on every page that is not owed.
`FreshInv` conjoins it with `TokenInv`, with the fact that no callback carries a
generation that was not given out (so a query made now is not younger than a later
write), with `OwnBytes` (an unmap that fails clears no other page's bytes) and with
what the backend's upload in progress is about. Nothing is proved of the copied bytes:
`CleanIsFresh` is false. Delivery of an older
callback after a newer one is the case in which the comparison of generations
matters: what is ignored was not owed.

### Leases

`GuestLeasesProofs`, for every set of dispatch shapes and every number of pages,
ids, slots, device buffers and generations:

| Theorem | Statement |
|---|---|
| `Invariance` | `Spec => []LeaseInv` |
| `TypeCorrect` | `Spec => []TypeOK` of `GuestLeases` |
| `NothingLeaks` | `Spec => []RecordsOwned` |
| `AnnouncedExactly` | `Spec => []PendingExact` |
| `BackingsOwnedOnce` | `Spec => []BackingOwnedOnce` |
| `BusyBackingsKept` | `Spec => []GpuBackingKept` |

Assumptions: `LeaseAssumption` (the shapes bind ranges of guest pages, there is a
slot and a device buffer, and memory is made of host pages, which are not shared)
and those of `AddressSpace` and `CoherenceRecords`.

The argument. `Owned` speaks of the registered ids, the announced ids and the views
of every holder (the host thread or a slot) at once: no two views have the same id,
every view is registered, announced exactly while it is dirty or stuck, and whatever
else is registered was lost with the device and stays announced. The ids of
preparations that ran out of memory are set aside (`orphans`): they are registered and
nobody's. What happens to the views of a holder is one of five things, each a lemma:
they are handled in place (`ReplaceViews`), they go with their registrations
(`DropViews`), they go and the dirty ones stay registered (`LoseViews`), a new one
comes (`AddView`), or they move to a slot (`MoveViews`). `AddView` needs that ids not
given out are not registered, and this is a conjunct of `LeaseInv`.

The rest is about loops that stop half-way. `Steps` is the set of what a call on a
list of views may leave: the same ids and registrations, others' announcements
untouched, its own views exact. It holds of a completion that failed on its third
view as much as of one that went through, and each of `MergeView`, `ResolveView` and
`CompleteImage` stays in it (`ViewResolved` is the step that changes a record and a
view together). Marking is one step per view, and the rollback of `MarkFails` needs to
know what it takes back: `MarkedBefore`, a part of `HostConsistent`, says that the
written views before the one whose turn it is are dirty. `ChainExists` and `ChainStays`, from the
well-foundedness of `<`, carry membership through a recursive function; the reclaim
loop over the slots uses them again on `Executions`, the states of the executor in
which everything is accounted for. `InUse` says of every device buffer the GPU works
with that a slot holds it whose fence has not signalled; a slot is freed only when its
fence has, or with the device, and `BackingsApart` keeps such a buffer out of the
candidates of the next dispatch. A device buffer returns to the pool only from a
lease with a view of a buffer, and such a lease has one: `BackingsApart` says so of
the slots and `HostConsistent` of the lease in hand, which also says that the GPU
has not seen it, so that dropping it on any refusal loses nothing.

### Only model-checked

* Liveness (`ReadyThreadRuns`, `TimedWaitEnds`, `LockAnswered`,
  `TimedWaitReturns`, `WaitsEnd`, `DrainEnds`, `FinalizationEnds`): fairness and
  `ENABLED` are out of the prover's reach.
* The refinement `ImplementsAddressSpace`, `ListsAgree` and `FindsLowestFit`:
  the interval lists are split and joined by folds, and what a fold computes needs
  induction over the length of the list.
* `ExecutesProgram` and `PendingAccounted`: the reference `Expansion` is a
  recursive function and the dwords are a sum over a set, both matters of
  induction over data.
* `DrainSettles` of the GPU queue and `CallsInOrder` of the session. These are not
  proved yet; the scheduler inside the session is covered by `SchedulerLemmas`.

## 5. Not modelled

The map covers about a twelfth of the repository's lines. Most of the rest is of
three kinds: a compiler from GCN to SPIR-V and its tables (`gpu/shader`, a third
of the code), functions of data (tile layout, formats, packet and file parsing,
translation of register state), and calls into Vulkan, Windows and the
processor. None of it keeps state between calls in which an order could go
wrong, and a small instance of a function over 64-bit data shows little that the
repository's tests do not.

* **Shader recompiler, tile layout, formats, packet decoding**: functions of
  data; their correctness is about two instruction sets and a hardware layout.
* **Loader, module runtime, HLE argument decoding, files, heaps, direct
  memory, AMPR**: sequential code on one host thread, without retry or
  interleaving.
* **Graphics executor** beyond what the action bridge sees: its leases are those
  of the compute path; render targets and vertex buffers are not followed.
* **Native executor**: machine code, host contexts and trampolines. Its contract
  (a blocked call is issued again when its thread is selected) is the retry rule
  of `GuestThreads`.
* **Thread-specific data, attributes, thread records** of the pthread service:
  tables on which no wait depends. Conversion of realtime deadlines and 64-bit
  saturation: pure arithmetic far outside the small clocks used here.
* **Presentation, Vulkan set-up, Windows platform, vendored headers**: calls
  into the driver and the operating system.

## 6. Plan

1. Proofs: `CallsInOrder` of the session from `SchedulerLemmas`; the abstract side
   of the refinement, that each call of `AddressSpace` keeps its table well formed.
2. The graphics executor's leases, with draws and dispatches on one range.
3. Direct memory and the libc heap as allocators against an abstract set of free
   ranges.
