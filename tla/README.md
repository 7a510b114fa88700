# VulkanSceneGraph in TLA+

Specifications of the concurrent core of VulkanSceneGraph (VSG): the barrier and the
record threads of the viewer, the fences that bound how far the GPU lags behind, the
copies of modified data and their semaphores, the database pager with its container, the
queue that delays the deletion of paged subgraphs until the GPU has finished with them,
the allocation of buffers and device memory, the threads that read files, and the
reference counts that decide when an object is deleted. Every module is translated from
the C++ source; `PROJECT.json` maps each definition to the lines it stands for.

## 1. Inventory

| part | state | operations | works with | what makes it correct |
|---|---|---|---|---|
| `threading/Barrier` | arrival count, phase, condition variable | `arrive_and_wait`, `arrive_and_drop` | all record threads | nobody is let through early, counted twice or left asleep |
| `threading/FrameBlock`, `Latch`, `ActivityStatus` | frame stamp, counter, flag | set, wake, wait | viewer, record threads | no lost wake-up; everybody leaves when the status is cleared |
| `app/Viewer` | frame stamp, tasks, threads, `_close` | `advanceToNextFrame`, `update`, `recordAndSubmit`, `present`, `setupThreading`, `stopThreading`, `close` | windows, tasks, pager, event handlers | scene updates never overlap recording; every frame is complete; nothing hangs |
| `app/RecordAndSubmitTask`, `vk/Fence` | ring of fences and indices, semaphores | `advance`, `start`, `record`, `finish` | command graphs, transfer task, GPU | a fence is reused only after its submission; the lag of the GPU is bounded |
| `app/CommandGraph`, `SecondaryCommandGraph`, `commands/ExecuteCommands` | pool of command buffers, latch | `record`, `connect`, `reset`, `completed` | task, GPU | a command buffer is recorded only while the GPU does not use it; secondaries first |
| `io/DatabasePager`, `nodes/PagedLOD` | request status, queues, lists of loaded nodes | `request`, `requestDiscarded`, read thread, `updateSceneGraph` | record traversal, compile manager, delete queue | each node is loaded once at a time; what is wanted is loaded; what is in use stays |
| `nodes/PagedLODContainer` | three index-linked lists in one array | `active`, `inactive`, `remove`, `resize` | pager | the lists partition the elements |
| `threading/DeleteQueue` | list of (frame, object), caches to prune | `advance`, `add_prune`, `wait_then_clear`, `clear` | pager, delete thread | everything is deleted once, late enough and in the end |
| `threading/OperationQueue`, `OperationThreads`, `io/read(Paths)` | queue, threads, status, latches | `add`, `take`, `take_when_available`, `run`, `stop`, `read` | readers, viewer, compile manager | every operation runs once; a read returns, with all of its objects |
| `app/CompileManager`, `CompileTraversal` | queue of compile traversals | `compile`, `CompileResult::add` | pager, viewer | a traversal has one user; results are merged completely |
| `app/TransferTask` | data maps, staging blocks per frame, semaphores | `assign`, `transferData` | tasks, GPU, compile traversals | a staging block is written only when its transfer is over; a frame reads what was copied for it; no wait without a signal |
| `core/MemorySlots`, `vk/DeviceMemory`, `vk/MemoryBufferPools` | maps of free and reserved slots, pools | `reserve`, `release`, `reserveBuffer`, `reserveMemory` | compile contexts | slots are disjoint, aligned, and merge again; each has one owner |
| `core/IntrusiveAllocator` | blocks with free elements linked in place | `allocate`, `deallocate` | all objects | the free list is consistent |
| `core/Object`, `Auxiliary`, `ref_ptr`, `observer_ptr` | reference counts | `ref`, `unref`, conversion | everything | an object is deleted once, never while observed as valid |
| `utils/SharedObjects` | sets of shared objects | `share`, `prune` | read threads, delete queue | pruning removes only what nobody else uses |
| `vk/State`, `vk/Context`, `vk/DescriptorPool(s)` | state stacks, pools | `push`, `pop`, `allocate` | record and compile traversals | stacks are balanced, pools are not overcommitted |
| windows, swapchain, presentation, platform code | images, surfaces | acquire, present, resize | viewer, window system | external protocols |
| nodes, state, commands, lighting, ray tracing, mesh shaders | descriptions | compile, record, traverse | Vulkan | no protocol of their own |
| input and output, animation, user interface, text, maths, utilities | data | reading, numeric work | application | sequential |

What is hard to test here: the interleavings of four kinds of threads (main, record
threads, read threads, delete thread) with the GPU, results that arrive late (a discard, a
fence, a transfer), constants of different classes that have to agree (three buffers, three
frames of retention), and the starting and stopping of threads. `PROJECT.json` lists each of
these hazards at its line, with the properties that cover it, or why none does yet.

## 2. Modules

| module | models | composed of / implements |
|---|---|---|
| `AbstractBarrier` | what a barrier promises | |
| `Barrier` | `Barrier.h` with its counter, phase and condition variable, spurious wake-ups included | implements `AbstractBarrier` |
| `BarrierProofs` | theorems about `Barrier` | |
| `ViewerThreading` | the frame loop of `Viewer` and the record threads | uses barriers as `AbstractBarrier` describes them |
| `ViewerThreadingProofs` | theorems about `ViewerThreading` | |
| `FramesInFlight` | what the fences promise: at most `NumBuffers` frames in flight while a frame is prepared | |
| `RecordAndSubmitTask` | fence ring, command buffer pools, GPU | implements `FramesInFlight` |
| `RecordAndSubmitTaskProofs` | theorems about `RecordAndSubmitTask` | |
| `TransferTask` | copies of modified data, staging blocks, semaphores, GPU queues | the frame loop of one task, seen from its copies |
| `TransferTaskProofs` | theorems about `TransferTask` | |
| `PagedLODContainer` | the three index-linked lists in one array, as operators on a container | |
| `DatabasePager` | paging of `PagedLOD` nodes by recorders, read threads and the scene update | holds a `PagedLODContainer` |
| `DatabasePagerProofs` | theorems about `DatabasePager` and its container | |
| `DeleteQueue` | delayed deletion by the delete thread | |
| `SubgraphRetention` | the life of a paged subgraph from merge to deletion | composes `DeleteQueue` and `FramesInFlight` |
| `SubgraphRetentionProofs` | theorems about `SubgraphRetention` and the queue in it, and about `ObjectLifetime` | instantiates `ObjectLifetime` |
| `MemorySlots` | the slots of one block of memory, as operators | |
| `MemoryBufferPools` | buffers in device memory, shared by threads | every buffer and every memory has `MemorySlots` |
| `MemoryBufferPoolsProofs` | theorems about `MemorySlots` and `MemoryBufferPools` | |
| `ReadOperations` | `read(Paths)` on `OperationThreads`: queue, latches, nested reads | |
| `ReadOperationsProofs` | theorems about `ReadOperations` | |
| `ObjectLifetime` | reference count, auxiliary and observers of one object | |
| `MC...` | small instances of these for TLC | |

### How state and actions correspond to the code

*Barrier.* `numArrived`, `phase` are `_num_arrived`, `_phase`; `waiting`, `asleep`, `myPhase`
are the threads inside `arrive_and_wait`, those blocked in `_cv.wait`, and their local copy
of the phase. Each critical section of the mutex is one action. The phase is an unsigned
number and wraps (`PhaseModulus`).

*ViewerThreading.* `mainPc` goes through the frame loop, `pc` through the lambdas of
`setupThreading()`; between two synchronisations a thread's work is one action. A barrier is
the set of threads inside it. `visible` stands for `Window::visible()`: a graph of an
invisible window is not recorded. What a graph does is two actions: in `Record` it waits for its
latch and, if it is a secondary, makes its command buffer known (`buffer`) and counts down;
`AddRecorded` puts the buffer into the list of what has been recorded, where the graph that
executes it may be first. Each result that the threads ignore may be a failure: `Start` of a run
thread, the transfers, the late one in `Finish`, and the submission, which the queue may refuse;
`unsignalled` are the tasks with a fence that nothing signals since then, whose `start()` may
wait for ever. `submitted` and `abandoned` are histories of one frame: what each task has
submitted, and which tasks returned early.

*RecordAndSubmitTask.* The threads of a task are ordered by `ViewerThreading`, so the task
is sequential. `dependents`, `inUse` are `dependentCommandBuffers()` and
`numDependentSubmissions()`; `executing` and `signaled` belong to the GPU, which finishes
submissions in any order. A late transfer may fail (`FinishTransferFails`), and the queue may
refuse a submission (`FinishRefused`), at most `MaxFailures` times together; a `refused` fence has
dependents and nothing signals it.

*TransferTask.* `assigned`, `copiedCount`, `frameIndex`, `waitOnFence` and `consumer` are the
members of the same meaning for early and late data; `pc` is where the task is in its frame.
An item is a `BufferInfo` or an `ImageInfo`, its content the modified count it had when it was
written. `transferData` is one action up to the submission, which may fail. The GPU begins
submissions of one queue in order, when the semaphores they wait for are signaled, and
completes them in order; while it works on a copy the memory it writes is `Torn`. The semaphores
that hold a copy back until a frame has been read are made with the default stage, the bottom of
the pipe (`RecordAndSubmitTask.cpp:48`, `Semaphore.h:23`): such a wait holds back the end of the
copy and not its work, so a copy that is first in its queue may begin to write before
(`GpuRunsAhead`, `ahead`). Two copies that are at work at a time leave unknown contents in what
both write (`raced`), since the barriers in their command buffers order nothing before them.
`transferQueue` says whether the copies have a queue of their own, as by default where the
device has a second one (`WindowTraits.h:73`, `Viewer.cpp:625-637`). `dropped`, `handedOver`
are histories of the two cases in which the order of semaphores is given up.

*DatabasePager.* Each atomic operation of `requestDiscarded`, `request` and the record
traversal is an action of its own, since these run in different threads; the scene update
takes its steps node by node, the expiry loop one turn at a time. Frame numbers occur as ages.
`numActive` is `numActiveRequests` as the code counts it: every call of `request()` raises it,
also one that queues nothing, and this is never undone (`DatabasePager.cpp:273-281`). `leaked` is
the history of these calls, of which an instance has at most `MaxLeaked`. Priorities of requests are
abstracted to any order, and so is the order in which culled nodes become inactive. The append
to `newHighresRequired` is a read and a write, because nothing protects it from other
recorders.

*PagedLODContainer.* A container is a record of its elements, the three lists and the index
each node knows; `Move` is `_move()` with its cases, `Resized` is `resize()`, `ContainerSound`
what `check()` verifies.

*DeleteQueue.* An entry holds the frames it still has to wait for. The thread polls every
100 ms, so its wait is a guard. Deleting and pruning happen outside of the mutex and are
actions of their own.

*SubgraphRetention.* Adds what the queue is for: a frame may be recorded from any of the
attached subgraphs, and `uses` remembers the frames of each. An object is a reference to a
subgraph, made by one load; a subgraph that several loads have taken from the shared objects
has several (`SharedObjects.h:175-199`), and is deleted with the last of them. So the claims are
about references, and hold of shared subgraphs too: whichever reference a frame was recorded
by is still held.

*MemorySlots.* A `std::map` is a function, and the multimap of available slots a set of pairs,
so which of several slots of equal size is taken is left open. `ReserveAt` and `Release` are
`reserve()` and `release()` of one object.

*MemoryBufferPools.* `reserveBuffer()` takes the mutex twice, which makes two actions: a slot
in a pooled or a new buffer, and (for a new buffer) a slot of device memory; `binds` are the
threads in between. `ReleaseInfo` is `~BufferInfo` with what it sets off: the release of the
slot, or the end of the buffer and of the memory if nothing else refers to them. The result of
`Buffer::bind()` is ignored: when it fails (`NotBound`) the buffer is handed out without memory,
and `leaked` remembers the slot that was reserved for it; a memory that is full at once is in no
pool and goes with the failure (`BindLostMemory`). None of these infos has a parent, so `Drop` has
no case for it (`BufferInfo.cpp:106-109`).

*ReadOperations.* Each thread has a stack of reads, since a thread that waits for its
operations runs others of the queue, and what they read may ask for further files. A read is
named by the way to it, so the same file read twice is two reads. `objects` are the entries
that have been assigned.

*ObjectLifetime.* The moment the count reaches zero and the decision to delete are two
actions; the mutex of the `Auxiliary` makes the decision and the conversion of an
`observer_ptr` atomic. References belong to threads, and a thread gives others only copies of
references it has; an observer is made from another one or from a reference.

## 3. Runs

| run | instance | shows |
|---|---|---|
| `barrier` | 3 waiters, 1 dropper, 3 phases | counting, phases and wake-ups are exact under any interleaving; every waiter returns; the barrier implements `AbstractBarrier` |
| `viewer` | a task with primary, secondary and transfer threads, a task with one thread, a window, 3 frames, any calls that fail | updates exclude recording; a task submits its whole frame or nothing; what a graph executes is of this frame; threads leave together; the main thread comes back unless a submission was refused |
| `task` | 3 fences, 2 graphs, 6 frames, 1 failure | command buffers and fences are reused only when free; `fence(k)` is that of k frames ago; pools are bounded; `FramesInFlight` is implemented; `start()` waits in vain only for a submission that was refused |
| `transfer` | 2 blocks of each kind, an early and a late item, 1 failure, one or two queues | no block is overwritten while the GPU reads it; semaphores alternate; a frame reads what was copied for it, unless the copy that waits for it runs ahead; no modification is lost; nothing waits for what nobody signals |
| `pager` | 2 nodes, 2 read threads, 1 recorder, a container of one element that grows | a node is in one hand; the count of requests is that of the requests under way and of what has leaked; the container is sound; loaded nodes are tracked; only unused ones are expired, and enough of them |
| `retention` | 2 references to subgraphs, 3 buffers, 3 frames of retention, 6 frames | no reference is dropped that a frame in flight was recorded by; each has one owner; nothing due is missed |
| `memory` | 2 threads, 3 buffers, 2 memories, requests of 1 (aligned to 2), 3 and 7, minimum sizes 4 and 8, 1 failure | slots stay a partition with merged neighbours; each reserved slot has one owner, or was left by a failed binding; no two owners share a byte of memory |
| `reads` | 2 callers, 1 worker, files within files, `stop()` at any time | entries are complete when `read()` goes on; each operation runs once; `read()` and `stop()` return |
| `pager_lost`, `transfer_two_queues`, `read_repeated`, `lifetime_race` | | violations, see section 4 |

The bounds let everything interesting happen: a barrier with three waiters has one still
leaving while others arrive, and three phases wrap; three frames of the viewer include the
first, a repeated one and one after threads are started again; six frames go round a ring of
three fences twice, and let a subgraph be used, expired, retained and deleted while frames
are pending; two paged nodes with a target of one force expiry, and a container that begins
with one element (ten in the code) is resized with one, and two leaked requests add up in the
counter. `InactiveAge` is 1 instead of the
code's 3: only "used recently" or "not" matters. Two staging blocks of a kind are lapped by the
three copies the late item can have; the wrap of the ring does not depend on its length. Of
the requests for memory the first leaves a gap in front of or behind it, the second fits a
minimum buffer with room to spare, the third makes a buffer that is full at once and stays out
of the pool, as does the memory made for it; three buffers of these sizes need both memories, and
the failing allocation or binding hits buffers that others already use. In `viewer` nothing bounds
the calls that fail. The two callers ask for paths whose files ask for the same
kinds of paths, so one thread runs operations of the other in the midst of its own; the order
in which a map hands out its entries is fixed in an instance, and `SetToSeq` chooses it.

Deadlock is not checked in `task`, `transfer`, `memory`, `retention`, `reads` and
`lifetime_race`: frames, modifications or references are bounded, an application may keep all
its memory, and a reader is done when it has read. `NothingWaitsInVain` says for `transfer`
what the absence of deadlocks would.

### Fairness

Weak fairness of each thread: every thread is scheduled. Main is fair because an application
that renders keeps calling its frame loop, and only within calls: `MainAlwaysReturns` speaks
of calls that have begun. Nothing is owed by a thread that is in `start()` of a task with a fence
that nothing signals (`MainWaits`, `WorkerWaits`): the wait for the fence has no timeout that ends
it, and the fence of a refused submission is never signaled. Otherwise the GPU signals the fence, so
the wait ends. In `task`, a task that has been started is finished, and the GPU
completes what it is given; frames need not follow. In `reads` a thread goes on with its read,
reading a file ends, and a worker wakes after 100 ms at the latest; `stop()` need not be
called. The other specifications state no fairness and are checked for safety only. No strong
fairness is used; locks are not modelled as queues, since each critical section is one step.

## 4. Disagreements between the code and its comments

Each of these has a run whose single property TLC refutes.

* `pager_lost` (`NoLostRequest`): `requestDiscarded` (`DatabasePager.cpp:292`) resets the
  request count, the status and the pending subgraph one by one. A request made in between is
  dropped and never repeated, since the request count is not zero any more; or its pending
  subgraph is wiped and nothing is merged.
* `transfer_two_queues` (`DataIsTransferredForThisFrame`): a frame that recorded nothing does
  not wait for its copy; `finish()` (`RecordAndSubmitTask.cpp:226`) makes the next copy wait
  instead. With one queue this is in order. With two, the next copy and the next frame both
  wait for the one semaphore, and the frame may read memory that is being written.
  `RecordAndSubmitTask.h:44` says that "data is transferred for this frame".
* `read_repeated` (`ReadReturns`): the latch counts the paths (`read.cpp:178`), the operations
  are those of a map, in which a path given twice is one entry: `read()` waits for ever.
* `lifetime_race` (`DeletedByOne`): between the count going to zero and the decision to delete
  (`Object.cpp:99`) another thread may convert its `observer_ptr` and drop the reference
  again. Both attempt the deletion, and the second uses a deleted object. What holds, and is
  proved, is `ReferencesAreSafe`: nobody who has a reference sees the object go.

Observed while modelling, without a run of their own (most are listed as hazards):

* Two recorders append to `newHighresRequired` without a lock (`RecordTraversal.cpp:242`); with
  a lost entry a node in use may be expired. The `pager` run has one recorder.
* A failed late transfer leaves recorded command buffers that no fence will free
  (`RecordAndSubmitTask.cpp:218`); a submission that the queue refuses leaves a fence with command
  buffers that nothing signals, and `start()` waits for it for ever (`RecordAndSubmitTask.cpp:330`).
  It is the only case: `FrameIsFinished`, `MainAlwaysReturns`.
* The viewer ignores the results of `submit()`, `start()` and `finish()` (`Viewer.cpp:755`, `961`)
  and presents a frame of which a task may have submitted nothing: the exception in
  `FrameIsComplete`.
* `numActiveRequests` counts requests that are not queued and never gives them back
  (`DatabasePager.cpp:257`, `273-281`): the count that applications read as work under way stays too
  high. It does so by these requests alone, and never wraps (`CountedUntilDone`).
* `Semaphore.h:19` says that a semaphore synchronizes "completion of vulkan commands with the start
  of other vulkan command submissions"; the semaphores made at `RecordAndSubmitTask.cpp:48-49` keep
  the default stage, the bottom of the pipe, and a copy that waits for one is not held back by it.
  It may overwrite what the frame it waits for still reads: the exception in `FrameSeesItsData`.
* Nothing orders the copies of two submissions to a queue of their own if both run ahead of their
  waits; what is in memory that both write is then unknown (`raced`).
* Requests to prune are dropped at the first wake-up at which nothing is due
  (`DeleteQueue.cpp:79`), although their objects are still listed; `clear()`, which nothing
  calls, swaps a list with itself (`DeleteQueue.cpp:107`).
* Items that only the task refers to leave its collections only when something is copied
  (`TransferTask.cpp:401`).
* A buffer that is in the pool when the allocation of its memory fails stays there without
  memory, and later requests are served from it (`MemoryBufferPools.cpp:150`). If it is the binding
  that fails, the slot of memory is reserved for ever besides (`MemoryBufferPools.cpp:160`): the
  exception in `ReservedIsOwned`.
* A node that is wanted in the first two frames and stays in view is never entered into the
  container and so never counted or expired, because `frameHighResLastUsed` starts at 0: the
  exception in `LoadedIsTracked`.

## 5. Proofs

TLAPS checks these for every value of the constants that satisfies the modules' assumptions.

*Barrier* (`BarrierProofs`). Assumption: finitely many participants, at least one; a phase
counter of at least two values. The inductive invariant is `TypeOK`, `CountIsExact`,
`NoStalePhase` and `NoLostWakeup` together: the count can only be trusted if no waiter of an
older round is mistaken for one of the current round. From it follow each of the four,
`ReleaseNeedsAll`, and that `Barrier` implements `AbstractBarrier` with `Place` as refinement
mapping.

*Frame loop and threads* (`ViewerThreadingProofs`). Assumptions: finitely many tasks and
threads, one leading thread for each task, as `setupThreading()` creates them, secondaries in
the window of the graph that executes them, and at least one frame. None of the properties is inductive: each depends on where all the other
threads are. The invariant has two layers. `ControlInv` is about program counters, the frame
block and the three barriers only: until the main thread is released from
`_submissionCompleted`, the threads of a task are together in front of, between or behind its
two barriers (one stage per task), and at all other times every thread is at rest. From it
follow `UpdateExcludesRecording`, `TaskIsExclusive` and `ExitLeavesNobodyBehind`. `DataInv`
rests on it and says what latches, recorded graphs and submissions hold, by how far each
thread has come in the frame; from it follow `TypeOK`, `FrameIsComplete`, `SecondariesFirst`
and `SemaphoreOfThisFrame`. For a task that has returned early the invariant says that it has
submitted nothing, and nothing of what it recorded is in the list of the next frame. Between the two
steps of a secondary graph its command buffer is known and not in the list: what a graph that
executes it relies on is the buffer, which the latch at zero vouches for.

*Paging* (`DatabasePagerProofs`). Assumptions: finitely many read threads and recorders; the
value that stands for no node is not a node. `HandInv` says for every hand (the request queue,
a read thread, the list to merge, the nodes being merged, a recorder about to queue) which
status its node has, that no hand holds a node twice and no two hands hold the same node, and
that a node with a status is in a hand. That a node has a status alone is not enough: each
atomic step of `request` and `requestDiscarded` changes the status and the hands in turn, and
other threads run in between. It gives `InFlightOnce` and, by counting, `CountedUntilDone`:
the counter is the requests under way and those that have leaked, because no node is counted in two
places and none is given back twice.

*Container* (`DatabasePagerProofs`, second part). Links between elements say nothing about the
whole of a list, so the proof is about chains: `Linked(c, chains, loose)` says that each list of
the container `c` is the sequence `chains[name]` of elements without repetition, that each link
goes to the neighbour there, and that every element is in the chain of its list, except the
`loose` ones that are being moved. What each operation does to the links is what `RemoveAt`,
`Append` and `\o` do to the chains: `UnlinkedChains` (an element leaves its list at any
place), `AppendedChains`, `ResizedChains`, and the moves and removals made of them. `Sound` is
`Linked` with nothing loose, and elements and nodes that point to each other. `SoundIsChecked`
shows that the walk of `check()` along the links then finds the chain, the count, both ends and
the links backwards. Two inductions over numbers are needed, for the walk and for the folds of
the sweep over the nodes that were culled or are required; the induction theorems of the library
take a predicate as a parameter, so `NumbersByInduction` says it of a set, from the minimum of a
well-founded relation.

`ContainerInv` puts this into the pager. It adds that the expiry loop stands on an element of
the inactive list, or behind the last, and has left no child before it (`LoopIsInList`); that
holds because a removal shortens the chain at the place where the loop stands and only there,
and because a node in flight, which the loop skips, has no child (`LoadedIsSettled`). From it
follow `ContainerIsSound` and, with the number to keep (`KeepIsBelow`), `ExpiryReachesTarget`,
for any number of recorders.

*Use of nodes* (`DatabasePagerProofs`, third part). Assumption: one recorder (`OneRecorder`),
that is, one record traversal at a time, as without threads or with one command graph. With two
the append to `newHighresRequired` may lose a node (the hazard at `RecordTraversal.cpp:242`),
and the claims are false. `LoadedIsTracked` is not inductive: what is merged was requested
frames ago. `UseInv` follows a node from its first use: what is in flight, in use or at hand has
an element or is required (`LaterIsTracked`); an inactive node that is used again is required,
so the sweep takes it back before the expiry loop can see it (`UsedIsRequired`); and what the
recorder has read of the vector is current (`SnapshotIsCurrent`). From it follow
`LoadedIsTracked` and `ExpireOnlyUnused`.

*Fences and command buffers* (`RecordAndSubmitTaskProofs`). Assumption: at least two buffers.
The invariant has two main parts. `Ownership` and `FencesAreSound`: a command buffer in use is being
recorded or depends on exactly one fence, and what a fence executes depends on that fence; so a
free one is not executed (`RecordingIsPrivate`), and a fence nothing depends on is at rest
(`FenceIsFresh`). `FrameIsAge`: the fences are used in turn, so the distance of a fence from the
current index says which frame it was last submitted for. The fence that `start()` waits for is
the one of `NumBuffers` frames ago; with the ages of different fences being different
(`AgeIsInjective`) this gives that the task implements `FramesInFlight`. Two further invariants
rest on it. The indices shift down by one in every frame, so `fence(k)` is that of k frames ago
(`IndicesAreHistory`). And a command buffer of a graph that is in use depends on a fence, no two
of one graph on the same one unless a call failed, so that a graph needs at most one per fence
and one per failure (`PoolIsBounded`).

*Transfers* (`TransferTaskProofs`). Assumptions: early and late items are disjoint, static items
are early, at least one staging block. `TransferInv` has three parts, and each property needs
its own. *The ring* (`BlocksAreTaken`): a copy that has not been completed has a block of its
own that the task would wait for, whatever failed; so a block that need not be waited for, or
whose fence is signaled, is nobody's, and filling it disturbs no copy (`StagingIsStable`).
*The last copies* (`LastCopyIsCurrent`, `TakenBlocksHaveCopies`), while no call fails: the last
copy of an item carries what it is taken to have, and the device has it when there is no copy;
completion keeps this because copies share a queue and so complete in order
(`NoModificationLost`). *The chains* (`ChainInv`), in step: the submissions that have to do with
a kind of data, copy, frame, copy and so on, form a chain in which each waits for the semaphore
that the one before it signals (`Linked`), only the first can have begun (`OnlyFirstBegins`), and
what the task remembers as the semaphore to wait for is what the last one signals. That only
the first can begin needs the queues: two members in one queue begin in order, and two in
different queues wait for different semaphores, of which one is signaled; this is where
`transfer_two_queues` fails once a semaphore was handed to the other queue (`QueuesAreKept`).
`Balanced` counts signals and waits along the chain (`SemaphoresAlternate`); `FrameData` says
that what a frame reads is in the copy before it, or on the device if it is first, and so stays
there while it executes (`FrameSeesItsData`); and the oldest submission is the first of all of
its chains, so that it can always go on (`NothingWaitsInVain`). Copies that run ahead of their wait
may write before they have begun, and two more invariants confine them. `RunnersWait`: such a
copy waits for frames only, and what is before it in its queue is at work; with the chain, what it
spoils (`Spoilt`) is read by the one frame it waits for. `NoRaces`: in the queue of the frames,
between two copies of one kind there is a frame which waits for the first (or the second waits for
it), so the second is not at work before the first is complete; copies of different kinds write
different items.

*Subgraph retention* (`SubgraphRetentionProofs`). Assumption: at least one buffer, and
`NumBuffers <= RetainForFrameCount`. The claim (`GpuUsesNothingDeleted`) is not inductive: it
does not say when a listed subgraph was last used. The invariant dates this. With F the
pager's frame and R the frames of retention, an entry with `due` frames to wait was last
recorded at frame F + `due` - R - 1 or before (`ListedIsUnused`), one that is taken or deleted
at F - R - 1 or before (`BatchIsUnused`, `DeletedIsUnused`), while a frame in flight is at
least F - `NumBuffers` (`Lag`). Expiring keeps it because it happens before the frame is
recorded (`UsesArePast`, `PagerFollows`), and recording because no reference that is attached is
listed (`AttachedIsUnknown`): a reference is handed over once, though its subgraph may be attached
by others. A second invariant, `QueueInv`, is about the list: it is ordered
by due frame, because entries are appended with the largest wait, and no object is in two
places (`OneOwner`). From the order follows that the prefix that is taken is all that is due
(`TakeMissesNothing`). `FramesAreFramesInFlight` shows that the frame loop in the composition
is `FramesInFlight`; together with the refinement above, the deletion is safe with the fences
as the code uses them.

*Slots of memory* (`MemoryBufferPoolsProofs`, first part). No assumption but positive sizes and alignments. `Sound`
says that the two views of the available slots agree, that the slots are a partition of the
block, and that no two available slots are neighbours. A new block is sound, and `ReserveAt`
(of any slot that is large enough after alignment) and `Release` keep soundness. That a
neighbour is available exactly if its slot ends or begins where the released one begins or
ends is what keeps free space in one piece.

*Buffers and memories* (`MemoryBufferPoolsProofs`, second part). Assumption: positive sizes and alignments.
The inductive invariant is `TypeOK`, `SlotsAreSound` and `ReservedIsOwned`, where a slot of memory
is owned by a buffer or listed as leaked, with the fact that threads bind different buffers
(`BindsDiffer`): without it one thread could bind the buffer of another, whose slot of memory would have no owner. Its proof uses the slot theorems for one
block at a time. `InfosAreDisjoint` follows through both levels: two infos of one buffer have
disjoint slots of it, and infos of two buffers lie within slots of memory that are disjoint,
since a buffer requires at least its size (`Sizes`).

*References* (`SubgraphRetentionProofs`, last part: the queue deletes a subgraph by dropping its
reference). Assumption: finitely many references. The invariant ties
`referenceCount` to the number of references held and says that an object that is still
connected is not being deleted; from it `ReferencesAreSafe`. `DeletedByOne` is false, see above.

*Reads* (`ReadOperationsProofs`). Assumption: what callers request and files contain are
sequences of files, cyclic or not (`ReadAssumption`). Both properties say that nothing happens
twice, and the latch depends on it: it begins at the number of paths and is lowered once for
each entry that is finished, assigned and off its stack (`Latching`), which is the number of
entries still missing only if none of them was finished before or is finished again. The queue
and the stacks of one moment do not show this. `Descent` does: an entry exists, in the queue,
on a stack or done, only if its read has begun; so a read that begins has no entries yet, and
as it begins once, its operations are new when they are added (`Adding`). `CallersWait` says
that the read which an operation belongs to is on a stack and has not gone on, so that there is
a latch to count down and a list of entries to write into: the code keeps both on the stack of
the caller (`CallersStay`). A wait ends with the latch at zero, when the finished entries are as
many as the paths and hence all of them: so nobody is left to write into them
(`EntriesAreComplete`). With a path given twice there are fewer entries than paths, the latch
stays above zero and the wait does not end (`read_repeated`): the safety properties hold there
too, which is why the theorems do not exclude it. That a file is read within its own file
(`Nested`) is needed for the reads that use no latch, of a single path.

Every invariant and action property that a passing run checks is proved. Only model-checked is
what needs fairness (`EveryWaiterReturns`, `MainAlwaysReturns`, `FrameIsFinished`, `ReadReturns`,
`StopReturns`): liveness under fairness and statements with `ENABLED` stay with TLC, since the
installed provers do not support them.

## 6. What is assumed, and what is left out

* The application calls the frame loop as the examples do: `advanceToNextFrame`, `update`,
  `recordAndSubmit`, `present`, from one thread, each frame recorded once. `close()` during a
  frame from another thread is outside of the model (it would leave the main thread in a
  barrier), and so is a frame that is advanced and not recorded.
* The GPU finishes each submission. Lost devices are not modelled; the semaphores of windows
  and of other tasks, swapchain images and the waiting for fences by the application are not
  either.
* The memory model of C++ is sequentially consistent here, except for the append to
  `newHighresRequired`; plain accesses that race are listed as hazards.
* Reading a file may fail or succeed; compiling may fail or succeed. What is read is any node.
  In `ReadOperations` a failed read is an object like any other.
* A frame presented without a submission is not followed to the window: what is on the screen then
  is not modelled. When `start()` fails with a primary thread, the frame goes on as the code does.
* In a copy, the failure to map a staging block (`TransferTask.cpp:540`) is left out: it gives up the
  copy of this frame as if there were nothing to copy, and leaves a block without a pointer to its
  memory, which the next copy with this block writes through; that is undefined. The path for a copy
  that turns out to be empty (`TransferTask.cpp:612-616`) is taken only if the last references to all
  modified items go while their task is copying.
* `BufferInfo::release()` has a case for infos that are parts of others (`BufferInfo.cpp:106-109`),
  which `reserveBuffer()` never makes.
* The destructor of the pager ends the delete thread; what is left in the queue then goes with it,
  whatever the GPU does (a listed hazard).
* Vulkan's answers are inputs: what memory a buffer requires is its size rounded up to one
  alignment for all, one memory type suits every buffer, and a call may fail.
* Graphs that execute secondaries share a window with them; the mixed case is a listed hazard.
* Not modelled, with the reasons in `PROJECT.json`: `IntrusiveAllocator` (pointer arithmetic
  under one mutex), `SharedObjects`, update operations, descriptor pools, state stacks,
  windows and presentation (an external protocol), `CompileManager` (its queue of traversals is
  the one modelled by `ReadOperations`; the rest creates Vulkan objects), input and output,
  animation, user interface, utilities, and everything numeric or about file formats and
  platforms, which is out of the reach of a model checker. Most of the lines of the repository
  are of these kinds: shaders as strings, maths, visitors, Vulkan wrappers.

## 7. Plan

1. Barrier and its abstraction; refinement proved. *Done.*
2. The frame loop and its threads; safety proved. *Done.*
3. Pager, container, delete queue and subgraph lifetime; safety proved. *Done.*
4. Fences and command buffers; safety proved. *Done;* to do: semaphores of windows.
5. Reads and operation queues; safety proved. *Done;* to do: insertion at the front, exceptions of
   operations.
6. Transfers; safety proved. *Done.*
7. Memory. *Done;* to do: images and several memory types.
8. References and observers. *Done;* to do: the creation of an `Auxiliary` by two threads.
9. `CompileManager` and the merging of results; `SharedObjects`; descriptor pools; state stacks.
