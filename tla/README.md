# A verification of speedo

speedo is a small engine: a client that renders with Vulkan, a server it talks to, and a core with
a task executor that both run on. This directory models the parts of it where threads, the graphics
device, the disk and the order of events decide what happens, checks them with TLC on small
instances, and proves with TLAPS the central facts of the lock (for every number of threads), of
the executor (for every number of workers and every graph of tasks), of the frames (for every number
of queues, frames and uploads), of command buffers and descriptor sets, of drawing and presenting
(for every number of frames, draws and resizes), of the asset cache, and of a start: the device that
is set up, the models and images that are imported, the input and the views a frame shows.

Everything below `src/` in a path is relative to the repository's root. What each definition
translates is in `PROJECT.json` under "map", and every hazard the models are built for, at its
line, under "hazards". In this text the files are abbreviated: `usm` is
`src/core/upgradablesharedmutex`, `te` is `src/core/taskexecutor`, `ra` is
`src/rhi/vulkan/rhiapplication.cpp`.

## The system

| Component | State it keeps | Operations | What makes it correct |
|---|---|---|---|
| `core/upgradablesharedmutex`, `core/concurrentaccess` | one atomic byte: Writer, Upgraded, a count of readers | lock, lock_shared, lock_upgrade, their unlocks, four exchanges, three try functions | exclusion; the byte says who holds it; nobody sleeps beside a free lock |
| `core/task`, `core/memorypool`, `core/future` | 1024 slots; in each task a latch and its successors; the future's shared state | CreateTask, AddDependency, operator(), Get | a slot has one owner; a task runs after its predecessors, once |
| `core/taskexecutor` | ready and deletion queue, a counter, a condition variable, worker threads | Submit, Call, Join, JoinOne, destructor | handles are neither lost nor doubled; Join returns; workers wake up |
| `client`, `server` | three (one) task handles and their states | Create, Destroy, the Rpc, Tick and Draw loops | a loop never overlaps itself; shutdown completes |
| `rhi/queue`, `semaphore`, `fence`, `circularcontainer` | a timeline for each context; pending callbacks; fences | EnqueueSubmit, Submit, SubmitCallbacks, SwapAndResetPool | callbacks after execution; pools reset after execution |
| `rhi/vulkan/rhiapplication` | the current queue, queued draw and main calls | Draw, Main, OnResizeFramebuffer, constructor, destructor | frames in order; uploads before use; nothing left at the end |
| `rhi/command` | two pools for each queue, in each level lists of command buffers | Commands, end, enqueue, submit, reset | no buffer is reset while pending; what is recorded is executed once, in order |
| `rhi/swapchain`, `window`, `frame` | the swapchain, frame index, present ids | Flip, PreparePresent, Present, WaitPresent, resize | the right image is shown; objects outlive their use |
| `rhi/rendertarget`, `renderimageset` | layout and load operation of each attachment | Begin, End, Transition, clears | every command finds its image in the layout it was told |
| `rhi/pipeline`, `descriptorset` | descriptor data, its map and template, arrays of sets; pipelines by key | SetDescriptorData, BindDescriptorSetAuto, BindPipelineAuto | what is bound was written, sets in use are not rewritten; a pipeline fits its target |
| `rhi/device`, `instance`, `rhi` | physical devices, extensions, features, queue families | the constructor of RHI | what was enabled is supported; the swapchain fits the surface |
| `core/file` | manifest, cache and source files | LoadAsset, SaveObject, LoadObject | cached data belong to the source they came from |
| `rhi/image`, `rhi/model` | staging buffers, textures, vertex and index buffers | LoadImage, LoadModel | every texel block and every corner arrives in its place |
| `rhi/shader` | shader modules, the set layouts they use | LoadShader | through the asset cache |
| `client/main.c`, `core/eventhandlers`, `core/inputstate` | one event of mouse and keyboard each; two queues; the input's state | the handlers of main, Tick | no press, release or position is lost or taken twice |
| `rhi/window` views and cameras | configuration, cameras, a view buffer for each frame | InternalUpdateViews, InternalInitializeViews, InternalUpdateViewBuffer | what a frame shows is what the cameras are |
| `core/utils` RangeSet, `gfx`, `core/nodegraph` | values | pure functions, forwarding | RangeSet stays sorted and disjoint |

How they interact. Everything runs as tasks of one executor: the loops of the client, the
collection of callbacks that `Draw` submits with each frame, and the callbacks themselves, which
wait for fences or presents and meanwhile help the executor through `JoinOne`. `Draw` runs on a
worker under `gDrawMutex` and the write lock of the graphics context; the main thread calls the
tasks in `mainCalls`, among them the loads of images and models under the write lock of the transfer
context; a loaded image reaches `Draw` through the queue `drawCalls`, and the pipeline's descriptor
data through a task on whatever worker takes it. Events of mouse and keyboard cross from the main
thread to Tick through two queues; Tick moves the cameras and leaves a task in `drawCalls` that copies
them to each frame's buffer. Loads go through `file::LoadAsset`, which decides
between the cache and an import. The device takes what is submitted to its queues and answers
through timeline semaphores and fences; the presentation engine takes presents and gives images
back. All locks of contexts, descriptor data and the executor are `UpgradableSharedMutex`.

What is hard: the retry loops of the lock; the executor's counter and queues that change apart
from each other and outside its mutex; ownership of handles that pass from queue to thread to
queue; values of semaphores that are read, kept and compared later; two graphics queues sharing
one timeline; layouts the host remembers of images the device has not touched yet; a resize in the
middle of it; descriptor sets that rotate under a lock that changes its mode three times; three
files on disk written one after the other without a rename; shutdown, which starts while the last
tasks are still being retired. The full list has its lines in `PROJECT.json`.

## Modules

Concurrency of the core:

* `SharedLock` - the abstract lock: who holds what, in one step each. Also the lock that
  `DescriptorSets` uses.
* `UpgradableSharedMutex` - the real one. A step is one atomic operation on `myBits`, one
  comparison of `std::atomic::wait`, or one `notify_all`. `call[t]` is the member function thread t
  is in and `at[t]` its next step; `holds[t]` is what was granted, and it decides the functions the
  caller may use (`Callable`). `compare_exchange_weak` may fail without reason when `WeakCas` is
  true. `MCMutex` gives the sets of functions the runs use.
* `TaskExecutor` - slots, tasks, both queues, `myReadyQueueSize`, the workers' sleep and Submit, Call
  and the purge. A handle is a slot's index; `task` maps the constructed ones. Each thread has its
  next step `at`, the stack `calls` of the tasks it is inside of (JoinOne nests), the index `adj` in
  the successors of the innermost, and what its Submit has left to do. It has no next-state relation
  of its own; two modules extend it with the bodies of tasks.
* `TaskGraph` - dependencies, a client that submits, calls and joins, and bodies that wait for a
  fence and call JoinOne (`waitAcquireNextImage`). `MCTaskGraph` gives the graph.
* `TaskLoops` - self-renewing loops, what creates and what destroys them, and the executor's
  destructor. `process` says whether it is the client, with its three loops and ClientDestroy's
  waits, or the server, with its Rpc alone.

The device's work:

* `FrameTimeline` - the timeline contexts. `timeline` is the host's value, `counter` the device's.
  `submits` is the `QueueHostSyncInfo` beside each queue, `pools` the two `mySubmittedCommands`,
  `callbacks` what `myTimelineCallbacks` holds, `pending` the batches of each queue on the device.
  Draw is four actions (BeginFrame, ResetQueue, CallDrawCall, SubmitFrame), which lets the loads, the
  device and collecting tasks run between them; the collecting task is three (ReadValue, DrainOne,
  PutBack).
* `CommandPool` - what `FrameTimeline` counts: arrays of command buffers in the lists of a pool's
  levels, recorded through scopes that callers copy, nested through secondary buffers, enqueued,
  submitted and reset with the other pool. The device finishes buffers beside it, one at a time.
  Buffers are numbered per level as they are begun, so that one executed twice, out of order or not
  at all shows.
* `RenderTarget` - a render target as a value, its calls as operators on a pair of target and
  recorded commands (barriers, renderings with their layouts and load operations).
* `Presenting` - extends it with the window: Draw from the acquire through its passes to the submit
  and present, the resize of the framebuffer, the device executing the graphics queue, the
  presentation engine, the callbacks that keep a semaphore until its present is over, and the cache
  of pipelines. A pipeline is the kind of target and the vertex attributes it was made for. The main
  thread loads models at any time: it sets the vertex input, which is `"torn"` until the last of four
  stores, and then hands the model over; each secondary command buffer takes the model for itself and
  binds the pipeline afterwards. `world` has the images as the device sees them. What a command will
  meet is what `world` becomes when all that is queued and recorded before it has been executed;
  `EachMeets` states a property of each command at its turn.
* `DescriptorSets` - the data of one set layout: setting it one by one, as a vector and element by
  element, the map and the update template, and binding with its three changes of the lock's mode.
  Each element's value is its own, so that one in another's place shows.
* `Recording` - what a frame is recorded with: a behaviour of the one or of the other, which share no
  state, since a bind is a command like any other to a pool. `MCRecording` gives the bindings.

Assets and startup:

* `AssetStore` - the abstract store: a load returns the source as it was at some moment of the call,
  or a version that looks the same to time stamp and size; it fails only when something went wrong
  during the call.
* `AssetCache` - `file::LoadAsset` step by step: one access to the disk each, any of which can fail,
  with a crash between any two, and edits and lost files at any time. `MCAssetCache` gives versions
  of which two look the same.
* `DeviceSetup` - the constructor of RHI on a machine, a sequence of physical devices, at any number
  of starts. `saved` is the index in device.bin: it is written when the program ends, survives a crash,
  may be lost, and at the next start, when the machine may be another one (`moved`), it overrides the
  index that is detected. `features` has what each device answers to the structures that are chained,
  `enabled` the extensions the logical device gets.
* `ImageImport` - levels of an image, shared out among workers block by block and scaled by shares of
  rows, through staging buffer and cache file to the texture.
* `ModelImport` - corners of an OBJ file to unique vertices and indices, through staging and cache
  to the buffers.
* `Views` - from an event to the view buffers. `devices` is what mouse and keyboard are like, `mouse`
  the one event all mouse handlers of main.c share (`gMouse`), `input` Tick's `myInput`; `cameras` has
  each view's rectangle and its pose, a number that counts up when the camera moves. `doing` says
  where main, Tick and Draw are: Tick takes one event a step, Draw reads the number of views and then
  the cameras for each frame, and a resize or a choice in the menu may come between.
* `Startup` composes the four: a device is set up, files are imported on it, or the window is used, or
  the program ends and starts again.
  `MCStartup` has machines, images, meshes, window sizes and layouts.

`UpgradableSharedMutexProofs`, `TaskGraphProofs`, `TaskLoopsProofs`, `FrameTimelineProofs`,
`RecordingProofs` (command buffers and descriptor sets), `PresentingProofs`, `AssetCacheProofs` and
`StartupProofs` hold the theorems.

## Runs

| Run | Instance | Shows |
|---|---|---|
| mutex | 3 threads, all functions, weak compare-and-swap | exclusion, the byte's meaning, refinement of `SharedLock` |
| mutex_guards | 3 threads, lock and lock_shared, weak compare-and-swap | no thread is left asleep beside a free lock |
| task_graph | 2 workers, 1 client, 4 tasks, two before a third, two that wait for fences | handles, latches, counter, order, Join |
| task_wakeup | 1 worker, 1 task | **violated**: a lost notification |
| task_loops | client or server, 2 workers, 2 loops (Rpc and one more), 4 slots | one task for each loop, slots suffice, shutdown |
| frames | 1 graphics queue, 2 frames, an image, a model, a resize, to the destructor | pools, callbacks, uploads |
| frames_queues | 2 graphics queues, 3 frames, a model, a resize, no image | the counter and the end of batches where frames rotate over queues of one timeline |
| frames_callbacks | 2 graphics queues, 2 frames, an image | **violated**: callbacks called while their frame executes |
| recording | 2 levels, 4 buffers an array, 2 inheritances, 6 buffers begun; or 2 recorders, a loader, 3 bindings of 1 and 3 elements, 2 sets an array, 4 calls that set data | arrays in one list, recording, in flight, order; data in place, what is bound |
| presenting | 2 frames, 2 queues, 3 draws, a resize, 2 loads of models of 2 kinds of attributes | layouts, images, semaphores, pipelines fit targets and models, the picture shown, Draw ends |
| asset_cache | 4 versions, two of which look the same, 3 imports | the manifest's word, refinement of `AssetStore`, loads end |
| startup | any number of starts on machines of 0 to 2 devices of 7 kinds; 3 images, 3 workers; meshes of up to 3 corners; 3 events of 2 buttons, a key and the pointer, 2 window sizes, 2 layouts, 2 frames | the device fits, texels and corners arrive, input is followed, frames show the cameras |

The two violated properties quote a comment of the repository; the findings in `PROJECT.json` give
the lines and the story.

What the properties say, module by module:

* Lock: `MutualExclusion`; `BitsMatchHolders`, the byte counts exactly the readers and those who
  pass through, and its low bits say whether there is a writer or an upgrader; `SomebodyGetsTheLock`,
  a thread that waits does so until somebody holds the lock, unless it is `Misled`.
* Executor: `EachHandleInOnePlace` over slots, queues, threads and latches; `SuccessorsWait`, a latch
  is as high as there are predecessors to come; `SizeCounts`, the counter equals the ready queue
  corrected by the threads between their two steps; `StartsAfterPredecessors`; `JoinReturns`;
  `OneTaskPerLoop`, `PoolSuffices` and `ShutdownCompletes` for the loops.
* Frames: `PoolsHoldPending`, `CounterTellsWhatFinished`, `CallbacksAfterExecution`,
  `EachCallbackInOnePlace`, `UploadsBeforeUse`, `BatchesFinish`. `CounterTellsWhatFinished` speaks of
  the contexts in `InOrder`: not of the graphics context where several queues and images meet.
* Command buffers: `EachArrayInOneList`, `RecordingIsOwned`, `InFlightUntouched`, `ExecutedInOrder`.
* Presenting: `LayoutsAgree`, `ImagesExist`, `PresentsThisFrame`, `SemaphoreOutlivesPresent`,
  `DrawEnds`; `PipelinesFit`, a pipeline was made for the kind of target it draws into and, while all
  models so far came with the same attributes, for those of the model that is drawn.
* Descriptors: `DataInPlace`, each element is where map and template say; `ReadyMeansWritten`, the
  set that is bound has what callers asked for; `BoundNotRewritten`; `FrontStaysWhileBound`.
* Assets: `ManifestHolds`, a manifest that agrees with the source names a whole cache of a version
  that looks the same; `ImplementsAssetStore`; `LoadsEnd`.
* Startup: `SetupFits`, at every start the device in use, what it was created with and what was
  chosen for it are there and belong together, with the exceptions listed below; `ImageAsRead`,
  `MeshAsInFile`; `InputFollowsEvents`, Tick's state and what is
  still in the queues add up to what mouse and keyboard are like; `BuffersShowCameras`, once no
  update waits or is under way, all frames have the poses of the cameras.

Each property of a passing run has a mutant, a definition with a plausible bug ("Mutant" in the
modules) under which TLC finds the property violated.

### Bounds, and why they are enough

`Modulus` is 16 where the code has 256: it only has to hold three readers and the two low bits, and
the proofs hold for every modulus that does. `SizeModulus` is 8 for 2^64: the counter wraps below
zero as it does in the code. Three threads give the lock a holder, a thread that waits and one that
passes through; two workers are what a race between workers needs, and the client makes a third
thread. Four slots are what two loops need at most (`PoolSuffices`). In two frames of one graphics
queue both pools are reset and two collecting tasks overlap. In three frames over two queues
(`frames_queues`) each frame waits for one on the other queue, and the third comes back to the first
queue with the second still under way. `MaxBegins` of six fills an array of four and begins the next, with
secondary buffers of two inheritances, and lets the pools change twice. Three draws over two frames
and two queues come back to a frame that is in flight, before and after a resize. The two loads of
models (`MaxLoads`) are a first one and a like or an unlike one after it, each of which can begin
and end before, within and after the main pass of any of the three draws; `PipelinesAlwaysFit` holds
for any number of them and of secondary command buffers (`DrawThreads`), of which the run has one for
each pass. Four calls that set data fill an array of two descriptor sets and allocate the next. Four versions and three imports
let an import fail, a second one find its leftovers and a third one follow. The starts in `startup`
are not bounded, and every machine may follow every other; each image
is chosen for one way in which sides divide among workers and blocks; three events (`MaxEvents`) are
a press, a move and a release in one Tick or in several, with a resize among them, and two frames
and up to two updates (`MaxUpdates`, with the one a Tick adds) let a camera move before, between and
after the copies. The theorems of `StartupProofs` have none of these bounds.

`mutex_guards` has spurious failures of the exchange in any number and is live all the same, since
fairness asks each thread to go on and only the exception, a misled writer, has nobody to wake it.

`recording` is checked up to symmetry: neither the recording threads nor the inheritances are told
apart, and all its properties are about safety.

Deadlock is checked where the system goes on for ever: the mutex runs, `task_graph` (a worker can
always wake up spuriously) and `recording`, whose callers can always do something.
It is off where a behaviour ends: when the executor is destroyed, after the last frame and the
destructor, when the bound of draws is reached, when nobody asks for an asset, when the device is
set up and the files are imported, and in `task_wakeup`.

### Fairness

In the mutex, each thread that is inside a function goes on, and a thread that holds the lock gives
it back: the scopes of ConcurrentAccess do so in their destructors. In the executor, each thread that
can take a step does; a worker asleep is not promised a spurious wake-up, a client need not submit,
a socket need not answer. In `TaskLoops` main goes on once ClientDestroy has begun. In
`FrameTimeline` the device works on any queue that can go on and Draw finishes what it began; loads,
resizes and the collecting tasks are not promised. In `Presenting` the thread that draws, the device
and the presentation engine go on; draws and resizes are not promised to begin. In `AssetCache` the
call goes on; edits, failures and crashes are not promised. No strong fairness is used.

`ShutdownCompletes` starts from a worker that has a task, because of the finding of `task_wakeup`,
and excepts an Rpc that failed, which leaves its state as it is (client.cpp:77, 85): ClientDestroy
then waits for ever.

## Proofs

`UpgradableSharedMutexProofs` proves, for any finite set of threads, any set of functions in use and
any modulus above `4 * Cardinality(Threads) + 3`:

* `TypeCorrect`, `Exclusion` and `Accounting`: `Spec => []TypeOK`, `[]MutualExclusion`,
  `[]BitsMatchHolders`;
* `Refinement`: `Spec => Lock!Spec`, that is `ImplementsSharedLock`.

The inductive invariant is `IInv`, the conjunction of TypeOK, MutualExclusion, BitsMatchHolders and
`Protocol`. Exclusion is not inductive by itself: that a thread may become a reader follows from the
byte's low bits, so the invariant has to say what they mean, and that the upper bits count
`Counted`, so that an empty byte means that nobody is there. `Protocol` ties the place a thread has
reached in a function to what it holds, which a release needs in order to take away what was
granted. The lemmas about `Counted` and about the byte's arithmetic carry the accounting through
each action; each action has its step and the refinement's step goes through the same list.

`TaskGraphProofs` proves, for any number of workers, clients and tasks, any dependencies between them
and any fences:

* `HandlesSafe`: `Spec => []EachHandleInOnePlace`;
* `SuccessorsSafe`: `Spec => []SuccessorsWait`;
* `OrderSafe`: `Spec => []StartsAfterPredecessors`;
* `CounterSafe`: `Spec => []SizeCounts`.

The inductive invariant `Inv` is `Types`, `Control` (which steps belong to which stack of calls),
`Places`, `Progress` and `Latches`. A latch is not counted by what has happened but by what is to
come: `Owed(b)` are the predecessors that have yet to count b down, because they have not finished or
because a thread is at them in its list, and the latch equals the cardinality of `Owed(b)`, plus one
until the task has run itself. What is queued or running has a latch of one, so nothing is owed
to it, which is `StartsAfterPredecessors`; what is owed something is in no queue and outlives the
thread that counts, which is `SuccessorsWait`. `Push` and `Pop` carry the stacks of nested
calls through the actions, `OwedSame` and `Quiet` the sets that an action leaves alone. For the
counter the invariant is `Counted`: it equals what it should but for a multiple of the modulus, so
that the step that makes it wrap needs no case of its own (`Wraps`, `SameRemainder`).

`TaskLoopsProofs` proves, for any number of workers and loops, in the client and the server, and any
pool that has a slot for each loop and each worker (`EnoughSlotsAssumption`):

* `LoopsSafe`: `Spec => []OneTaskPerLoop`;
* `SlotsSuffice`: `Spec => []PoolSuffices`.

The invariant gives each task one holder (`Places`): the queues, the thread that runs it, submits
it, or owes its latch the count that makes it ready. `Fresh` says that a task to come is the one
its loop's global handle names; since the running task is fresh until it has made its successor, no
other task of the loop is anywhere when the handle moves on. For the slots, `Slots` says that a
task is named by a handle, in the deletion queue or about to get there, and `Purges` that the
deletion queue has no more tasks than there are threads that purge, because a purge ends only with an
empty queue. So each worker accounts for at most one task that is no loop's current one, and the
worker that asks for a slot for none.

`FrameTimelineProofs` proves, for any number of graphics queues, frames, images, models and resizes:

* `TypeCorrect`, `PoolsSafe` and `UploadsSafe`: `Spec => []TypeOK`, `[]PoolsHoldPending`,
  `[]UploadsBeforeUse`;
* `SignalsInOrder`: `Spec => []CounterTellsWhatFinished`, of every context in `InOrder`;
* `CallbacksSafe`: `Spec => []CallbacksAfterExecution` where there is one graphics queue or no image is
  loaded. The run `frames_callbacks` shows that it does not hold without the assumption;
* `CallbacksKept`: `Spec => []EachCallbackInOnePlace`.

Its inductive invariant `IInv` follows a batch from the host to the device. `Device` says that what
is pending is in its queue in the order of its values, has a fence the host will wait for, and is
not finished (`Placed`, `Ordered`, `Apart`); that no value is skipped (`NoGap`); and that a batch is
chained to the one with the value before, by its place in the queue or by what it waits for
(`Chained`). From the chain follows that the device can only finish the next value (`FinishFacts`),
which gives `Counting`. `Host` says what the host needs to know to make the next link: the queue of
the last frame was given the context's last value. `SubmitKeepsDevice` has the argument for all five
handlers that submit, and `Submitters` shows that each meets its hypothesis. `InOrder` names the
contexts where the chain holds, so that one invariant serves every value of the constants.
`Whereabouts` follows a callback instead: at most one task keeps it, what is queued or kept was
not called, and every value a timeline gave is somewhere (`NoneLost`).

`RecordingProofs` proves of `DescriptorSets`, for any number of callers, bindings and calls and any
capacity of an array:

* `FrontHeld`: `Spec => FrontStaysWhileBound`;
* `BoundKept`: `Spec => BoundNotRewritten`;
* `DataStaysInPlace` and `ReadyIsWritten`: `Spec => []DataInPlace`, `[]ReadyMeansWritten`;
* `InsertAdds`: what `RangeSet::insert` returns, for any ranges and bounds.

The first two follow from what the lock allows. `PlaceTellsPermission` and `Exclusive` say who may be where
together: from the promotion until the update is done nobody else is there, and no other writer gets
in between an update and the bind of the same thread, since the lock is demoted, not given back.
`BoundBehindFront` orders sets as they come to the front, so that the next one is new.

The data need more: `WrittenInv` adds `DataKept` and `OneSetForEachCall`, besides the property
itself. `DataKept` says that a binding's offset is the sum of the counts of those before it, its count
the number of elements its ranges hold, the vector as long as all of them, and, as long as new
elements came in order, each element's datum as many places behind the offset as its ranges have
elements before it (`Aligned`). A set is written from the template's entries, so `DataKept` also says
that these were made from the map as it is. `OneSetForEachCall` counts: a set comes to the front
only for a call that set data, so the array of sets does not run out. Three parts of the argument are
about operators. Sums over a set of bindings, which the source has as accumulated offsets, are
turned into cardinalities of sets of items (`SumIs`), for which the library has facts about unions;
`SumAround` and `SumOfSame` then say what one binding's growth does to the offsets of the others. Of
`insert`, `InsertAdds` says that the ranges are in order and apart again and hold what they held and
what was inserted. And `IndexOffsetIs` says that `IndexOffset` is the number of elements before an
index, or the number of all for one that is new, so that a datum put there is where the template
will look for it if the new one is the last. The assumption about bindings is that they are numbers
and that each is set in one of the three ways (`KindAssumption`).

Of `CommandPool` it proves, for any number of levels, of buffers begun and of inheritances, and any
array of two buffers or more:

* `ArraysKept`: `PoolSpec => []EachArrayInOneList`;
* `RecordingOwned`: `PoolSpec => []RecordingIsOwned`;
* `FlightUntouched`: `PoolSpec => []InFlightUntouched`;
* `BegunInOrder`: `PoolSpec => []ExecutedInOrder`.

They share `PoolInv`. `ListInv` says that each allocated array is held once by one list, of all
levels and both pools; `Splice` is the lemma about moving one list behind another. `ScopeInv` says
that what records belongs to a pending array and to somebody who can end it, and `PendingInv` that
only the current pool has pending arrays, which is why a copy of a scope kept beyond a submit can do
no harm. `FlightInv` keeps the arrays of `InFlight`, that is what is with the device, enqueued or to
be executed by the primary buffer, in the submitted lists. None of this would give the order of
execution, which is about numbers: `OrderInv` says that in each level the numbers in flight are
consecutive from the last finished one up to `Before(l)`, and that those of the recorded buffers
follow. An enqueue moves buffers from the second part to the first. What is recorded is a flattened
sequence of sequences, so the module first proves what a concatenation of lists contains.

`PresentingProofs` proves, for two frames or more and any number of graphics queues, draws, resizes,
loads and secondary command buffers and any attributes of models:

* `LayoutsAlwaysAgree`, `ImagesAlwaysExist`, `AlwaysPresentsThisFrame` and `PipelinesAlwaysFit`:
  `Spec => []LayoutsAgree`, `[]ImagesExist`, `[]PresentsThisFrame`, `[]PipelinesFit`;
* `SemaphoreAlwaysOutlivesPresent`: `Spec => []SemaphoreOutlivesPresent`.

The first four are about commands the device has yet to execute, so their invariant `DrawInv` looks
ahead. `Final` is what the images become after all that is queued and recorded; `Remembered` says
that the host's targets have the layouts of `Final`, not those of the present images, and that is
what lets the next barrier name the right one. `QueueAsTold` and `Recorded` say that each command
meets what it was told, which an executed entry at the head of the queue and a new command at the
end both keep. `DrawnInv` carries what the passes of the present frame will have drawn until the
present. The calls of `RenderTarget` have lemmas of their own, and a draw, which records several of
them in one step, is taken apart into those. What a bind command was told is in the command, and
`BindInv` says why it fits: the map's graphics pipeline was made for a set and, while all models have
the same attributes, for theirs, because a model is stored after its vertex input and a thread that
has read one is in a pass whose target was set before. For the semaphore, `PresentInv` orders identifiers:
what was shown, what the presentation engine holds and what is queued follow one another, and all
are below `Upcoming`; a wait that ends because its swapchain is gone is covered by the resize having
waited for an empty queue.

`AssetCacheProofs` proves, for any number of versions and imports and any time stamps that do not
go back:

* `TypeCorrect` and `ManifestCorrect`: `Spec => []TypeOK`, `[]ManifestHolds`;
* `StoreImplemented`: `Spec => Store!Spec`, that is `ImplementsAssetStore`.

`ManifestHolds` is not inductive: what a manifest will say is decided at the start of an import, in
`info`, and what its cache will hold when the source is read, so the invariant says at each place of
the call what was looked at, what was read and which of the versions since the call began they
belong to. The same invariant says that a call that is about to return has read a version that looks
like one it saw, and that one about to fail was disturbed, which is what the refinement's steps need.

`StartupProofs` proves:

* `SetupAlwaysFits`: `Spec => []SetupFits`, for any number of starts on any set of machines whose
  devices offer fifo, as Vulkan demands, and no fewer images at most than at least
  (`MachinesAssumption`);
* `MeshAlwaysAsInFile`: `Spec => []MeshAsInFile`, for any meshes (`MeshesAssumption` is their type);
* `ImageAlwaysAsRead`: `Spec => []ImageAsRead`, for any number of workers and any images with sides
  of up to 32768, at which sizes and offsets stay below 2^32 (`ImagesAssumption`);
* `InputFollowed`: `Spec => []InputFollowsEvents`, for any positions, buttons, keys and number of
  events;
* `ViewsShown`: `Spec => []BuffersShowCameras`, for any number of frames, events and updates and any
  layouts with one number of views.

`DeviceInv` says after each step of the constructor what it has settled, and from what. Across starts
it rests on a fact about the code that nobody wrote down (`Known`, `SavedFits`): extensions are
remembered for the device that asks first, so only the first comes through the constructor, the
first is what device.bin names, and every machine with devices has a first. `MeshInv`
says of each stretch of an import that the indices so far stand for the corners so far, that no
vertex is there twice and that the map finds each at its place (`Imported`); afterwards, that the
description and both buffers, joined in the file and cut apart by its counts, are those of the whole
mesh.

`ImageInv` has what each phase of an image's import has done. `LevelsFit` gives the shape of the
levels, once: offsets are sums of sizes, a level's size is that of its blocks if its sides are
multiples of four, and a level's sides are half of the ones before (`Fit`). `FilledTo` says that
the levels before the present one lie in the staging buffer block by block, and `Onward` that `dst`,
which counts blocks and not offsets, is at least where they end and just where the present level
begins. Within a level workers take blocks and write them in any order: `Held` says that what they
hold was counted and is theirs alone, and `LevelUnderWay` that what was counted and is held by
nobody (`Finished`) is in its place, so that when all are told there is nothing left, all is.
`InPlace` is kept by a write because two blocks, of one level or of two, have no unit in common.
`RowsRight` and `ScaledRight` say that a level's rows come from the rows of the image they
cover: the shares of the workers, the last one's with the rest of the division, cover all rows of the
next level, and where a share is even its halves meet those of its neighbours. Both hold for `Good`
levels, those that `ImageAsRead` is about: levels without whole blocks or even shares are
imported, too, and the invariant has to get past them without knowing what is in them. The powers and
halves of sides are recursive functions, for which `Iterates` and `Induct` give existence and a
recurrence; the products of shares, columns and unit sizes are each proved from factors that are
named and then hidden, since the solver finds nothing in a larger term.

For the input, Tick's state after the events of a queue is a function defined by recursion
over that queue: `AbsorbedAppend` says that an event put at its end acts on what the rest leaves,
`AbsorbedTail` that one taken from its front changes nothing, and the invariant is the property with
the types it needs. The invariant about views is
about updates: a step that moves a camera adds one, so while there is none the poses stay, and the
frames before the one that is being copied are right (`Copied`).

Where a definition is a recursive function over positions or numbers, as `Absorbed`, `Ahead` or a
flattened list, the proofs first show from the least counterexample (`WFMin`) that a set of numbers
with zero and all successors has all numbers (`Induct`), then that the function exists, and reason
about the set of positions up to which a fact holds.

All parts of the invariants were checked by TLC on the instances above before they were proved.

Only model-checked: the liveness properties, which are `SomebodyGetsTheLock`, `JoinReturns`,
`ShutdownCompletes`, `BatchesFinish`, `DrawEnds` and `LoadsEnd`; the prover can neither decide ENABLED
nor use fairness. Every safety
invariant of a passing run is stated by a theorem. The other way round, the type invariants of the
lock, the frames and the asset cache are proved and no longer part of a run.

## Behaviours that are known and not asked for

* A reader that keeps trying starves a promoted upgrader (usm.cpp:56). `SomebodyGetsTheLock` is
  checked for the functions the scopes of ConcurrentAccess call. With all functions, TLC finds a
  sleeper left behind: an upgrade that steps back does not notify.
* A `compare_exchange_weak` that fails for no reason reports the byte of a free lock, and
  `InternalAquireLock` (usm.inl:9-21) sleeps until that byte changes: a writer left beside a free mutex,
  for ever if nobody else comes. `Misled` excepts it from `SomebodyGetsTheLock`. The exchange of x86
  processors does not fail so; those of arm64, for which the program is built too, can.
* The executor may be destroyed with a handle in its deletion queue (te.cpp:110), because the last
  body reports that it is done before its worker has retired the task.
* The callbacks of a queue's last batch are not collected by the destructor, whose comparison is
  strict (ra:1164), and those of the transfer queue only there.
* With several graphics queues the transition of an image (image.cpp:673) signals the timeline out of
  order. `frames_callbacks` shows the callbacks that come too early; and since the transition's lower
  value takes the counter back, `BatchesFinish` does not hold either: with two queues, an image and two
  frames TLC finds a frame that waits for ever. `InOrder` and the bounds of `frames_queues` leave this
  out.
* A model with other attributes than those before it finds the first one's pipeline, which reads its
  vertices as the first one's (pipeline.cpp:262, and the todo at 264); one loaded while the pipeline is
  being made may leave a mixture in it. `alike` excepts both from `PipelinesFit`.
* The index in device.bin is taken on any machine (device.cpp:159): another device may have become the
  better one, or the device at the index one that cannot present (`moved`). That it always is the index
  of the first device, which is there, is due to the extensions that are forgotten for every other
  device (utils.cpp:203); to mend that alone would make the index matter.
* The feature of SwapchainMaintenance1 is asked for and turned on (instance.cpp:75, device.cpp:232)
  and its extension is not enabled (device.cpp:199-229), although the feature decides whether presents
  have fences (queue.cpp:279). `SetupFits` excepts it by name.
* A swapchain that is suboptimal makes Flip report failure after it has acquired an image; `DrawEnds`
  does not hold then. `Suboptimal` turns this on.
* An image whose width or height is no multiple of its block, or whose rows do not divide among the
  workers, is not read back as it was (`WholeBlocks`, `EvenShares` in `ImageImport`).
* A machine whose surface has none of the formats asked for, whose surface sets no limit of images,
  whose chosen device was not the first or whose last graphics family cannot present ends in a trap
  or with a value that is not offered (`Unlucky` in `DeviceSetup`).
* A pointer that leaves the window is noticed with the next event that has a position, since the event
  of entering and leaving is not one Tick reads the field of (`Absorb` in `Views`). A drag goes on with
  the view it began in.
* A layout with another number of views can make `InternalUpdateViewBuffer`, which reads the number
  from the configuration without a lock, and the remembered active camera reach for a camera that is
  not there. `SameCountAssumption` leaves those layouts out.
* The projections of a new size or layout reach the buffers with the next input only: resize and menu
  add no update.
* A source edited within a second of the import, with its size unchanged, is not imported again;
  this is what `AssetStore` allows with versions that look the same.

## What is not modelled

Memory orders: the models are sequentially consistent; the places where the code uses relaxed
operations (the latch) are followed by queue operations that synchronise. The lock-free queues of
moodycamel are taken to be linearizable bags, as their documentation promises no order across
producers. Sockets and the RPC's serialization are a call that succeeds, fails or waits.
Tick and Draw of the client are one step in `TaskLoops`; `FrameTimeline` and `Presenting` have Draw
in detail. Dedicated compute queues and the aliasing of queue contexts without a dedicated transfer
family are not in `FrameTimeline`, since what the driver does with a queue under two locks is
undefined; `DeviceSetup` shows when it happens. `Presenting` assumes that the device supports present
identifiers (`gSupportsPresentId`). Render passes and framebuffers are the path without dynamic
rendering, which no target of the program takes; blits and copies between targets have no caller.
Push descriptors are switched off in shader.cpp. Shaders go through a third-party compiler; of
their loading only the asset cache has protocol. Cameras and geometry are floating-point arithmetic,
of which `Views` keeps that a camera has moved; keys that switch to full screen show there as a resize.
Allocators, format tables, samplers, debug callbacks, widgets, the node graph and dialogs are
wrappers or forwarding without state that a property relates. Portability subset and diagnostic
checkpoints, extensions of single vendors, are not among those `DeviceSetup` enables; the depth views a
transition makes anew and the lifetime of a model's buffers beside the thread that records them are
not in `Presenting`. `ModelImport` takes the hash of a vertex to be injective and every corner to have
the normal and texture coordinates its file declares, and `Views` has no key without a number
(GLFW_KEY_UNKNOWN).

## Plan

Done: the lock, the executor with graphs and loops of both processes, frames with timelines, command
pools, descriptor sets, presenting with render targets, the asset cache with its refinement, device
setup, imports, input and views, and proofs of every safety property of all of them. Left, the most
important first:

1. `FrameTimeline` with aliased contexts and a dedicated compute queue.
2. Layouts with different numbers of views, whose races `Views` leaves out.
3. `ReadyMeansWritten` where elements come in another order than ascending: then the data of a
   binding move, and the model says so by `ascending` instead of by what is bound.
