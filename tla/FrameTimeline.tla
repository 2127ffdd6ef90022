---------------------------- MODULE FrameTimeline ----------------------------
(***************************************************************************)
(* How frames, uploads and their callbacks share the device's queues:      *)
(* Queue and QueueTimelineContextData of rhi/queue, RHIApplication::Draw,  *)
(* OnResizeFramebuffer and the destructor, LoadImage and LoadModel.        *)
(*                                                                         *)
(* A context has one timeline semaphore and a number of queues.  The host  *)
(* signals its values in the order it submits; frames rotate through the   *)
(* graphics queues, uploads stay on one transfer queue of its own.  What   *)
(* the device does with the queues is external: it works on each in order  *)
(* and on several at a time.                                               *)
(*                                                                         *)
(* Presenting, acquiring and recording are left out.  The fences of a      *)
(* present only make Draw wait longer; a Flip that fails ends Draw.        *)
(***************************************************************************)
EXTENDS Integers, Sequences, FiniteSets

CONSTANTS
  QueueCount,      \* queues of the graphics family
  MaxImages,       \* images that are loaded
  MaxModels,       \* models that are loaded
  MaxFrames,       \* frames that are drawn
  MaxResizes       \* resizes of the window

ASSUME QueueCountAssumption == QueueCount \in Nat \ {0}
ASSUME BoundsAssumption ==
  MaxImages \in Nat /\ MaxModels \in Nat /\ MaxFrames \in Nat /\ MaxResizes \in Nat

VARIABLES
  timeline,        \* QueueTimelineContextData::timeline, of each context
  counter,         \* the device's value of the context's semaphore
  head,            \* myHead of the CircularContainer of graphics queues
  submits,         \* the QueueHostSyncInfo beside each queue
  pools,           \* mySubmittedCommands of the two pools, the current one first
  callbacks,       \* myTimelineCallbacks, each known by its value
  pending,         \* on the device: batches submitted and not finished
  finished,        \* batches the device is done with
  called,          \* callbacks that went to the executor
  drawCalls,       \* transitions to do in the next frame, by their upload
  draw,            \* how far Draw is
  collect,         \* the SubmitCallbacks task of each frame
  frames, images, models, resizes,     \* how many there were
  destroyed        \* how many queues the destructor collected the callbacks of

hostVars == <<timeline, head, submits, pools, callbacks, drawCalls, draw>>
deviceVars == <<counter, pending, finished>>
countVars == <<frames, images, models, resizes>>

vars == <<hostVars, deviceVars, countVars, called, collect, destroyed>>

Transfer == -1

Graphics == 0 .. QueueCount - 1

Queues == Graphics \cup {Transfer}

Semaphores == {"graphics", "transfer"}

Semaphore(q) == IF q = Transfer THEN "transfer" ELSE "graphics"

NoTask == [at |-> "none", queue |-> 0, value |-> 0, kept |-> {}]

NoSubmits == [fences |-> {}, maxTimelineValue |-> 0]

------------------------------------------------------------------------------
\* EnqueueSubmit with the context's next value, and Submit right after it.  A
\* collection that runs between the two keeps the callback: its value is later.
Submit(q, waits, image) ==
  LET value == timeline[Semaphore(q)] + 1
      batch == [queue |-> q, value |-> value, waits |-> waits, image |-> image]
  IN  /\ timeline' = [timeline EXCEPT ![Semaphore(q)] = value]
      /\ pools' = [pools EXCEPT ![q][1] = @ \cup {value}]
      /\ callbacks' = [callbacks EXCEPT ![q] = @ \cup {value}]
      /\ pending' = [pending EXCEPT ![q] = Append(@, batch)]
      /\ submits' = [submits EXCEPT ![q] =
           [fences |-> @.fences \cup {value},
            maxTimelineValue |-> IF @.maxTimelineValue > value THEN @.maxTimelineValue ELSE value]]

\* The constructors submitted twice to the first graphics queue.
Init ==
  /\ timeline = [graphics |-> 2, transfer |-> 0]
  /\ counter = [graphics |-> 0, transfer |-> 0]
  /\ head = 0
  /\ submits = [q \in Queues |->
       IF q = 0 THEN [fences |-> {1, 2}, maxTimelineValue |-> 2] ELSE NoSubmits]
  /\ pools = [q \in Queues |-> IF q = 0 THEN <<{1, 2}, {}>> ELSE <<{}, {}>>]
  /\ callbacks = [q \in Queues |-> IF q = 0 THEN {1, 2} ELSE {}]
  /\ pending = [q \in Queues |->
       IF q = 0 THEN [v \in 1 .. 2 |-> [queue |-> 0, value |-> v, waits |-> {}, image |-> 0]]
       ELSE <<>>]
  /\ finished = {}
  /\ called = [s \in Semaphores |-> {}]
  /\ drawCalls = <<>>
  /\ draw = [at |-> "idle", last |-> 0]
  /\ collect = [f \in 1 .. MaxFrames |-> NoTask]
  /\ frames = 0 /\ images = 0 /\ models = 0 /\ resizes = 0
  /\ destroyed = 0

Running == destroyed = 0

------------------------------------------------------------------------------
\* Draw holds gDrawMutex and writes to the graphics context throughout.

\* FetchAdd: the queue of the last frame, and the one of this frame.
BeginFrame ==
  /\ Running
  /\ draw.at = "idle"
  /\ frames < MaxFrames
  /\ head' = (head + 1) % QueueCount
  /\ draw' = [at |-> "fences", last |-> head]
  /\ frames' = frames + 1
  /\ UNCHANGED <<timeline, submits, pools, callbacks, drawCalls, deviceVars,
                 images, models, resizes, called, collect, destroyed>>

IsFinished(s, value) == \E b \in finished : Semaphore(b.queue) = s /\ b.value = value

\* Mutant: the fences are not waited for.
ResetsAtOnce ==
  /\ draw.at = "fences"
  /\ submits' = [submits EXCEPT ![head] = NoSubmits]
  /\ pools' = [pools EXCEPT ![head] = <<{}, @[1]>>]
  /\ draw' = [draw EXCEPT !.at = "calls"]
  /\ UNCHANGED <<timeline, head, callbacks, drawCalls, deviceVars, countVars,
                 called, collect, destroyed>>

\* Wait for what this queue was given last time, then SwapAndResetPool.
ResetQueue ==
  /\ draw.at = "fences"
  /\ \A v \in submits[head].fences : IsFinished("graphics", v)
  /\ submits' = [submits EXCEPT ![head] = NoSubmits]
  /\ pools' = [pools EXCEPT ![head] = <<{}, @[1]>>]
  /\ draw' = [draw EXCEPT !.at = "calls"]
  /\ UNCHANGED <<timeline, head, callbacks, drawCalls, deviceVars, countVars,
                 called, collect, destroyed>>

\* Mutant: the transition waits for what the transfer context has finished.
WaitsForCounter ==
  /\ draw.at = "calls"
  /\ drawCalls # <<>>
  /\ Submit(head, {<<"transfer", counter["transfer"]>>}, Head(drawCalls))
  /\ drawCalls' = Tail(drawCalls)
  /\ UNCHANGED <<head, counter, finished, draw, countVars, called, collect,
                 destroyed>>

\* The transitionTask of LoadImage.  It waits for the transfer context as far as
\* that was submitted by now, and for nothing of the graphics context.
CallDrawCall ==
  /\ draw.at = "calls"
  /\ drawCalls # <<>>
  /\ Submit(head, {<<"transfer", submits[Transfer].maxTimelineValue>>}, Head(drawCalls))
  /\ drawCalls' = Tail(drawCalls)
  /\ UNCHANGED <<head, counter, finished, draw, countVars, called, collect,
                 destroyed>>

\* Mutant: the frame waits for the value it signals itself.
WaitsForItself ==
  /\ draw.at = "calls"
  /\ drawCalls = <<>>
  /\ Submit(head, {<<"graphics", timeline["graphics"] + 1>>}, 0)
  /\ draw' = [at |-> "idle", last |-> 0]
  /\ collect' = [collect EXCEPT ![frames] = [NoTask EXCEPT !.at = "queued", !.queue = head]]
  /\ UNCHANGED <<head, counter, finished, drawCalls, countVars, called, destroyed>>

\* Mutant: the frame waits for nothing of the frame before it.
WaitsForNothing ==
  /\ draw.at = "calls"
  /\ drawCalls = <<>>
  /\ Submit(head, {}, 0)
  /\ draw' = [at |-> "idle", last |-> 0]
  /\ collect' = [collect EXCEPT ![frames] = [NoTask EXCEPT !.at = "queued", !.queue = head]]
  /\ UNCHANGED <<head, counter, finished, drawCalls, countVars, called, destroyed>>

\* The frame itself, and its SubmitCallbacks task goes to the executor.
SubmitFrame ==
  /\ draw.at = "calls"
  /\ drawCalls = <<>>
  /\ Submit(head, {<<"graphics", submits[draw.last].maxTimelineValue>>}, 0)
  /\ draw' = [at |-> "idle", last |-> 0]
  /\ collect' = [collect EXCEPT ![frames] = [NoTask EXCEPT !.at = "queued", !.queue = head]]
  /\ UNCHANGED <<head, counter, finished, drawCalls, countVars, called, destroyed>>

\* OnResizeFramebuffer waits for the device, then submits to the last queue.
Resize ==
  /\ Running
  /\ draw.at = "idle"
  /\ resizes < MaxResizes
  /\ \A q \in Queues : pending[q] = <<>>
  /\ Submit(head, {}, 0)
  /\ resizes' = resizes + 1
  /\ UNCHANGED <<head, counter, finished, drawCalls, draw, frames, images, models,
                 called, collect, destroyed>>

------------------------------------------------------------------------------
\* The main thread: one load at a time, under the lock of the transfer context.

LoadImage ==
  /\ Running
  /\ images < MaxImages
  /\ Submit(Transfer, {}, 0)
  /\ drawCalls' = Append(drawCalls, timeline'["transfer"])
  /\ images' = images + 1
  /\ UNCHANGED <<head, counter, finished, draw, frames, models, resizes, called,
                 collect, destroyed>>

LoadModel ==
  /\ Running
  /\ models < MaxModels
  /\ Submit(Transfer, {<<"transfer", submits[Transfer].maxTimelineValue>>}, 0)
  /\ models' = models + 1
  /\ UNCHANGED <<head, counter, finished, drawCalls, draw, frames, images, resizes,
                 called, collect, destroyed>>

------------------------------------------------------------------------------
\* SubmitCallbacks as a task of frame f: the semaphore's value is read once,
\* then the callbacks are drained one by one and the early ones put back.  Each
\* is judged by itself: in which order they come makes no difference.

\* Mutant: the value that was handed out last, not the one that is reached.
ReadsTimeline(f) ==
  /\ collect[f].at = "queued"
  /\ collect' = [collect EXCEPT ![f].at = "draining", ![f].value = timeline["graphics"]]
  /\ UNCHANGED <<hostVars, deviceVars, countVars, called, destroyed>>

ReadValue(f) ==
  /\ collect[f].at = "queued"
  /\ collect' = [collect EXCEPT ![f].at = "draining", ![f].value = counter["graphics"]]
  /\ UNCHANGED <<hostVars, deviceVars, countVars, called, destroyed>>

DrainOne(f) ==
  /\ collect[f].at = "draining"
  /\ \E v \in callbacks[collect[f].queue] :
       /\ \A u \in callbacks[collect[f].queue] : v <= u
       /\ callbacks' = [callbacks EXCEPT ![collect[f].queue] = @ \ {v}]
       /\ IF collect[f].value <= v
          THEN /\ collect' = [collect EXCEPT ![f].kept = @ \cup {v}]
               /\ UNCHANGED called
          ELSE /\ called' = [called EXCEPT !["graphics"] = @ \cup {v}]
               /\ UNCHANGED collect
  /\ UNCHANGED <<timeline, head, submits, pools, drawCalls, draw, deviceVars,
                 countVars, destroyed>>

\* Mutant: the early ones are dropped.
DropsKept(f) ==
  /\ collect[f].at = "draining"
  /\ callbacks[collect[f].queue] = {}
  /\ collect' = [collect EXCEPT ![f] = [NoTask EXCEPT !.at = "done"]]
  /\ UNCHANGED <<hostVars, deviceVars, countVars, called, destroyed>>

PutBack(f) ==
  /\ collect[f].at = "draining"
  /\ callbacks[collect[f].queue] = {}
  /\ callbacks' = [callbacks EXCEPT ![collect[f].queue] = collect[f].kept]
  /\ collect' = [collect EXCEPT ![f] = [NoTask EXCEPT !.at = "done"]]
  /\ UNCHANGED <<timeline, head, submits, pools, drawCalls, draw, deviceVars,
                 countVars, called, destroyed>>

\* ~RHIApplication waits for the device and collects once more from every queue,
\* up to the last value each was given.
Collect ==
  /\ draw.at = "idle"
  /\ \A p \in Queues : pending[p] = <<>>
  /\ destroyed < Cardinality(Queues)
  /\ LET q == IF destroyed \in Graphics THEN destroyed ELSE Transfer
         early == {v \in callbacks[q] : submits[q].maxTimelineValue <= v}
     IN  /\ called' = [called EXCEPT ![Semaphore(q)] = @ \cup (callbacks[q] \ early)]
         /\ callbacks' = [callbacks EXCEPT ![q] = early]
  /\ destroyed' = destroyed + 1
  /\ UNCHANGED <<timeline, head, submits, pools, drawCalls, draw, deviceVars,
                 countVars, collect>>

------------------------------------------------------------------------------
\* The device (external): the first batch of a queue is done some time after its
\* semaphores have the values it waits for, and signals its own.

FinishBatch(q) ==
  /\ pending[q] # <<>>
  /\ LET batch == Head(pending[q])
     IN  /\ \A w \in batch.waits : counter[w[1]] >= w[2]
         /\ counter' = [counter EXCEPT ![Semaphore(q)] = batch.value]
         /\ finished' = finished \cup {batch}
  /\ pending' = [pending EXCEPT ![q] = Tail(@)]
  /\ UNCHANGED <<hostVars, countVars, called, collect, destroyed>>

Collecting(f) == ReadValue(f) \/ DrainOne(f) \/ PutBack(f)

Next ==
  \/ BeginFrame
  \/ ResetQueue
  \/ CallDrawCall
  \/ SubmitFrame
  \/ Resize
  \/ LoadImage
  \/ LoadModel
  \/ \E f \in 1 .. MaxFrames : Collecting(f)
  \/ Collect
  \/ \E q \in Queues : FinishBatch(q)

Spec == Init /\ [][Next]_vars

\* The device works on every queue that can go on, and Draw once it has begun.
Fairness ==
  /\ WF_vars(\E q \in Queues : FinishBatch(q))
  /\ WF_vars(ResetQueue)
  /\ WF_vars(CallDrawCall)
  /\ WF_vars(SubmitFrame)

FairSpec == Spec /\ Fairness

------------------------------------------------------------------------------
Values(s) == 1 .. timeline[s]

Done(s) == {b \in finished : Semaphore(b.queue) = s}

Batch ==
  [queue : Queues, value : Nat, waits : SUBSET (Semaphores \X Nat), image : Nat]

Task ==
  [at : {"none", "queued", "draining", "done"},
   queue : Graphics, value : Nat, kept : SUBSET Nat]

TypeOK ==
  /\ timeline \in [Semaphores -> Nat]
  /\ counter \in [Semaphores -> Nat]
  /\ head \in Graphics
  /\ submits \in [Queues -> [fences : SUBSET Nat, maxTimelineValue : Nat]]
  /\ pools \in [Queues -> [1 .. 2 -> SUBSET Nat]]
  /\ callbacks \in [Queues -> SUBSET Nat]
  /\ pending \in [Queues -> Seq(Batch)]
  /\ finished \in SUBSET Batch
  /\ called \in [Semaphores -> SUBSET Nat]
  /\ drawCalls \in Seq(Nat)
  /\ draw \in [at : {"idle", "fences", "calls"}, last : Graphics]
  /\ collect \in [1 .. MaxFrames -> Task]
  /\ frames \in 0 .. MaxFrames /\ images \in 0 .. MaxImages
  /\ models \in 0 .. MaxModels /\ resizes \in 0 .. MaxResizes
  /\ destroyed \in Nat

\* A pool is reset only when the device has finished every command buffer that
\* came from it: what is pending is still among the pool's submitted commands.
PoolsHoldPending ==
  \A q \in Queues : \A i \in DOMAIN pending[q] :
    pending[q][i].value \in pools[q][1] \cup pools[q][2]

\* The contexts whose semaphore counts in order.  Transitions of images break
\* it for the graphics context as soon as that has several queues: they wait
\* for no batch of it, and the run frames_callbacks shows what follows.
InOrder == IF QueueCount = 1 \/ MaxImages = 0 THEN Semaphores ELSE {"transfer"}

\* The value of a timeline semaphore says exactly which batches are finished:
\* the device never signals a value out of order.  Of the graphics context that
\* has several queues this holds as long as no image is loaded: then each frame
\* waits for the one before it, on whatever queue that was.
CounterTellsWhatFinished ==
  \A s \in InOrder : {b.value : b \in Done(s)} = 1 .. counter[s]

\* queue.h:28-29: callbacks are called "after the queue has finished executing
\* the command buffers on the device".  They free what the commands use.
CallbacksAfterExecution ==
  \A s \in Semaphores : \A v \in called[s] : IsFinished(s, v)

\* A callback is in its queue, with one collecting task, or was called, and only
\* once: collections of the same queue by several tasks lose and double nothing.
EachCallbackInOnePlace ==
  LET kept(s) == {x \in (1 .. MaxFrames) \X Values(s) :
                    Semaphore(collect[x[1]].queue) = s /\ x[2] \in collect[x[1]].kept}
      queued(s) == {x \in Queues \X Values(s) :
                      Semaphore(x[1]) = s /\ x[2] \in callbacks[x[1]]}
  IN  \A s \in Semaphores :
        /\ Cardinality(kept(s)) + Cardinality(queued(s)) + Cardinality(called[s]) = timeline[s]
        /\ \A v \in Values(s) :
             \/ v \in called[s]
             \/ \E x \in kept(s) \cup queued(s) : x[2] = v

\* A frame that shows an image comes after the image's upload, although the
\* transition reads the transfer context's value without its lock.
UploadsBeforeUse ==
  \A b \in finished : b.image # 0 => IsFinished("transfer", b.image)

\* No batch waits for a value that is never signalled.  Where image transitions
\* meet several graphics queues it does not hold: a value they signal late takes
\* the counter back.
BatchesFinish == \A q \in Queues : pending[q] # <<>> ~> pending[q] = <<>>

==============================================================================
