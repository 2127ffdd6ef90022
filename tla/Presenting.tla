------------------------------- MODULE Presenting -------------------------------
(***************************************************************************)
(* A window and what is drawn into it: Swapchain, Window, Frame,           *)
(* RenderImageSet, the pipelines Draw binds, and of rhiapplication Draw    *)
(* with DrawMainPass, OnResizeFramebuffer and                              *)
(* ConstructWindowDependentObjects.                                        *)
(*                                                                         *)
(* Draw and OnResizeFramebuffer hold gDrawMutex, so one of them runs at a  *)
(* time.  Beside it the device executes the graphics queue in its order,   *)
(* the presentation engine shows images in the order they were presented,  *)
(* and workers run the callbacks that wait for a present.                  *)
(*                                                                         *)
(* Presents go to the graphics queue; with a dedicated compute queue they  *)
(* go there, and graphicsDoneSemaphore keeps the order they have here.     *)
(* Left out: which queue context records a frame and which Draw hands a    *)
(* callback over (module FrameTimeline), the command buffers (module       *)
(* CommandPool) and the descriptor sets (module DescriptorSets).           *)
(***************************************************************************)
EXTENDS RenderTarget, FiniteSets

CONSTANTS
  FrameCount,      \* swapchainConfig.imageCount
  QueueCount,      \* contexts of the graphics queue
  MaxDraws,        \* frames that are presented
  MaxResizes,
  MaxLoads,        \* models that are handed over
  VertexInputs,    \* the vertex attributes that models come with
  DrawThreads,     \* secondary command buffers of a main pass
  Suboptimal       \* vkAcquireNextImageKHR may answer VK_SUBOPTIMAL_KHR

ASSUME BoundsAssumption ==
  /\ FrameCount \in Nat /\ FrameCount >= 2
  /\ QueueCount \in Nat \ {0}
  /\ MaxDraws \in Nat
  /\ MaxResizes \in Nat
  /\ MaxLoads \in Nat
  /\ DrawThreads \in Nat \ {0}
  /\ Suboptimal \in BOOLEAN

ASSUME VertexInputsAssumption == VertexInputs \cap {"none", "torn"} = {}

Frames == 0 .. FrameCount - 1

Ids == 0 .. MaxDraws - 1

None == -1

VARIABLES
  swapchain,      \* mySwapchain: how many have been made before it
  frameIndex,     \* myFrameIndex
  frames,         \* myFrames
  sets,           \* Resources::renderImageSets
  presentId,      \* gPresentId
  pc,             \* where the constructor, Draw or OnResizeFramebuffer is, "idle" when
                  \* gDrawMutex is free
  cmds,           \* the primary command buffer that is being recorded
  prepared,       \* the targets that ConstructWindowDependentObjects has gone through
  model,          \* Resources::model: the attributes of the model that is drawn
  vertexInput,    \* myGraphicsState.vertexInput, "torn" while it is being written
  loading,        \* the attributes of the model that the main thread hands over
  kinds,          \* the attributes of all models so far (history)
  loaded,          \* how many models have been handed over
  drawn,          \* the model that the current secondary command buffer has read
  secondaries,    \* secondary command buffers of this pass that are not recorded
  renderTarget,   \* myGraphicsState.dynamicRendering: the kind of target last set
  pipelines,      \* myPipelineMap: for each bind point what its pipeline was made for
  queue,          \* the graphics queue: batches and presents the device has not executed
  world,          \* the images of the device
  acquired,       \* indices of images acquired and not presented
  engine,         \* presents handed to the presentation engine and not yet shown
  screen,         \* the index of the image that is shown
  shown,          \* the last present identifier of this swapchain that was shown
  callbacks,      \* presents whose batch is executed and whose wait has not begun
  waits,          \* WaitPresent calls under way: the identifier and the swapchain
  waited          \* presents whose callback is over and whose semaphore is destroyed

models == << model, vertexInput, loading, kinds, loaded >>
views == << drawn, secondaries >>
drawing == << frameIndex, frames, sets, presentId, pc, cmds, prepared, models, views, renderTarget,
              pipelines >>
device == << queue, world, acquired, engine, screen, shown >>
waiting == << callbacks, waits, waited >>
vars == << swapchain, drawing, device, waiting >>

-----------------------------------------------------------------------------
(***************************************************************************)
(* The window's objects.                                                   *)
(***************************************************************************)

FrameImage(i) == << "frame", i, swapchain >>

ColorImage(k) == << "color", k >>

DepthImage(k) == << "depth", k >>

NoPipeline == [target |-> "none", vertexInput |-> "none"]

\* Mutant of NewFrames: the frames of a new swapchain take over the layout.
KeepsLayouts(s) ==
  [i \in Frames |->
     LET t == NewTarget([color |-> << "frame", i, s >>])
     IN IF s = 0 THEN t ELSE [t EXCEPT !.layout[Color] = "present"]]

\* InternalCreateSwapchain: frames for the images of swapchain s.
NewFrames(s) == [i \in Frames |-> NewTarget([color |-> << "frame", i, s >>])]

NewSet(k) == NewTarget([color |-> ColorImage(k), depth |-> DepthImage(k)])

\* Calls on a target while a command buffer is recorded.
Record(t, recorded) == [target |-> t, cmds |-> recorded]

FrameToGeneral(pass) == FrameTransition(SetLoadOp(pass, Color, "clear"), "general")

SetToGeneral(pass) ==
  SetTransition(
    SetTransition(SetLoadOp(SetLoadOp(pass, Color, "clear"), Depth, "clear"),
                    Color, "general"),
    Depth, "general")

\* New sets come behind those there are.
MoreSets(old) == old \o [k \in 1 .. FrameCount |-> NewSet(Len(old) + k - 1)]

\* The images of swapchain s and of the first n sets, nothing drawn on them.
NewImages(s, n) ==
  [image \in {<< "frame", i, s >> : i \in Frames}
             \cup {ColorImage(k) : k \in 0 .. n - 1} \cup {DepthImage(k) : k \in 0 .. n - 1}
     |-> [layout |-> "undefined", drawn |-> {}]]

Init ==
  /\ swapchain = 0
  /\ frameIndex = FrameCount - 1
  /\ frames = NewFrames(0)
  /\ sets = MoreSets(<< >>)
  /\ queue = << >>
  /\ world = NewImages(0, FrameCount)
  /\ presentId = 0
  /\ pc = "construct"
  /\ cmds = << >>
  /\ prepared = 0
  /\ model = "none" /\ vertexInput = "none" /\ loading = "none"
  /\ kinds = {} /\ loaded = 0
  /\ drawn = "none" /\ secondaries = 0
  /\ renderTarget = "none"
  /\ pipelines = [p \in {"graphics", "compute"} |-> NoPipeline]
  /\ acquired = {}
  /\ engine = << >>
  /\ screen = None
  /\ shown = None
  /\ callbacks = {}
  /\ waits = {}
  /\ waited = {}

-----------------------------------------------------------------------------
(***************************************************************************)
(* ConstructWindowDependentObjects: one command buffer that brings every   *)
(* frame, and then every set, to the general layout.                       *)
(***************************************************************************)

PrepareFrame ==
  /\ pc = "construct"
  /\ prepared < FrameCount
  /\ LET pass == FrameToGeneral(Record(frames[prepared], cmds))
     IN /\ frames' = [frames EXCEPT ![prepared] = pass.target]
        /\ cmds' = pass.cmds
  /\ prepared' = prepared + 1
  /\ UNCHANGED << swapchain, frameIndex, sets, presentId, pc, models, views, renderTarget, pipelines,
                  device, waiting >>

PrepareSet ==
  /\ pc = "construct"
  /\ prepared \in FrameCount .. FrameCount + Len(sets) - 1
  /\ LET k == prepared - FrameCount + 1
         pass == SetToGeneral(Record(sets[k], cmds))
     IN /\ sets' = [sets EXCEPT ![k] = pass.target]
        /\ cmds' = pass.cmds
  /\ prepared' = prepared + 1
  /\ UNCHANGED << swapchain, frameIndex, frames, presentId, pc, models, views, renderTarget, pipelines,
                  device, waiting >>

SubmitPrepared ==
  /\ pc = "construct"
  /\ prepared = FrameCount + Len(sets)
  /\ queue' = Append(queue, [cmds |-> cmds, id |-> None, index |-> None])
  /\ cmds' = << >>
  /\ prepared' = 0
  /\ pc' = "idle"
  /\ UNCHANGED << swapchain, frameIndex, frames, sets, presentId, models, views, renderTarget, pipelines,
                  world, acquired, engine, screen, shown, waiting >>

-----------------------------------------------------------------------------
(***************************************************************************)
(* Draw.                                                                   *)
(***************************************************************************)

LockDraw ==
  /\ pc = "idle"
  /\ presentId < MaxDraws
  /\ pc' = "flip"
  /\ UNCHANGED << swapchain, frameIndex, frames, sets, presentId, cmds, prepared, models, views,
                  renderTarget, pipelines, device, waiting >>

\* vkAcquireNextImageKHR waits for an image that is neither acquired, nor on
\* its way to the screen, nor on it.
Available ==
  Frames \ (acquired \cup {queue[n].index : n \in DOMAIN queue}
            \cup {engine[n].index : n \in DOMAIN engine} \cup {screen})

\* Flip.  Draw goes on after VK_SUCCESS only; a suboptimal swapchain has
\* handed out an image all the same.
Acquire ==
  /\ pc = "flip"
  /\ \E i \in Available :
       /\ frameIndex' = i
       /\ acquired' = acquired \cup {i}
  /\ pc' \in {"reset"} \cup (IF Suboptimal THEN {"idle"} ELSE {})
  /\ UNCHANGED << swapchain, frames, sets, presentId, cmds, prepared, models, views, renderTarget, pipelines,
                  queue, world, engine, screen, shown, waiting >>

\* The swapchain is out of date: no image, no frame.
Refuse ==
  /\ pc = "flip"
  /\ pc' = "idle"
  /\ UNCHANGED << swapchain, frameIndex, frames, sets, presentId, cmds, prepared, models, views,
                  renderTarget, pipelines, device, waiting >>

\* The queue context comes round again: its last batch has been executed.
WaitForContext ==
  /\ pc = "reset"
  /\ Cardinality({n \in DOMAIN queue : queue[n].index = None}) < QueueCount
  /\ pc' = "main"
  /\ UNCHANGED << swapchain, frameIndex, frames, sets, presentId, cmds, prepared, models, views,
                  renderTarget, pipelines, device, waiting >>

\* The set that Draw takes for a frame.
SetOf(i) == i + 1

\* InternalCalculateHashKey: the bind point and the layout, of which Draw uses
\* one, and nothing of the render target.
PipelineKey(point) == point

\* InternalCreateGraphicsPipeline takes the formats of the target last set and
\* the vertex input last set.
CreatePipeline(point, target, input) ==
  IF point = "compute" THEN [target |-> "compute", vertexInput |-> "none"]
  ELSE [target |-> target, vertexInput |-> input]

InternalGetPipeline(point, made, target, input) ==
  IF made[PipelineKey(point)] = NoPipeline THEN CreatePipeline(point, target, input)
  ELSE made[PipelineKey(point)]

\* alike says that all models so far had the same attributes.
Bind(point, for, made, alike) ==
  [op |-> "bind", point |-> point, for |-> for, made |-> made, alike |-> alike]

Alike == \A a, b \in kinds : a = b

MainPass(pass, id) ==
  LET cleared == SetLoadOp(SetLoadOp(pass, Color, "clear"), Depth, "clear")
      attached == SetTransition(SetTransition(cleared, Color, "color"), Depth, "depth")
  IN BeginEnd(SetRenderTarget(attached), << "main", id >>)

\* With a model, its views are drawn by secondary command buffers.
DrawMainPass ==
  /\ pc = "main"
  /\ renderTarget' = "set"
  /\ LET pass == MainPass(Record(sets[SetOf(frameIndex)], cmds), presentId)
     IN /\ sets' = [sets EXCEPT ![SetOf(frameIndex)] = pass.target]
        /\ cmds' = pass.cmds
  /\ \/ model = "none" /\ pc' = "compute" /\ UNCHANGED secondaries
     \/ model # "none" /\ pc' = "views" /\ secondaries' = DrawThreads
  /\ UNCHANGED << swapchain, frameIndex, frames, presentId, prepared, models, drawn, pipelines, device,
                  waiting >>

\* Each of them takes the model for itself and binds its buffers ...
ReadModel ==
  /\ pc = "views"
  /\ drawn = "none"
  /\ drawn' = model
  /\ UNCHANGED << swapchain, frameIndex, frames, sets, presentId, pc, cmds, prepared, models,
                  secondaries, renderTarget, pipelines, device, waiting >>

\* ... and then the one graphics pipeline, which it makes if nobody has.
BindModel ==
  /\ pc = "views"
  /\ drawn # "none"
  /\ LET pipeline == InternalGetPipeline("graphics", pipelines, renderTarget, vertexInput)
     IN /\ pipelines' = [pipelines EXCEPT ![PipelineKey("graphics")] = pipeline]
        /\ cmds' = Append(cmds, Bind("graphics", [target |-> "set", vertexInput |-> drawn],
                                     pipeline, Alike))
  /\ drawn' = "none"
  /\ secondaries' = secondaries - 1
  /\ pc' = IF secondaries = 1 THEN "compute" ELSE "views"
  /\ UNCHANGED << swapchain, frameIndex, frames, sets, presentId, prepared, models, renderTarget,
                  device, waiting >>

SetToRead(pass) ==
  SetTransition(
    SetTransition(SetLoadOp(SetLoadOp(pass, Color, "load"), Depth, "clear"),
                    Color, "read"),
    Depth, "read")

\* The compute shader reads the set's colours and writes the frame's image.
Dispatch(set, frame, id) ==
  [op |-> "dispatch", draw |-> << "compute", id >>, source |-> << "main", id >>,
   read |-> set.images[Color], readLayout |-> set.layout[Color],
   write |-> frame.images[Color], writeLayout |-> frame.layout[Color]]

DrawCompute ==
  /\ pc = "compute"
  /\ LET set == SetToRead(Record(sets[SetOf(frameIndex)], cmds))
         frame == FrameToGeneral(Record(frames[frameIndex], set.cmds))
         pipeline == InternalGetPipeline("compute", pipelines, renderTarget, vertexInput)
     IN /\ sets' = [sets EXCEPT ![SetOf(frameIndex)] = set.target]
        /\ frames' = [frames EXCEPT ![frameIndex] = frame.target]
        /\ pipelines' = [pipelines EXCEPT ![PipelineKey("compute")] = pipeline]
        /\ cmds' = Append(Append(frame.cmds,
                                 Bind("compute", [target |-> "compute", vertexInput |-> "none"],
                                      pipeline, Alike)),
                          Dispatch(set.target, frame.target, presentId))
  /\ pc' = "imgui"
  /\ UNCHANGED << swapchain, frameIndex, presentId, prepared, models, views, renderTarget, device,
                  waiting >>

ImguiPass(pass, id) ==
  LET attached == FrameTransition(SetLoadOp(pass, Color, "load"), "color")
  IN FrameTransition(BeginEnd(SetRenderTarget(attached), << "imgui", id >>), "present")

DrawImgui ==
  /\ pc = "imgui"
  /\ LET pass == ImguiPass(Record(frames[frameIndex], cmds), presentId)
     IN /\ frames' = [frames EXCEPT ![frameIndex] = pass.target]
        /\ cmds' = pass.cmds
  /\ renderTarget' = "frame"
  /\ pc' = "submit"
  /\ UNCHANGED << swapchain, frameIndex, sets, presentId, prepared, models, views, pipelines, device,
                  waiting >>

PreparePresent == [id |-> presentId, next |-> presentId + 1]

\* The batch carries the callback that waits for the present.
SubmitDraw ==
  /\ pc = "submit"
  /\ queue' = Append(queue, [cmds |-> cmds, id |-> PreparePresent.id, index |-> None])
  /\ presentId' = PreparePresent.next
  /\ cmds' = << >>
  /\ pc' = "present"
  /\ UNCHANGED << swapchain, frameIndex, frames, sets, prepared, models, views, renderTarget, pipelines,
                  world, acquired, engine, screen, shown, waiting >>

PresentOf(i, id) ==
  [cmds |-> << [op |-> "present", image |-> FrameImage(i), id |-> id] >>, id |-> id, index |-> i]

\* Mutant of PresentDraw: the frame is submitted and never presented.
DropsPresent ==
  /\ pc = "present"
  /\ pc' = "idle"
  /\ UNCHANGED << swapchain, frameIndex, frames, sets, presentId, cmds, prepared, models, views, renderTarget,
                  pipelines, device, waiting >>

\* Queue::Present, and the end of Draw.
PresentDraw ==
  /\ pc = "present"
  /\ queue' = Append(queue, PresentOf(frameIndex, presentId - 1))
  /\ acquired' = acquired \ {frameIndex}
  /\ pc' = "idle"
  /\ UNCHANGED << swapchain, frameIndex, frames, sets, presentId, cmds, prepared, models, views, renderTarget,
                  pipelines, world, engine, screen, shown, waiting >>

-----------------------------------------------------------------------------
(***************************************************************************)
(* The main thread hands a model over that it has loaded, between two      *)
(* resizes and without gDrawMutex.                                         *)
(***************************************************************************)

\* Mutant of BeginLoad: the model is stored before its vertex input is set.
StoresFirst(a) ==
  /\ loading = "none"
  /\ pc \notin {"construct", "resize"}
  /\ loaded < MaxLoads
  /\ loaded' = loaded + 1
  /\ loading' = a
  /\ kinds' = kinds \cup {a}
  /\ vertexInput' = IF vertexInput = a THEN a ELSE "torn"
  /\ model' = a
  /\ UNCHANGED << swapchain, frameIndex, frames, sets, presentId, pc, cmds, prepared, views,
                  renderTarget, pipelines, device, waiting >>

\* SetVertexInputState begins: four plain stores under the eyes of Draw.  Those
\* that store what is there already make no difference.
BeginLoad(a) ==
  /\ loading = "none"
  /\ pc \notin {"construct", "resize"}
  /\ loaded < MaxLoads
  /\ loaded' = loaded + 1
  /\ loading' = a
  /\ kinds' = kinds \cup {a}
  /\ vertexInput' = IF vertexInput = a THEN a ELSE "torn"
  /\ UNCHANGED << swapchain, frameIndex, frames, sets, presentId, pc, cmds, prepared, model, views,
                  renderTarget, pipelines, device, waiting >>

\* The last of the four.
SetVertexInputState ==
  /\ loading # "none"
  /\ vertexInput = "torn"
  /\ vertexInput' = loading
  /\ UNCHANGED << swapchain, frameIndex, frames, sets, presentId, pc, cmds, prepared, model, loading,
                  kinds, loaded, views, renderTarget, pipelines, device, waiting >>

\* From here on Draw takes this model.
StoreModel ==
  /\ loading # "none"
  /\ vertexInput = loading
  /\ model' = loading
  /\ loading' = "none"
  /\ UNCHANGED << swapchain, frameIndex, frames, sets, presentId, pc, cmds, prepared, vertexInput,
                  kinds, loaded, views, renderTarget, pipelines, device, waiting >>

LoadModel == (\E a \in VertexInputs : BeginLoad(a)) \/ SetVertexInputState \/ StoreModel

-----------------------------------------------------------------------------
(***************************************************************************)
(* OnResizeFramebuffer.                                                    *)
(***************************************************************************)

LockResize ==
  /\ pc = "idle"
  /\ loading = "none"
  /\ swapchain < MaxResizes
  /\ pc' = "resize"
  /\ UNCHANGED << swapchain, frameIndex, frames, sets, presentId, cmds, prepared, models, views,
                  renderTarget, pipelines, device, waiting >>

\* Mutant of Idle: the swapchain is replaced under the frames in flight.
SkipsWait == TRUE

\* WaitIdle
Idle == queue = << >>

Resize ==
  /\ pc = "resize"
  /\ Idle
  /\ swapchain' = swapchain + 1
  /\ frameIndex' = FrameCount - 1
  /\ frames' = NewFrames(swapchain + 1)
  /\ sets' = MoreSets(sets)
  /\ LET images == NewImages(swapchain + 1, Len(sets'))
     IN world' = [i \in DOMAIN images |-> IF i \in DOMAIN world THEN world[i] ELSE images[i]]
  /\ acquired' = {}
  /\ engine' = << >>
  /\ screen' = None
  /\ shown' = None
  /\ pc' = "construct"
  /\ UNCHANGED << presentId, cmds, prepared, models, views, renderTarget, pipelines, queue, waiting >>

-----------------------------------------------------------------------------
(***************************************************************************)
(* The device, the presentation engine and the callbacks.                  *)
(***************************************************************************)

\* The next batch or present of the queue.
Execute ==
  /\ queue # << >>
  /\ queue' = Tail(queue)
  /\ world' = ExecuteAll(world, Head(queue).cmds)
  /\ IF Head(queue).index # None
       THEN /\ engine' = Append(engine, [index |-> Head(queue).index, id |-> Head(queue).id])
            /\ callbacks' = callbacks
       ELSE /\ engine' = engine
            /\ callbacks' = callbacks \cup ({Head(queue).id} \ {None})
  /\ UNCHANGED << swapchain, drawing, acquired, screen, shown, waits, waited >>

\* The image that was shown before is free again.
Show ==
  /\ engine # << >>
  /\ screen' = Head(engine).index
  /\ shown' = Head(engine).id
  /\ engine' = Tail(engine)
  /\ UNCHANGED << swapchain, drawing, queue, world, acquired, waiting >>

\* A worker runs a callback: some Draw has handed it over at its end.
WaitPresent(id) ==
  /\ id \in callbacks
  /\ ~ (pc = "present" /\ id = presentId - 1)
  /\ callbacks' = callbacks \ {id}
  /\ waits' = waits \cup {[id |-> id, swapchain |-> swapchain]}
  /\ UNCHANGED << swapchain, drawing, device, waited >>

\* Mutant of PresentKnown: the wait times out and the callback goes on.
TimesOut(w) == TRUE

\* vkWaitForPresentKHR: the identifier or a later one has been shown.  Zero is
\* what a swapchain starts with, and what a call on a swapchain that has been
\* destroyed answers nobody knows.
PresentKnown(w) == w.id = 0 \/ w.id <= shown \/ w.swapchain # swapchain

PresentWaited(w) ==
  /\ w \in waits
  /\ PresentKnown(w)
  /\ waits' = waits \ {w}
  /\ waited' = waited \cup {w.id}
  /\ UNCHANGED << swapchain, drawing, device, callbacks >>

Draw ==
  LockDraw \/ Acquire \/ Refuse \/ WaitForContext \/ DrawMainPass \/ ReadModel \/ BindModel
  \/ DrawCompute \/ DrawImgui \/ SubmitDraw \/ PresentDraw

Construct == PrepareFrame \/ PrepareSet \/ SubmitPrepared

Next ==
  \/ Construct
  \/ Draw
  \/ LoadModel
  \/ LockResize
  \/ Resize
  \/ Execute
  \/ Show
  \/ \E id \in Ids : WaitPresent(id)
  \/ \E w \in waits : PresentWaited(w)

Spec == Init /\ [][Next]_vars

\* What a thread inside Draw does next.
GoOn ==
  Acquire \/ WaitForContext \/ DrawMainPass \/ ReadModel \/ BindModel \/ DrawCompute \/ DrawImgui
  \/ SubmitDraw \/ PresentDraw

\* A thread inside Draw goes on, the device executes what is submitted, and
\* the engine shows what is presented.
FairSpec ==
  /\ Spec
  /\ WF_vars(GoOn) /\ WF_vars(Execute) /\ WF_vars(Show)

-----------------------------------------------------------------------------
(***************************************************************************)
(* Properties.                                                             *)
(***************************************************************************)

\* What becomes of the images when the device has executed all before entry n
\* of the queue; past the last entry comes what is being recorded.
Ahead(images, entries) ==
  LET before[n \in 1 .. Len(entries) + 1] ==
        IF n = 1 THEN images ELSE ExecuteAll(before[n - 1], entries[n - 1].cmds)
  IN  before

\* Every command meets Meets when its turn comes: those of the queue, and then
\* those that are being recorded.
EachMeets(Meets(_, _)) ==
  /\ \A n \in 1 .. Len(queue) : AllMeet(Ahead(world, queue)[n], queue[n].cmds, Meets)
  /\ AllMeet(Ahead(world, queue)[Len(queue) + 1], cmds, Meets)

\* Every barrier, rendering scope, descriptor and present names the layout its
\* image has when the device comes to it, although frames and sets only
\* remember layouts, several batches are in flight and resizes make images
\* anew while they keep the old sets.
LayoutsAgree == EachMeets(FindsLayouts)

\* Draw never names an image of a swapchain that is gone: what the device has
\* still to execute, and what is still to be presented, exists.
NamesImages(w, cmd) == Images(cmd) \subseteq DOMAIN w

ImagesExist == EachMeets(NamesImages)

\* What is presented is what this frame drew: the compute pass reads the main
\* pass of its own frame, and imgui draws over the result without clearing it.
DrawnAsRecorded(w, cmd) ==
  /\ cmd.op = "dispatch" => cmd.source \in w[cmd.read].drawn
  /\ cmd.op = "present"  => {<< "compute", cmd.id >>, << "imgui", cmd.id >>}
                              \subseteq w[cmd.image].drawn

PresentsThisFrame == EachMeets(DrawnAsRecorded)

\* A pipeline that is bound was made for the kind of target it draws into, and
\* for the attributes of the model whose buffers are bound with it, although
\* the map finds pipelines by bind point and layout and asks for neither
\* (pipeline.cpp:262 leaves that to do), and although the main thread sets the
\* vertex input under the eyes of Draw.  For the attributes this is as far as
\* it goes: once a model came with others, the pipeline of the first stays.
Fits(w, cmd) ==
  cmd.op = "bind" =>
    /\ cmd.made.target = cmd.for.target
    /\ cmd.alike => cmd.made.vertexInput = cmd.for.vertexInput

PipelinesFit == EachMeets(Fits)

\* graphicsDoneSemaphore outlives the present that waits for it: the callback
\* that owns it ends after the device has come past the present.  The first
\* identifier is left out, since waiting for zero is over at once.
SemaphoreOutlivesPresent ==
  \A n \in DOMAIN queue :
    queue[n].index # None /\ queue[n].id # 0 => queue[n].id \notin waited

\* Every Draw ends, and lets the next one or a resize have gDrawMutex.
DrawEnds == (pc = "flip") ~> (pc = "idle")
=============================================================================
