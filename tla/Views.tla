--------------------------------- MODULE Views ---------------------------------
(***************************************************************************)
(* From an event of the window to the buffers the shaders read the views   *)
(* from.  The main thread gets the events and puts them into two queues of *)
(* the client, and resizes the framebuffer; Tick empties the queues, moves *)
(* the camera of the view under the pointer and may lay out the views      *)
(* anew; Draw calls the tasks that copy the cameras to a buffer for each   *)
(* frame.  Each is one thread at a time.                                   *)
(*                                                                         *)
(* Every access to the cameras is under their lock, so it is one step; the *)
(* configuration beside them has no lock.  A camera is the view's rectangle *)
(* and its pose, which is counted up when the camera moves or turns.  The  *)
(* content scale is one, and all keys are ones that move.                  *)
(***************************************************************************)
EXTENDS Integers, Sequences

CONSTANTS
  Positions,      \* where the pointer is seen, << x, y >>, with the corner << 0, 0 >>
  Buttons,        \* of the mouse, with "left"
  Keys,           \* of W, A, S and D
  Extents,        \* sizes of the framebuffer, << width, height >>
  Grids,          \* layouts of the menu, << columns, rows >>
  Frames,         \* number of view buffers
  Poses,          \* modulus of a pose
  MaxEvents,      \* events the window sends
  MaxUpdates      \* updates that wait for Draw when a Tick begins

ASSUME ViewsAssumption ==
  /\ << 0, 0 >> \in Positions /\ "left" \in Buttons
  /\ Extents # {} /\ Extents \subseteq (Nat \ {0}) \X (Nat \ {0})
  /\ Grids # {} /\ Grids \subseteq (Nat \ {0}) \X (Nat \ {0})
  /\ Frames \in Nat \ {0} /\ Poses \in Nat \ {0} /\ MaxEvents \in Nat /\ MaxUpdates \in Nat

\* Layouts with the same number of views only: the number is read from the
\* configuration without a lock, and where a layout changes it, the code can
\* reach for a camera that is not there yet or not there any more.
ASSUME SameCountAssumption == \A g, h \in Grids : g[1] * g[2] = h[1] * h[2]

VARIABLES
  devices,        \* what mouse and keyboard are like
  events,         \* events so far
  mouse,          \* gMouse, which every mouse handler changes a part of
  mouseQueue, keyQueue,
  input,          \* myInput
  processed,      \* whether this Tick took an event
  captured,       \* WantCaptureMouse or WantCaptureKeyboard
  extent, grid,   \* of myConfig
  cameras, active,
  updates,        \* tasks in drawCalls that update the view buffers
  viewCount, frame,   \* locals of InternalUpdateViewBuffer
  buffers,        \* the poses in each frame's view buffer
  doing           \* what main, Tick and Draw are about to do

inputVars == << devices, events, mouse, mouseQueue, keyQueue >>
tickVars == << input, processed, captured >>
viewVars == << extent, grid, cameras, active >>
drawVars == << updates, viewCount, frame, buffers >>
viewsVars == << inputVars, tickVars, viewVars, drawVars, doing >>

None == -1

Does(who, what) == doing' = [doing EXCEPT ![who] = what]

\* The rectangle of each view, and poses kept: new views have a new camera.
InitializedViews(e, g, old) ==
  LET width == e[1] \div g[1]
      height == e[2] \div g[2]
  IN  [n \in 1 .. g[1] * g[2] |->
        [x |-> ((n - 1) % g[1]) * width, y |-> ((n - 1) \div g[1]) * height,
         width |-> width, height |-> height,
         pose |-> IF n \in DOMAIN old THEN old[n].pose ELSE 0]]

\* The constructors of Window and Client; the latter's call of
\* OnInputStateChanged leaves the first update in drawCalls.  Any size and layout
\* will do: a resize and the menu reach the others.
ViewsInit ==
  /\ devices = [position |-> << 0, 0 >>, down |-> {}, keys |-> {}]
  /\ events = 0
  /\ mouse = [flag |-> "none", position |-> << 0, 0 >>, inside |-> FALSE,
              button |-> "left", action |-> "release"]
  /\ mouseQueue = << >> /\ keyQueue = << >>
  /\ input = [position |-> << 0, 0 >>, last |-> << 0, 0 >>, inside |-> FALSE,
              down |-> {}, keys |-> {}]
  /\ processed = FALSE
  /\ captured = FALSE
  /\ extent = CHOOSE e \in Extents : TRUE
  /\ grid = CHOOSE g \in Grids : TRUE
  /\ cameras = InitializedViews(extent, grid, << >>)
  /\ active = None
  /\ updates = 1
  /\ viewCount = 0 /\ frame = 0
  /\ buffers = [f \in 1 .. Frames |-> << >>]
  /\ doing = [main |-> "idle", tick |-> "idle", draw |-> "idle"]

------------------------------------------------------------------------------
\* The handlers of main.c, on the main thread.

Event == doing.main = "idle" /\ events < MaxEvents /\ events' = events + 1

\* Buttons or keys that are down after one of them was pressed, released or held.
Turned(down, which, action) ==
  IF action = "press" THEN down \cup {which}
  ELSE IF action = "release" THEN down \ {which}
  ELSE down

\* UpdateMouse and Client::OnMouse.
UpdateMouse(m) ==
  /\ mouse' = m
  /\ mouseQueue' = Append(mouseQueue, m)
  /\ UNCHANGED << keyQueue, tickVars, viewVars, drawVars, doing >>

OnMouseEnter(entered) ==
  /\ Event
  /\ UpdateMouse([mouse EXCEPT !.inside = entered, !.flag = "window"])
  /\ UNCHANGED devices

\* Mutant: the handler leaves the flag of the event before.
KeepsFlag(b, action) ==
  /\ Event
  /\ (action = "press") = (b \notin devices.down)
  /\ devices' = [devices EXCEPT !.down = Turned(@, b, action)]
  /\ UpdateMouse([mouse EXCEPT !.button = b, !.action = action])

OnMouseButton(b, action) ==
  /\ Event
  /\ (action = "press") = (b \notin devices.down)
  /\ devices' = [devices EXCEPT !.down = Turned(@, b, action)]
  /\ UpdateMouse([mouse EXCEPT !.button = b, !.action = action, !.flag = "button"])

OnMouseCursorPos(p) ==
  /\ Event
  /\ devices' = [devices EXCEPT !.position = p]
  /\ UpdateMouse([mouse EXCEPT !.position = p, !.flag = "position"])

OnScroll ==
  /\ Event
  /\ UpdateMouse([mouse EXCEPT !.flag = "scroll"])
  /\ UNCHANGED devices

\* OnKey, UpdateKeyboard and Client::OnKeyboard; a key that is held repeats.  The
\* keys that make the window full-screen show as a resize.
OnKey(k, action) ==
  /\ Event
  /\ (action = "press") = (k \notin devices.keys)
  /\ devices' = [devices EXCEPT !.keys = Turned(@, k, action)]
  /\ keyQueue' = Append(keyQueue, [flag |-> "key", key |-> k, action |-> action])
  /\ UNCHANGED << mouse, mouseQueue, tickVars, viewVars, drawVars, doing >>

\* gDrawMutex: held by Draw, by a resize, and by Tick for ImGui's Render.
DrawMutexFree == doing.draw = "idle" /\ doing.main = "idle"

\* OnResizeFramebuffer up to the cameras.
ResizeFramebuffer(e) ==
  /\ Event
  /\ DrawMutexFree
  /\ extent' = e
  /\ Does("main", "views")
  /\ UNCHANGED << devices, mouse, mouseQueue, keyQueue, tickVars, grid, cameras, active, drawVars >>

\* InternalInitializeViews, by main in a resize or by Tick in a new layout.
InitializeViews(who) ==
  /\ doing[who] = "views"
  /\ cameras' = InitializedViews(extent, grid, cameras)
  /\ Does(who, IF who = "main" THEN "idle" ELSE "render")
  /\ UNCHANGED << inputVars, tickVars, extent, grid, active, drawVars >>

------------------------------------------------------------------------------
\* Client::Tick.

BeginTick ==
  /\ doing.tick = "idle"
  /\ updates <= MaxUpdates
  /\ input' = [input EXCEPT !.last = input.position]
  /\ processed' = FALSE
  /\ Does("tick", "mouse")
  /\ UNCHANGED << inputVars, captured, viewVars, drawVars >>

\* Only the fields the event is about are read.
Absorb(i, e) ==
  [position |-> IF e.flag = "position" THEN e.position ELSE i.position,
   last     |-> i.last,
   inside   |-> IF e.flag = "position" THEN e.inside ELSE i.inside,
   down     |-> IF e.flag = "button" THEN Turned(i.down, e.button, e.action) ELSE i.down,
   keys     |-> IF e.flag = "key" THEN Turned(i.keys, e.key, e.action) ELSE i.keys]

TakeMouse ==
  /\ doing.tick = "mouse"
  /\ IF mouseQueue # << >>
       THEN /\ input' = Absorb(input, Head(mouseQueue))
            /\ mouseQueue' = Tail(mouseQueue)
            /\ processed' = TRUE
            /\ UNCHANGED doing
       ELSE Does("tick", "keys") /\ UNCHANGED << input, mouseQueue, processed >>
  /\ UNCHANGED << devices, events, mouse, keyQueue, captured, viewVars, drawVars >>

TakeKey ==
  /\ doing.tick = "keys"
  /\ IF keyQueue # << >>
       THEN /\ input' = Absorb(input, Head(keyQueue))
            /\ keyQueue' = Tail(keyQueue)
            /\ processed' = TRUE
            /\ UNCHANGED doing
       ELSE Does("tick", "input") /\ UNCHANGED << input, keyQueue, processed >>
  /\ UNCHANGED << devices, events, mouse, mouseQueue, captured, viewVars, drawVars >>

\* The view that is under a position, or the last one.
ViewAt(p) ==
  LET column == (grid[1] * p[1]) \div extent[1]
      row == (grid[2] * p[2]) \div extent[2]
      n == row * grid[1] + column
  IN  IF n < Len(cameras) THEN n ELSE Len(cameras) - 1

\* Mutant: an update that waits or is under way is thought to be enough.
UpdatesOnce == IF updates > 0 \/ doing.draw # "idle" THEN updates ELSE updates + 1

EnqueuedUpdates == updates + 1

\* Whether the keys or the pointer move the active camera.
Moves == input.keys # {} \/ ("left" \in input.down /\ input.position # input.last)

\* RHIApplication::OnInputStateChanged passes on what ImGui does not want.
Forwarded == (processed \/ input.keys # {}) /\ ~captured

\* Window::InternalUpdateViews.
InputStateChanged ==
  /\ doing.tick = "input"
  /\ Does("tick", "prepare")
  /\ IF Forwarded
       THEN /\ active' = IF "left" \in input.down THEN active
                         ELSE IF input.inside THEN ViewAt(input.position) ELSE None
            /\ cameras' = IF active' # None /\ Moves
                            THEN [cameras EXCEPT ![active' + 1].pose = (@ + 1) % Poses]
                            ELSE cameras
            /\ updates' = EnqueuedUpdates
       ELSE UNCHANGED << active, cameras, updates >>
  /\ UNCHANGED << inputVars, tickVars, extent, grid, viewCount, frame, buffers >>

\* PrepareDraw: ImGui's new frame, and the menu's choice of a layout, which
\* takes the pointer.
PrepareDraw ==
  /\ doing.tick = "prepare"
  /\ \/ captured' \in BOOLEAN /\ Does("tick", "render") /\ UNCHANGED grid
     \/ captured' = TRUE /\ grid' \in Grids \ {grid} /\ Does("tick", "views")
  /\ UNCHANGED << inputVars, input, processed, extent, cameras, active, drawVars >>

\* The rest of PrepareDraw, under gDrawMutex.
Render ==
  /\ doing.tick = "render"
  /\ DrawMutexFree
  /\ Does("tick", "idle")
  /\ UNCHANGED << inputVars, tickVars, viewVars, drawVars >>

------------------------------------------------------------------------------
\* Draw, as far as it calls the updates.

BeginDraw ==
  /\ DrawMutexFree
  /\ Does("draw", "calls")
  /\ UNCHANGED << inputVars, tickVars, viewVars, drawVars >>

CallUpdate ==
  /\ doing.draw = "calls"
  /\ IF updates > 0
       THEN updates' = updates - 1 /\ frame' = 1 /\ Does("draw", "count")
       ELSE Does("draw", "idle") /\ UNCHANGED << updates, frame >>
  /\ UNCHANGED << inputVars, tickVars, viewVars, viewCount, buffers >>

\* InternalUpdateViewBuffer reads the number of views, and then the cameras, for
\* each frame again.
CountViews ==
  /\ doing.draw = "count"
  /\ viewCount' = grid[1] * grid[2]
  /\ Does("draw", "copy")
  /\ UNCHANGED << inputVars, tickVars, viewVars, updates, frame, buffers >>

CopyViews ==
  /\ doing.draw = "copy"
  /\ buffers' = [buffers EXCEPT ![frame] = [n \in 1 .. viewCount |-> cameras[n].pose]]
  /\ frame' = IF frame < Frames THEN frame + 1 ELSE 0
  /\ Does("draw", IF frame < Frames THEN "count" ELSE "calls")
  /\ UNCHANGED << inputVars, tickVars, viewVars, updates, viewCount >>

ViewsNext ==
  \/ \E entered \in BOOLEAN : OnMouseEnter(entered)
  \/ \E b \in Buttons, action \in {"press", "release"} : OnMouseButton(b, action)
  \/ \E p \in Positions : OnMouseCursorPos(p)
  \/ OnScroll
  \/ \E k \in Keys, action \in {"press", "release", "repeat"} : OnKey(k, action)
  \/ \E e \in Extents : ResizeFramebuffer(e)
  \/ \E who \in {"main", "tick"} : InitializeViews(who)
  \/ BeginTick \/ TakeMouse \/ TakeKey \/ InputStateChanged \/ PrepareDraw \/ Render
  \/ BeginDraw \/ CallUpdate \/ CountViews \/ CopyViews

\* Nothing was done since the constructors.
Untouched ==
  /\ events = 0 /\ updates = 1
  /\ \A who \in DOMAIN doing : doing[who] = "idle"

------------------------------------------------------------------------------
\* Tick's state when it has taken the events of a queue.
Absorbed(i, q) ==
  LET after[n \in 0 .. Len(q)] == IF n = 0 THEN i ELSE Absorb(after[n - 1], q[n])
  IN  after[Len(q)]

\* With the events still in the queues, Tick's state is what mouse and keyboard
\* are like: although all handlers share one event and leave the fields of the
\* others in it, no press, release or position is lost or taken twice.
InputFollowsEvents ==
  /\ Absorbed(input, mouseQueue).position = devices.position
  /\ Absorbed(input, mouseQueue).down = devices.down
  /\ Absorbed(input, keyQueue).keys = devices.keys

\* A camera moved is a camera shown: once no update waits or is under way, all
\* frames have the poses of the cameras, though Tick moves them between the
\* copies and main and Tick rebuild the views.  (The projection after a new
\* layout or size comes with the next input only.)
BuffersShowCameras ==
  updates = 0 /\ doing.draw \in {"idle", "calls"} =>
    \A f \in 1 .. Frames : buffers[f] = [n \in DOMAIN cameras |-> cameras[n].pose]
=============================================================================
