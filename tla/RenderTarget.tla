------------------------------ MODULE RenderTarget ------------------------------
(***************************************************************************)
(* A render target of rhi/rendertarget as a value: what it remembers of    *)
(* the layout of its images, and what its next rendering scope will tell   *)
(* the device.  A Frame has the one image of the swapchain, a              *)
(* RenderImageSet a colour and a depth-stencil image.                      *)
(*                                                                         *)
(* A call on a render target changes the target and appends commands to a  *)
(* command buffer.  It is an operator on a pass: the target together with  *)
(* the commands recorded so far.                                           *)
(*                                                                         *)
(* Every target of the program renders dynamically, so render passes and   *)
(* framebuffers are left out; so are store operations, clear values and    *)
(* the blits, copies and clears that nothing calls.                        *)
(***************************************************************************)
EXTENDS Integers, Sequences, SequencesExt

Color == "color"
Depth == "depth"

\* The layouts that SetDefaultAccessAndStageMasks has masks for.
Layouts ==
  {"undefined", "general", "color", "depth", "depthread", "read", "source", "destination",
   "present"}

LoadOps == {"dontcare", "clear", "load"}

\* finalLayout of an attachment, which End declares its layout to be.
FinalLayout(a) == IF a = Color THEN "color" ELSE "depth"

\* The aspects of an attachment's image, and those its view is made for.
Aspects(a) == IF a = Color THEN {"color"} ELSE {"depth", "stencil"}

ViewAspects(aspects) == IF "stencil" \in aspects THEN {"depth"} ELSE aspects

\* A target whose attachment a is the image images[a].  infos is what
\* InternalUpdateAttachments found last; view counts the views made.
NewTarget(images) ==
  [images    |-> images,
   layout    |-> [a \in DOMAIN images |-> "undefined"],
   loadOp    |-> [a \in DOMAIN images |-> "dontcare"],
   reference |-> [a \in DOMAIN images |-> ViewAspects(Aspects(a))],
   view      |-> [a \in DOMAIN images |-> 0],
   infos     |-> << >>]

-----------------------------------------------------------------------------
(***************************************************************************)
(* The calls.                                                              *)
(***************************************************************************)

\* A depth image's aspects never are those of its view, so its view is
\* destroyed and made again at every call.
InternalUpdateAttachments(t) ==
  LET renewed == {a \in DOMAIN t.images : Aspects(a) # t.reference[a]}
      view == [a \in DOMAIN t.images |-> IF a \in renewed THEN t.view[a] + 1 ELSE t.view[a]]
  IN [images    |-> t.images,
      layout    |-> t.layout,
      loadOp    |-> t.loadOp,
      reference |-> [a \in DOMAIN t.images |->
                       IF a \in renewed THEN ViewAspects(Aspects(a)) ELSE t.reference[a]],
      view      |-> view,
      infos     |-> [a \in DOMAIN t.images |->
                       [image |-> t.images[a], view |-> view[a],
                        layout |-> t.layout[a], loadOp |-> t.loadOp[a]]]]

SetLoadOp(pass, a, op) == [pass EXCEPT !.target.loadOp[a] = op]

\* TransitionImageLayout records one barrier from the remembered layout.
Barrier(t, a, layout) ==
  [op |-> "barrier", image |-> t.images[a], from |-> t.layout[a], to |-> layout]

\* The layout is remembered; nothing is recorded when it is the one wanted.
Transition(pass, a, layout) ==
  IF pass.target.layout[a] = layout THEN pass
  ELSE [target |-> [pass.target EXCEPT !.layout[a] = layout],
        cmds   |-> Append(pass.cmds, Barrier(pass.target, a, layout))]

\* A frame leaves the infos as they are.
FrameTransition(pass, layout) == Transition(pass, Color, layout)

\* A set asks the image, and brings the infos up to date.
SetTransition(pass, a, layout) ==
  LET moved == Transition(pass, a, layout)
  IN [moved EXCEPT !.target = InternalUpdateAttachments(@)]

\* Mutant of SetRenderTarget: the infos are those of the last update.
KeepsInfos(pass) == pass

\* SetRenderTarget casts the target to its handles, which updates it.
SetRenderTarget(pass) == [pass EXCEPT !.target = InternalUpdateAttachments(@)]

\* Begin hands the device the infos as they are, End what it takes the
\* layouts to be afterwards.  draw names the rendering for the contents.
BeginEnd(pass, draw) ==
  [target |-> [pass.target EXCEPT !.layout = [a \in DOMAIN @ |-> FinalLayout(a)]],
   cmds   |-> Append(pass.cmds, [op |-> "render", infos |-> pass.target.infos, draw |-> draw])]

-----------------------------------------------------------------------------
(***************************************************************************)
(* The device: what a command makes of the images it names, and whether    *)
(* it finds them the way it was told.                                      *)
(***************************************************************************)

Images(cmd) ==
  CASE cmd.op = "barrier"  -> {cmd.image}
    [] cmd.op = "render"   -> {cmd.infos[a].image : a \in DOMAIN cmd.infos}
    [] cmd.op = "dispatch" -> {cmd.read, cmd.write}
    [] cmd.op = "present"  -> {cmd.image}
    [] OTHER               -> {}

\* A barrier from an undefined layout discards the contents, and so does a
\* rendering that does not load them.
Effect(world, cmd) ==
  CASE cmd.op = "barrier" ->
         [world EXCEPT ![cmd.image] =
            [layout |-> cmd.to, drawn |-> IF cmd.from = "undefined" THEN {} ELSE @.drawn]]
    [] cmd.op = "render" ->
         [i \in DOMAIN world |->
            LET used == {a \in DOMAIN cmd.infos : cmd.infos[a].image = i}
                kept == IF \A a \in used : cmd.infos[a].loadOp = "load"
                        THEN world[i].drawn ELSE {}
            IN IF used = {} THEN world[i]
               ELSE [layout |-> world[i].layout, drawn |-> {cmd.draw} \cup kept]]
    [] cmd.op = "dispatch" ->
         [world EXCEPT ![cmd.write] =
            [layout |-> @.layout, drawn |-> @.drawn \cup {cmd.draw}]]
    [] OTHER -> world

FindsLayouts(world, cmd) ==
  /\ cmd.op = "barrier"  => cmd.from \in {"undefined", world[cmd.image].layout}
  /\ cmd.op = "render"   => \A a \in DOMAIN cmd.infos :
                              cmd.infos[a].layout = world[cmd.infos[a].image].layout
  /\ cmd.op = "dispatch" => /\ cmd.readLayout = world[cmd.read].layout
                            /\ cmd.writeLayout = world[cmd.write].layout
  /\ cmd.op = "present"  => world[cmd.image].layout = "present"

\* What becomes of the images when the commands are executed one by one.
Worlds(world, cmds) ==
  LET after[n \in 0 .. Len(cmds)] == IF n = 0 THEN world ELSE Effect(after[n - 1], cmds[n])
  IN  after

ExecuteAll(world, cmds) == Worlds(world, cmds)[Len(cmds)]

\* Every command meets Meets when its turn comes.
AllMeet(world, cmds, Meets(_, _)) ==
  \A n \in 1 .. Len(cmds) : Meets(Worlds(world, cmds)[n - 1], cmds[n])
=============================================================================
