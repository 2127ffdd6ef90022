------------------------------- MODULE MCStartup -------------------------------
EXTENDS Startup, TLC

All ==
  {"required", "inline_uniform_block", "push_descriptor", "present_id", "present_wait",
   "swapchain_maintenance1"}

Family(flags, queues, present) == [flags |-> flags, queues |-> queues, present |-> present]

Universal == Family({"graphics", "compute", "transfer"}, 2, TRUE)
AsyncCompute == Family({"compute", "transfer"}, 2, FALSE)
Copying == Family({"transfer"}, 1, FALSE)
NoPresent == Family({"graphics", "compute"}, 1, FALSE)
OnlyGraphics == Family({"graphics", "transfer"}, 1, TRUE)

\* A discrete card with a family of each kind.
Discrete ==
  [type |-> "discrete", families |-> << Universal, Copying, AsyncCompute >>, extensions |-> All,
   formats |-> {"other", "bgra8", "rgba8"}, modes |-> {"fifo", "mailbox", "fifo_relaxed"},
   minImages |-> 2, maxImages |-> 8, extent |-> 2]

\* One family for everything, and a surface that leaves its size open.
Integrated ==
  [Discrete EXCEPT !.type = "integrated", !.families = << Universal >>,
                   !.extensions = All \ {"present_wait", "swapchain_maintenance1"}, !.formats = {"rgba8"},
                   !.modes = {"fifo", "fifo_relaxed"}, !.maxImages = 0, !.extent = Open]

\* No limit of images, and no dedicated family for transfers.
Unlimited == [Discrete EXCEPT !.families = << Universal, AsyncCompute >>, !.maxImages = 0]

\* An older card, which has none of the formats asked for.
Older ==
  [Discrete EXCEPT !.type = "other", !.extensions = {"present_id"}, !.formats = {"other"},
                   !.modes = {"fifo"}, !.minImages = 4]

\* A renderer on the processor: fifo only, and four images at least.
Software ==
  [Discrete EXCEPT !.type = "cpu", !.families = << Universal, Copying >>, !.extensions = {"required"},
                   !.formats = {"other"}, !.modes = {"fifo"}, !.minImages = 4]

\* A card without a screen.
Headless ==
  [Discrete EXCEPT !.families = << NoPresent, Copying >>]

\* A card whose last graphics family cannot compute.
Parted == [Discrete EXCEPT !.families = << Universal, OnlyGraphics >>]

MCMachines ==
  UNION {[1 .. n -> {Discrete, Integrated, Unlimited, Older, Software, Headless, Parted}] : n \in 0 .. 2}

MCTypical == << Discrete >>

\* With three workers: shares of ten rows and one left over twice, then one
\* call; shares of five rows; and a side that is no multiple of four.
MCImages ==
  {[width |-> 8, height |-> 32, alpha |-> FALSE], [width |-> 8, height |-> 16, alpha |-> TRUE],
   [width |-> 4, height |-> 10, alpha |-> FALSE]}

MCCorners == [position : {1, 2}, normal : {1, 2}, texCoord : {1}, color : {1}]

MCMeshes ==
  [normals   : BOOLEAN,
   texcoords : BOOLEAN,
   shapes    : {<< s, t >> : s \in UNION {[1 .. n -> MCCorners] : n \in 1 .. 2},
                             t \in UNION {[1 .. n -> MCCorners] : n \in 0 .. 1}}]

MCPositions == {<< 0, 0 >>, << 3, 1 >>}

MCExtents == {<< 4, 4 >>, << 4, 2 >>}

MCGrids == {<< 1, 2 >>, << 2, 1 >>}
=============================================================================
