SPECIFICATION FairSpec
CONSTANTS
  FrameCount = 2
  QueueCount = 2
  MaxDraws = 3
  MaxResizes = 1
  MaxLoads = 2
  VertexInputs = {"p", "pnt"}
  DrawThreads = 1
  Suboptimal = FALSE
CHECK_DEADLOCK FALSE
INVARIANTS
  LayoutsAgree
  ImagesExist
  PresentsThisFrame
  PipelinesFit
  SemaphoreOutlivesPresent
PROPERTY
  DrawEnds
