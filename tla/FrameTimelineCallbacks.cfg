SPECIFICATION Spec
CONSTANTS
  QueueCount = 2
  MaxImages = 1
  MaxModels = 0
  MaxFrames = 2
  MaxResizes = 0
CHECK_DEADLOCK FALSE
INVARIANT
  CallbacksAfterExecution
