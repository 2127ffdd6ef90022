SPECIFICATION Spec
CONSTANTS
  QueueCount = 1
  MaxImages = 1
  MaxModels = 1
  MaxFrames = 2
  MaxResizes = 1
CHECK_DEADLOCK FALSE
INVARIANTS
  PoolsHoldPending
  CallbacksAfterExecution
  EachCallbackInOnePlace
  UploadsBeforeUse
