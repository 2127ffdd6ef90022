SPECIFICATION FairSpec
CONSTANTS
  QueueCount = 2
  MaxImages = 0
  MaxModels = 1
  MaxFrames = 3
  MaxResizes = 1
CHECK_DEADLOCK FALSE
INVARIANT
  CounterTellsWhatFinished
PROPERTY
  BatchesFinish
