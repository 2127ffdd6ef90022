SPECIFICATION RecordingSpec
CONSTANTS
  Recorders = {draw, helper}
  Loaders = {loader}
  Kind <- ThreeKinds
  Elements = 3
  Capacity = 2
  MaxSets = 4
  LevelCount = 2
  ArrayCapacity = 4
  Inheritances = {one, two}
  MaxBegins = 6
SYMMETRY Alike
INVARIANTS
  DataInPlace
  ReadyMeansWritten
  EachArrayInOneList
  RecordingIsOwned
  InFlightUntouched
  ExecutedInOrder
PROPERTIES
  BoundNotRewritten
  FrontStaysWhileBound
