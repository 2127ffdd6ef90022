SPECIFICATION Spec
CONSTANTS
  Machines <- MCMachines
  Typical <- MCTypical
  Images <- MCImages
  Workers = 3
  FileCorners <- MCCorners
  Meshes <- MCMeshes
  Positions <- MCPositions
  Buttons = {"left", "right"}
  Keys = {"w"}
  Extents <- MCExtents
  Grids <- MCGrids
  Frames = 2
  Poses = 3
  MaxEvents = 3
  MaxUpdates = 1
INVARIANTS
  SetupFits
  ImageAsRead
  MeshAsInFile
  InputFollowsEvents
  BuffersShowCameras
\* The constructor of RHI ends on every machine but Typical.
CHECK_DEADLOCK FALSE
