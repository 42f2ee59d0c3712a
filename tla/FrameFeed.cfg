CONSTANTS
  MaxPhotos = 2
  MaxSync = 1
  MaxFrames = 3
  MaxModes = 2
SPECIFICATION Spec
INVARIANTS
  FramesReachDriver
PROPERTIES
  StopEnds
CHECK_DEADLOCK FALSE
