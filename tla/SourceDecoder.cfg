CONSTANTS
  MaxFrames = 3
  MaxQueue = 1
  Indexes = 1
SPECIFICATION Spec
INVARIANTS
  InfoIsOfFrame
PROPERTIES
  NoFrameStuck
  ReleaseEnds
CHECK_DEADLOCK FALSE
