CONSTANTS
  MaxFrames = 5
  EarlyFrames = 1
  HalfRate = 3
  KeysToRaise = 2
  MaxBitrate = 3
SPECIFICATION EncoderSpec
INVARIANTS
  SentFramesDecode
  SyncThreadServes
PROPERTIES
  StopEnds
CHECK_DEADLOCK FALSE
