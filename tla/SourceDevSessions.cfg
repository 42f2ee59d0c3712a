CONSTANTS
  s1 = s1
  s2 = s2
  Sockets = {s1, s2}
  Kinds = {"continuous"}
  HalOps = {"OPEN", "CLOSE", "CONFIG", "START"}
  HdiFaults = {"enable"}
  MaxQueue = 2
SPECIFICATION FairSpec
INVARIANTS
  NoOrphanSession
  DeadSessionCloses
  NoSilentClose
PROPERTIES
  FoundSessionIsDropped
