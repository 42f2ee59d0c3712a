CONSTANTS
  s1 = s1
  s2 = s2
  Sockets = {s1, s2}
  Kinds = {"continuous", "snapshot"}
  HalOps = {"OPEN", "CLOSE", "CONFIG", "RELEASE", "START", "STOP", "UPDATE"}
  HdiFaults = {"provider", "enable", "disable", "notify"}
  MaxQueue = 1
SPECIFICATION Spec
SYMMETRY SocketSymmetry
VIEW StreamsView
\* the process may end at a null dereference
CHECK_DEADLOCK FALSE
INVARIANTS
  ProducersHaveStreams
  DataLossCloses
PROPERTIES
  ImplementsLifecycle
