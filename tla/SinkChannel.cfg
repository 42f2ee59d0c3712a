CONSTANTS
  Peers = {p1, p2}
  NoPeer = NoPeer
  MaxSockets = 3
  MaxRequests = 1
  MaxInits = 2

SPECIFICATION Spec
CHECK_DEADLOCK FALSE

INVARIANTS
  OneTrustedSocket
  TrustEndsWithSocket
  RepliesReachTrusted
  ControllerFollowsTrust
  StartedIsAllowed
PROPERTIES
  OutcomeStands
SYMMETRY Swapped
