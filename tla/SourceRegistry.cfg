CONSTANTS
  c1 = c1
  c2 = c2
  c3 = c3
  c4 = c4
  t1 = t1
  t2 = t2
  d1 = d1
  d2 = d2
  d3 = d3
  d4 = d4
  Cameras = {c1, c2, c3, c4}
  Callers = {t1, t2}
  Devs = {d1, d2, d3, d4}
  NoDev = NoDev
  MaxCameras = 1
  MaxOwed = 1
  Kept = {c2, c3, c4}
  Faults = {"enable", "reenable", "disable"}
SPECIFICATION FairSpec
INVARIANTS
  CamerasBounded
  NoLostRequest
  EnabledIsReachable
PROPERTY Answered
