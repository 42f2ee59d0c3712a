CONSTANTS
  Client = client
  Loads = {l1}
  Threads = {client, l1}
  Cameras = {"c1"}
  MaxCalls = 2
  MaxLives = 2
SPECIFICATION Spec
INVARIANTS
  CallsAreSound
  DeadProxyIsDropped
  StartedHasService
  CallbacksAreAnswered
  LoadedDriversRun
CHECK_DEADLOCK FALSE
