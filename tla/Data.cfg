CONSTANTS
  IntMax = 2
  MaxItems = 2
  Metadata <- ShortMetadata
  Sizes = {4, 6, 8}
  HeightAlign = 4
  SourceAlign = 4
  Rates <- SomeRates
  MaxFps = 2
  MaxMetadata = 2
  MaxUpdates = 3
  Mishaps <- SomeMishaps
  Profiles <- SomeProfiles
  Modes = {"night"}
SPECIFICATION Spec
INVARIANTS
  CommandsArrive
  PicturesAreRight
  CameraDoesAsAsked
  PromiseIsKept
CHECK_DEADLOCK FALSE
