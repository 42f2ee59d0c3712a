CONSTANTS
  StreamSets <- PreviewOrBoth
  NoRequest = NoRequest
  FaultSets <- Mishaps
  MaxCleanups = 2
SPECIFICATION FairSpec
INVARIANTS
  PreparationOwned
  RunningIsWired
PROPERTIES
  TeardownExcludesPreparation
  StartsAndLossesEnd
