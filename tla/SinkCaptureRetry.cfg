CONSTANTS
  StreamSets <- Both
  NoRequest = NoRequest
  FaultSets <- CommitFails
  MaxCleanups = 1
SPECIFICATION Spec
INVARIANTS
  ReportedCaptureRuns
