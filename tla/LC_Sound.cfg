SPECIFICATION FairSpec
CONSTANTS
  j1 = j1
  j2 = j2
  NoJob = NoJob
  PartialJob = PartialJob
  Jobs <- TwoJobs
  Faults <- SoundLink
  PausedReports <- SaysEither
  JobChunks = 2
  MaxOrphans = 1
  MaxConnects = 2
  MaxCleanups = 2
  MaxRelaunches = 0
INVARIANTS
  IdleMeansStopped
PROPERTIES
  NoMotionDuringJob
  StartOnlyWhenReady
  DisconnectOnlyWhenStopped
  FinishNoticed
  ErrorNoticed
  TraceCleared
