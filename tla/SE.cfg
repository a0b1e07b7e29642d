SPECIFICATION FairSpec
CONSTANTS
  p1 = p1
  p2 = p2
  p3 = p3
  NoJob = NoJob
  PartialJob = PartialJob
  Jobs <- TwoProcesses
  Faults <- LinkFaults
  PausedReports <- SaysBusy
  WindowChunks = 2
CHECK_DEADLOCK FALSE
INVARIANTS
  TypeOK
  TempFilesRemoved
PROPERTIES
  WindowStartsOwnJob
  SessionsEnd
