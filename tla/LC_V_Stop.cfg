SPECIFICATION Spec
CONSTANTS
  j1 = j1
  j2 = j2
  NoJob = NoJob
  PartialJob = PartialJob
  Jobs <- OneJob
  Faults <- NoFaults
  PausedReports <- SaysBusy
  JobChunks = 2
  MaxOrphans = 1
  MaxConnects = 1
  MaxCleanups = 2
  MaxRelaunches = 0
PROPERTIES
  StopStopsJob
