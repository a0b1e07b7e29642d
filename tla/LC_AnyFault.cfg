SPECIFICATION Spec
CONSTANTS
  j1 = j1
  j2 = j2
  NoJob = NoJob
  PartialJob = PartialJob
  Jobs <- TwoJobs
  Faults <- AnyFault
  PausedReports <- SaysEither
  JobChunks = 2
  MaxOrphans = 1
  MaxConnects = 2
  MaxCleanups = 2
  MaxRelaunches = 1
SYMMETRY JobSymmetry
INVARIANTS
  TypeOK
  MonitoredWhileOperating
  ClicksInertWhileOperating
  SimulationPointersAgree
  PreviewShowsCurrentJob
