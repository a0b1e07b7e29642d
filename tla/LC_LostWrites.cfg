SPECIFICATION Spec
CONSTANTS
  j1 = j1
  j2 = j2
  NoJob = NoJob
  PartialJob = PartialJob
  Jobs <- TwoJobs
  Faults <- LosesWrites
  PausedReports <- SaysBusy
  JobChunks = 3
  MaxOrphans = 1
  MaxConnects = 2
  MaxCleanups = 2
  MaxRelaunches = 1
SYMMETRY JobSymmetry
PROPERTIES
  OneWholeJob
