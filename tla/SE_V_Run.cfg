SPECIFICATION Spec
CONSTANTS
  p1 = p1
  p2 = p2
  p3 = p3
  NoJob = NoJob
  PartialJob = PartialJob
  Jobs <- ThreeProcesses
  Faults <- WritesFail
  PausedReports <- SaysBusy
  WindowChunks = 1
SYMMETRY ProcessSymmetry
CHECK_DEADLOCK FALSE
PROPERTIES
  OneWholeJob
