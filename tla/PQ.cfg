SPECIFICATION FairSpec
CONSTANTS
  Null = Null
  p = p
  q = q
  Handles <- TwoAddresses
  MaxFaults = 1
  MaxAborted = 1
CHECK_DEADLOCK FALSE
INVARIANTS
  TypeOK
  HandlesAccounted
  CrashNeedsUnplugging
  OneAnswerPerRead
  OwnAnswers
  TestDeviceAlone
PROPERTIES
  QueriesReturn
  DiagnosticsEnd
