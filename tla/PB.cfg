SPECIFICATION FairSpec
CONSTANTS
  MaxPoints = 7
  MaxDuration = 3
  MaxTick = 3
CHECK_DEADLOCK FALSE
INVARIANTS
  TypeOK
  PresentIsShown
PROPERTIES
  PlaybackEnds
