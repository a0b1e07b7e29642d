SPECIFICATION FairSpec
CONSTANTS
  MaxEvents = 4
CHECK_DEADLOCK FALSE
INVARIANTS
  QuietWhenUnregistered
PROPERTIES
  EventsHandled
  UnregisterReturns
