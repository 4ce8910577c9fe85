SPECIFICATION FairSpec
CONSTANTS
  BACKLOG = 2
  MaxEvents = 1
  CoreCanDie = TRUE
INVARIANT
  Inv
PROPERTIES
  DownIsNoticed
  EventIsShown
  DeinitReturns
