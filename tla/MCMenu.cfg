SPECIFICATION FairSpec
CONSTANTS
  Replies <- AnyReply
  QueueSize = 2
  ClockSets = 1
INVARIANTS
  TypeOK
  ListLivesWithMenu
  ScreenIsMenu
PROPERTIES
  PressIsHandled
  StatusReturns
