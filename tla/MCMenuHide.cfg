SPECIFICATION FairSpec
CONSTANTS
  Replies <- AnyReply
  QueueSize = 2
  ClockSets = 0
PROPERTY
  HiddenInNextIteration
