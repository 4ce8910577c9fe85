SPECIFICATION Spec
CONSTANTS
  Replies <- AnyReply
  QueueSize = 2
  ClockSets = 0
INVARIANT
  ListLeavesNothing
