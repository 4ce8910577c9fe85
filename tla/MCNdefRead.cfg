SPECIFICATION FairSpec
CONSTANTS
  Lengths <- LongLengths
  Layouts = {"ndef", "lock", "other"}
  Chips <- NtagPages
INVARIANTS
  MessageIsRead
  OnlyMessagePages
  StaysInBuffer
PROPERTY
  ReadReturns
