SPECIFICATION FairSpec
CONSTANTS
  Lengths <- ShortLengths
  Layouts = {"ndef"}
  Chips <- NtagPages
INVARIANT
  OnlyMessagePages
