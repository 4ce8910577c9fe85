SPECIFICATION FairSpec
CONSTANTS
  v1 = v1
  bad = bad
  Versions = {v1, bad}
  Factory = v1
  Faulty = {bad}
  BadLoaders = {bad}
  Bundles <- BothAndRootfs
  Attempts = 2
  EarlyCuts = 1
INVARIANTS
  UpdateIsTried
  AlwaysASystem
PROPERTIES
  SystemComesUp
  RebootIsOffered
  ScriptEnds
