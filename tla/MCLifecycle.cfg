SPECIFICATION FairSpec
INVARIANTS
  Inv
  LedObeysInLoop
  NothingLeft
PROPERTY
  SigintEnds
