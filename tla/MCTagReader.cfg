SPECIFICATION FairSpec
CONSTANTS
  t1 = t1
  t2 = t2
  t3 = t3
  t4 = t4
  t5 = t5
  t6 = t6
  u1 = u1
  u2 = u2
  x1 = x1
  NoTag = NoTag
  NoUri = NoUri
  Broken = Broken
  Blank = Blank
  Spotify = {u1, u2}
  OtherUris = {x1}
  Tags <- AllTags
  Content <- AllContent
  CanCrash = TRUE
INVARIANTS
  FreshTagIsLoaded
  LampMatchesTag
  CommandMatchesTag
  IInv
PROPERTIES
  RemovalIsDebounced
  ImplementsSession
  RemovalIsNoticed
  TagIsPickedUp
  DeinitReturns
