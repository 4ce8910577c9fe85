SPECIFICATION FairPlayerSpec
CONSTANTS
  t1 = t1
  t2 = t2
  u1 = u1
  u2 = u2
  NoTag = NoTag
  NoUri = NoUri
  Broken = Broken
  Blank = Blank
  Spotify = {u1, u2}
  OtherUris = {}
  Tags = {t1, t2}
  Content <- TwoContents
  CanCrash = TRUE
  Backlog = 2
INVARIANTS
  SilentWithoutTag
  PlaysTheTag
PROPERTIES
  RemovalSilences
  TagIsPlayed
