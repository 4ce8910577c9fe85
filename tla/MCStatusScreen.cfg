SPECIFICATION FairStatusSpec
CONSTANTS
  a = a
  b = b
  NoText = NoText
  Texts = {a, b}
  Tracks <- TwoTracks
  Length <- Lengths
  Replies <- TwoReplies
  Worlds <- TwoWorlds
  ScreenWidth = 7
  ScreenHeight = 4
  Columns <- SmallColumns
  Advance = 2
  Rise = 2
  Glyphs <- SmallGlyphs
  Garbage <- Everything
INVARIANTS
  ScrollShowsAll
  FrameIsIcons
PROPERTIES
  ShowsLastTrack
  TrackIsShown
  IconsFollow
