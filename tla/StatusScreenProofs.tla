------------------------- MODULE StatusScreenProofs -------------------------
(***************************************************************************)
(* TrackInfo and StatusScreen for any icons, answers and tracks: the       *)
(* display is a register of whole tracks, also where the lines are printed *)
(* between the icons of two iterations; a long line scrolls to the end of  *)
(* its text; and the frame holds the icons put last, pixel for pixel.      *)
(***************************************************************************)
EXTENDS StatusScreen, FiniteSetTheorems, TLAPS

\* Before the first event nothing is stored, printed or shown.
LEMMA InitInv == Init => Inv
  BY DEF Init, Inv, TypeOK, Infos, Nothing, Lines, ShowsOneTrack

\* When all three lines have been dealt with, the texts are those of one side.
LEMMA SameLines ==
  ASSUME NEW f \in Infos, NEW g \in Infos, \A k \in Lines : k < 4 => f[k] = g[k]
  PROVE  f = g
  BY DEF Infos, Lines

\* The librespot thread keeps Inv: no line that the main thread has printed is
\* replaced before it is shown, since the mutex cannot be both threads'.
LEMMA LibrespotKeepsInv ==
  ASSUME Inv, LockForUpdate \/ Update PROVE Inv'
  <1> USE DEF Inv, TypeOK, Infos, Lines, ShowsOneTrack, librespot, main
  <1>1. CASE LockForUpdate
    BY <1>1, TracksAssumption DEF LockForUpdate
  <1>2. CASE FreeLine
    BY <1>2 DEF FreeLine
  <1>3. CASE AllFreed
    BY <1>3 DEF AllFreed
  <1>4. CASE StoreLine
    BY <1>4 DEF StoreLine
  <1>5. CASE UnlockAfterUpdate
    <2>1. info = event
      BY <1>5, SameLines DEF UnlockAfterUpdate
    <2>2. QED
      BY <1>5, <2>1 DEF UnlockAfterUpdate
  <1>6. QED
    BY <1>1, <1>2, <1>3, <1>4, <1>5 DEF Update

\* The main thread keeps Inv: at its wrefresh the window holds the lines as the
\* last update left them.
LEMMA MainKeepsInv ==
  ASSUME Inv, LockForPrint \/ ShowStatus PROVE Inv'
  <1> USE DEF Inv, TypeOK, Infos, Lines, ShowsOneTrack, librespot, main
  <1>1. CASE LockForPrint
    BY <1>1 DEF LockForPrint, Nothing
  <1>2. CASE PrintLine
    BY <1>2 DEF PrintLine
  <1>3. CASE RefreshAndUnlock
    <2>1. window = info
      BY <1>3, SameLines DEF RefreshAndUnlock
    <2>2. QED
      BY <1>3, <2>1 DEF RefreshAndUnlock
  <1>4. QED
    BY <1>1, <1>2, <1>3 DEF ShowStatus

\* Between lock and unlock a thread has the mutex and the lines to itself; at rest
\* the lines of g_artists, g_album and g_title are those of one event.
THEOREM MutexProtectsTheLines == Spec => []Inv
  <1>1. ASSUME Inv, UNCHANGED vars PROVE Inv'
    BY <1>1 DEF Inv, TypeOK, ShowsOneTrack, vars, librespot, main
  <1>2. Inv /\ [Next]_vars => Inv'
    BY <1>1, LibrespotKeepsInv, MainKeepsInv DEF Next
  <1>3. QED
    BY InitInv, <1>2, PTL DEF Spec

\* What ui_process puts on the display is never a mixture of two tracks.
THEOREM OneTrackShown == Spec => []ShowsOneTrack
  <1>1. Inv => ShowsOneTrack
    BY DEF Inv
  <1>2. QED
    BY MutexProtectsTheLines, <1>1, PTL

\* Each step of the two threads is one of the register, or none that it can see: an
\* update takes effect at its lock, the display at its wrefresh.
LEMMA StepOfRegister ==
  ASSUME Inv, [Next]_vars PROVE [Register!Next]_Register!vars
  <1> USE DEF Inv, TypeOK, Register!Next, Register!vars, Register!Store, Register!Show
  <1>1. CASE LockForUpdate
    BY <1>1 DEF LockForUpdate, main
  <1>2. CASE FreeLine \/ AllFreed \/ StoreLine
    BY <1>2 DEF FreeLine, AllFreed, StoreLine, main
  <1>3. CASE UnlockAfterUpdate
    <2>1. info = event
      BY <1>3, SameLines DEF UnlockAfterUpdate, Lines
    <2>2. QED
      BY <1>3, <2>1 DEF UnlockAfterUpdate, main
  <1>4. CASE LockForPrint \/ PrintLine
    BY <1>4 DEF LockForPrint, PrintLine, librespot
  <1>5. CASE RefreshAndUnlock
    <2>1. window = info
      BY <1>5, SameLines DEF RefreshAndUnlock, Lines
    <2>2. lpc = "idle"
      BY <1>5 DEF RefreshAndUnlock
    <2>3. QED
      BY <1>5, <2>1, <2>2 DEF RefreshAndUnlock, librespot
  <1>6. CASE UNCHANGED vars
    BY <1>6 DEF vars, librespot, main
  <1>7. QED
    BY <1>1, <1>2, <1>3, <1>4, <1>5, <1>6 DEF Next, Update, ShowStatus

\* Locks, lines and interleavings come to an atomic register of tracks.
THEOREM TracksAreRegister == Spec => ShowsLastTrack
  <1>1. Init => Register!Init
    BY DEF Init, Register!Init
  <1>2. Inv /\ [Next]_vars => [Register!Next]_Register!vars
    BY StepOfRegister
  <1>3. QED
    BY MutexProtectsTheLines, <1>1, <1>2, PTL DEF Spec, Register!Spec, ShowsLastTrack

-----------------------------------------------------------------------------
\* What is done about icons is no step of TrackInfo, and the rest is one of its own.
LEMMA StepOfTrackInfo ==
  [StatusNext]_statusVars => [Next]_vars
  <1>1. ASSUME MainStep PROVE [Next]_vars
    BY <1>1 DEF MainStep, PutIcon, PutIconFails, IconsSync, IconsSyncFails, PrintNext, RefreshAll,
                Next, ShowStatus
  <1>2. ASSUME WorldChanges \/ LockAfterIcons \/ LibrespotStep PROVE [Next]_vars
    BY <1>2 DEF WorldChanges, LockAfterIcons, LibrespotStep, Next
  <1>3. ASSUME UNCHANGED statusVars PROVE UNCHANGED vars
    BY <1>3 DEF statusVars
  <1>4. QED
    BY <1>1, <1>2, <1>3 DEF StatusNext

\* The status screen as a whole is a TrackInfo.
THEOREM ScreenIsTrackInfo == StatusSpec => Spec
  <1>1. StatusInit => Init
    BY DEF StatusInit
  <1>2. QED
    BY <1>1, StepOfTrackInfo, PTL DEF StatusSpec, Spec

\* ui_process never shows lines of two events, icons or not.
THEOREM OneTrackOnScreen == StatusSpec => []ShowsOneTrack
  BY ScreenIsTrackInfo, OneTrackShown, PTL

\* With the icons in between, and whatever happens to them, it is still one.
THEOREM ScreenShowsLastTrack == StatusSpec => ShowsLastTrack
  BY ScreenIsTrackInfo, TracksAreRegister, PTL

\* The conversion to int gives back a difference that was negative.
LEMMA ToIntOfDifference ==
  ASSUME NEW d \in Int, -(Word \div 2) <= d, d < Word \div 2
  PROVE  ToInt(d % Word) = d
  <1>1. CASE d >= 0
    BY <1>1 DEF ToInt, Word
  <1>2. CASE d < 0
    BY <1>2 DEF ToInt, Word
  <1>3. QED
    BY <1>1, <1>2

\* print_scrolling: as long as the sums fit into an int, the part that is printed
\* starts in the text and ends with it at the latest.
THEOREM ScrollStaysInText ==
  ASSUME NEW len \in Nat, len > WINDOW_WIDTH, Amplitude(len) < Word \div 2,
         NEW ticks \in Nat
  PROVE  ScrollPos(len, ticks) \in 0..(len - WINDOW_WIDTH)
  <1> DEFINE amp == Amplitude(len)
             r == ticks % (2 * amp)
  <1>1. amp \in Nat \ {0}
    BY DEF Amplitude, WINDOW_WIDTH, SCROLL_PADDING
  <1>2. r \in 0..(2 * amp - 1)
    BY <1>1
  <1>3. ToInt((r - amp) % Word) = r - amp
    BY <1>1, <1>2, ToIntOfDifference DEF Word
  <1>4. QED
    BY <1>1, <1>2, <1>3 DEF ScrollPos, Distance, WINDOW_WIDTH, SCROLL_PADDING

\* Each position from the first to the last is taken at some time.
THEOREM ScrollReachesAll ==
  ASSUME NEW len \in Nat, len > WINDOW_WIDTH, Amplitude(len) < Word \div 2,
         NEW pos \in 0..(len - WINDOW_WIDTH)
  PROVE  \E ticks \in 0..2 * Amplitude(len) - 1 : ScrollPos(len, ticks) = pos
  <1> DEFINE amp == Amplitude(len)
             ticks == amp + SCROLL_PADDING + pos
  <1>1. amp \in Nat \ {0} /\ ticks \in 0..2 * amp - 1
    BY DEF Amplitude, WINDOW_WIDTH, SCROLL_PADDING
  <1>2. ticks % (2 * amp) = ticks
    BY <1>1
  <1>3. ToInt((ticks - amp) % Word) = ticks - amp
    BY <1>1, ToIntOfDifference DEF Word
  <1>4. ScrollPos(len, ticks) = pos
    BY <1>1, <1>2, <1>3 DEF ScrollPos, Distance, WINDOW_WIDTH, SCROLL_PADDING
  <1>5. QED
    BY <1>1, <1>4

\* The positions of a text of any length that fits into an event.
LEMMA PositionsOfText ==
  ASSUME NEW len \in 0..Longest
  PROVE  Positions(len) = 0..(IF len <= WINDOW_WIDTH THEN 0 ELSE len - WINDOW_WIDTH)
  <1>1. CASE len <= WINDOW_WIDTH
    BY <1>1 DEF Positions
  <1>2. CASE len > WINDOW_WIDTH
    <2> DEFINE last == len - WINDOW_WIDTH
    <2>1. Word \div 2 = 32768
      BY DEF Word
    <2>2. len \in Nat /\ Amplitude(len) \in Nat /\ Amplitude(len) < Word \div 2
      BY <1>2, <2>1 DEF Longest, Amplitude, WINDOW_WIDTH, SCROLL_PADDING
    <2>3. Positions(len) = {ScrollPos(len, ticks) : ticks \in 0..2 * Amplitude(len) - 1}
      BY <1>2 DEF Positions, WINDOW_WIDTH
    <2>4. \A ticks \in 0..2 * Amplitude(len) - 1 : ScrollPos(len, ticks) \in 0..last
      BY <1>2, <2>2, ScrollStaysInText
    <2>5. \A pos \in 0..last : \E ticks \in 0..2 * Amplitude(len) - 1 :
            ScrollPos(len, ticks) = pos
      BY <1>2, <2>2, ScrollReachesAll
    <2>6. Positions(len) = 0..last
      BY <2>3, <2>4, <2>5
    <2>7. QED
      BY <1>2, <2>6 DEF WINDOW_WIDTH
  <1>3. QED
    BY <1>1, <1>2 DEF WINDOW_WIDTH

\* Whatever the events say and whenever they come, the lines that are printed scroll
\* to the end of their texts and not beyond it.
THEOREM LinesScroll == StatusSpec => []ScrollShowsAll
  <1>1. ASSUME Inv PROVE ScrollShowsAll
    <2>1. SUFFICES ASSUME NEW k \in Lines, window[k] # NoText
                   PROVE  Length[window[k]] \in 0..Longest
      BY PositionsOfText DEF ScrollShowsAll
    <2>2. window[k] \in Texts
      BY <1>1, <2>1 DEF Inv, TypeOK, Infos
    <2>3. QED
      BY <2>2, LengthAssumption
  <1>2. QED
    BY <1>1, ScreenIsTrackInfo, MutexProtectsTheLines, PTL
-----------------------------------------------------------------------------
\* How many numbers there are from one on and before another.
LEMMA CardinalityOfRange ==
  ASSUME NEW from \in Nat, NEW upto \in Nat, from <= upto
  PROVE  Cardinality(from..upto - 1) = upto - from
  <1> DEFINE last == upto - 1
  <1>1. from \in Int /\ last \in Int
    OBVIOUS
  <1>2. Cardinality(from..last) = IF from > last THEN 0 ELSE last - from + 1
    BY ONLY <1>1, FS_Interval
  <1>3. QED
    BY <1>2

\* draw_bitmap's p: how many columns of the bitmap lie before this one.
LEMMA ColumnOfBitmap ==
  ASSUME NEW g, g.left \in Nat, NEW x \in Nat, NEW i \in Nat, i >= x + g.left
  PROVE  P(g, x, i) = i - x - g.left
  <1>1. {c \in x..i - 1 : c >= x + g.left} = x + g.left..i - 1
    OBVIOUS
  <1>2. Cardinality(x + g.left..i - 1) = i - x - g.left
    BY CardinalityOfRange
  <1>3. QED
    BY <1>1, <1>2 DEF P

\* And its q: the rows of the bitmap before this one, none of which is skipped, since
\* a pixel on the screen has the whole column above it on the screen.
LEMMA RowOfBitmap ==
  ASSUME NEW g, {g.left, g.top, g.width, g.rows} \subseteq Nat, NEW x \in Nat,
         NEW i \in Nat, NEW j \in Nat, <<i, j>> \in Pixels, InBitmap(g, x, i, j)
  PROVE  Q(g, x, i, j) = j - g.top
  <1>1. i \in 0..ScreenWidth - 1 /\ j \in 0..ScreenHeight - 1
    BY DEF Pixels
  <1>2. \A r \in 0..j - 1 : <<i, r>> \in Pixels
    BY <1>1, ScreenAssumption DEF Pixels
  <1>3. \A r \in 0..j - 1 : InBitmap(g, x, i, r) <=> r >= g.top
    BY DEF InBitmap
  <1>4. {r \in 0..j - 1 : <<i, r>> \in Pixels /\ InBitmap(g, x, i, r)} = g.top..j - 1
    BY <1>2, <1>3
  <1>5. Cardinality(g.top..j - 1) = j - g.top
    BY CardinalityOfRange DEF InBitmap
  <1>6. QED
    BY <1>4, <1>5 DEF Q

\* In its cell, draw_bitmap leaves the icon and nothing else.
LEMMA CellIsDrawn ==
  ASSUME NEW place \in Places, NEW icon \in Icons, NEW frame \in SUBSET Pixels
  PROVE  DrawBitmap(frame, Glyphs[icon], Columns[place]) \cap Cell(place)
           = Drawing(place, icon)
  <1> DEFINE g == Glyphs[icon]
             x == Columns[place]
             after == DrawBitmap(frame, g, x)
  <1>1. /\ {g.left, g.top, g.width, g.rows} \subseteq Nat
        /\ g.lit \subseteq (0..g.width - 1) \X (0..g.rows - 1)
        /\ x \in Nat /\ Advance \in Nat /\ Rise \in Nat
    BY GlyphsAssumption, ScreenAssumption DEF Places
  <1>2. ASSUME NEW i \in Nat, NEW j \in Nat, <<i, j>> \in Cell(place)
        PROVE  <<i, j>> \in after <=> <<i, j>> \in Drawing(place, icon)
    <2>1. <<i, j>> \in Pixels /\ i \in x..x + Advance - 1 /\ j \in 0..Rise - 1
      BY <1>1, <1>2 DEF Cell
    <2>2. <<i, j>> \in after <=>
            /\ InBitmap(g, x, i, j)
            /\ <<P(g, x, i), Q(g, x, i, j)>> \in g.lit
      BY <2>1 DEF DrawBitmap
    <2>3. <<i, j>> \in Drawing(place, icon) <=> <<i - x - g.left, j - g.top>> \in g.lit
      BY <1>2 DEF Drawing
    <2>4. CASE InBitmap(g, x, i, j)
      <3>1. P(g, x, i) = i - x - g.left
        BY <1>1, <2>4, ColumnOfBitmap DEF InBitmap
      <3>2. Q(g, x, i, j) = j - g.top
        BY <1>1, <2>1, <2>4, RowOfBitmap
      <3>3. QED
        BY <2>2, <2>3, <2>4, <3>1, <3>2
    <2>5. CASE ~InBitmap(g, x, i, j)
      <3>1. <<i - x - g.left, j - g.top>> \notin (0..g.width - 1) \X (0..g.rows - 1)
        BY <1>1, <2>5 DEF InBitmap
      <3>2. QED
        BY <1>1, <2>2, <2>3, <2>5, <3>1
    <2>6. QED
      BY <2>4, <2>5
  <1>3. Cell(place) \subseteq Nat \X Nat
    BY ScreenAssumption DEF Cell, Pixels
  <1>4. Drawing(place, icon) \subseteq Cell(place)
    BY DEF Drawing
  <1>5. QED
    BY <1>2, <1>3, <1>4

\* It leaves the cells of the other places alone, and the frame on the screen.
LEMMA OtherCellsAreKept ==
  ASSUME NEW place \in Places, NEW other \in Places, other # place,
         NEW g, NEW frame \in SUBSET Pixels
  PROVE  DrawBitmap(frame, g, Columns[place]) \cap Cell(other) = frame \cap Cell(other)
  <1> DEFINE drawn == (Columns[place]..Columns[place] + Advance - 1) \X (0..Rise - 1)
  <1>1. Columns[place] + Advance <= Columns[other] \/ Columns[other] + Advance <= Columns[place]
    BY ScreenAssumption DEF Places
  <1>2. Columns[place] \in Nat /\ Columns[other] \in Nat /\ Advance \in Nat
    BY ScreenAssumption DEF Places
  <1>3. \A at \in Cell(other) : at \notin drawn
    BY <1>1, <1>2, ScreenAssumption DEF Cell, Pixels
  <1>4. QED
    BY <1>3 DEF DrawBitmap

LEMMA FrameStaysOnScreen ==
  ASSUME NEW g, NEW x, NEW frame \in SUBSET Pixels
  PROVE  DrawBitmap(frame, g, x) \in SUBSET Pixels
  BY DEF DrawBitmap

\* For every answer there is an icon.
LEMMA IconForIsIcon == \A place \in Places : IconFor(place) \in Icons
  BY DEF Places, IconFor, LibrespotStatusToIcon, WifiStatusToIcon, Icons

\* Half of the frame is enough for all of the cells.
LEMMA HalfHasCells ==
  ASSUME NEW place \in Places, NEW frame \in SUBSET Pixels
  PROVE  {at \in frame : at[2] < ScreenHeight \div 2} \cap Cell(place)
           = frame \cap Cell(place)
  <1>1. \A at \in Cell(place) : at[2] \in Nat /\ at[2] < Rise
    BY ScreenAssumption DEF Cell, Pixels
  <1>2. \A at \in Cell(place) : at[2] < ScreenHeight \div 2
    BY <1>1, ScreenAssumption
  <1>3. QED
    BY <1>2

\* What the frame holds, and the history of icons it is compared with.
IconsInv == StatusTypeOK /\ FrameIsIcons

\* An icon put into its place becomes what is there, and changes no other place.
LEMMA PutIconKeepsIcons ==
  ASSUME IconsInv, NEW place \in Places, PutIcon(place)
  PROVE  IconsInv'
  <1> DEFINE icon == IconFor(place)
             frame == DrawBitmap(g_display, Glyphs[icon], Columns[place])
  <1>1. icon \in Icons /\ DOMAIN Glyphs = Icons
    BY IconForIsIcon, GlyphsAssumption
  <1>2. /\ g_display \in SUBSET Pixels
        /\ put \in [Places -> Icons \cup {Unset}]
        /\ synced \in [Places -> Icons \cup {Unset}]
        /\ next \in 1..5 /\ upper \subseteq Pixels /\ world \in Worlds
    BY <1>1 DEF IconsInv, StatusTypeOK
  <1>3. /\ put' = [put EXCEPT ![place] = icon]
        /\ g_display' = frame
        /\ next = place /\ next' = next + 1
        /\ world' = world /\ upper' = upper /\ synced' = synced
    BY DEF PutIcon
  <1>4. frame \in SUBSET Pixels
    BY <1>2, FrameStaysOnScreen
  <1>5. StatusTypeOK'
    BY <1>1, <1>2, <1>3, <1>4 DEF StatusTypeOK, Places
  <1>6. ASSUME NEW other \in Places, put'[other] # Unset
        PROVE  g_display' \cap Cell(other) = Drawing(other, put'[other])
    <2>1. CASE other = place
      BY <1>1, <1>2, <1>3, <2>1, CellIsDrawn
    <2>2. CASE other # place
      <3>1. put'[other] = put[other]
        BY <1>2, <1>3, <2>2
      <3>2. put[other] # Unset
        BY <1>6, <3>1
      <3>3. g_display \cap Cell(other) = Drawing(other, put[other])
        BY <3>2 DEF IconsInv, FrameIsIcons
      <3>4. frame \cap Cell(other) = g_display \cap Cell(other)
        <4>1. g_display \in SUBSET Pixels
          BY <1>2
        <4>2. QED
          BY <2>2, <4>1, OtherCellsAreKept
      <3>5. QED
        BY <1>3, <3>1, <3>3, <3>4
    <2>3. QED
      BY <2>1, <2>2
  <1>7. FrameIsIcons'
    BY <1>3, <1>6 DEF IconsInv, FrameIsIcons, Cell, Drawing
  <1>8. QED
    BY <1>5, <1>7 DEF IconsInv

\* The frame of any sequence of answers, glyphs that are not rendered included, shows
\* in each place the icon put there last, whatever malloc had left in it.
THEOREM FrameShowsIcons == StatusSpec => []IconsInv
  <1>1. StatusInit => IconsInv
    <2>1. SUFFICES ASSUME StatusInit PROVE StatusTypeOK /\ FrameIsIcons
      BY DEF IconsInv
    <2>2. put = [place \in Places |-> Unset] /\ synced = put /\ next = 1
      BY <2>1 DEF StatusInit
    <2>3. g_display \subseteq Pixels /\ upper \subseteq Pixels /\ world \in Worlds
      BY <2>1, GarbageAssumption DEF StatusInit
    <2>4. QED
      BY <2>2, <2>3 DEF StatusTypeOK, FrameIsIcons
  <1>2. ASSUME IconsInv, UNCHANGED <<put, g_display, upper, synced>>, StatusTypeOK'
        PROVE  IconsInv'
    BY <1>2 DEF IconsInv, FrameIsIcons, Cell, Drawing
  <1>3. ASSUME IconsInv, [StatusNext]_statusVars PROVE IconsInv'
    <2> USE DEF IconsInv, StatusTypeOK
    <2>1. CASE \E place \in Places : PutIcon(place)
      BY <1>3, <2>1, PutIconKeepsIcons
    <2>2. CASE PutIconFails \/ IconsSyncFails
      BY <1>2, <1>3, <2>2 DEF PutIconFails, IconsSyncFails, Places
    <2>3. CASE IconsSync
      <3>1. StatusTypeOK'
        BY <1>3, <2>3 DEF IconsSync
      <3>2. synced' = put /\ put' = put /\ g_display' = g_display
        BY <2>3 DEF IconsSync
      <3>3. ASSUME NEW place \in Places, put[place] # Unset
            PROVE  /\ g_display \cap Cell(place) = Drawing(place, put[place])
                   /\ upper' \cap Cell(place) = Drawing(place, put[place])
        BY <1>3, <2>3, <3>3, HalfHasCells DEF IconsSync, FrameIsIcons
      <3>4. QED
        BY <3>1, <3>2, <3>3 DEF FrameIsIcons, Cell, Drawing
    <2>4. CASE PrintNext \/ LockAfterIcons \/ LibrespotStep \/ UNCHANGED statusVars
      BY <1>2, <1>3, <2>4 DEF PrintNext, LockAfterIcons, LibrespotStep, statusVars, icons
    <2>5. CASE RefreshAll
      BY <1>2, <1>3, <2>5 DEF RefreshAll
    <2>6. CASE WorldChanges
      BY <1>2, <1>3, <2>6 DEF WorldChanges, icons
    <2>7. QED
      BY <1>3, <2>1, <2>2, <2>3, <2>4, <2>5, <2>6 DEF StatusNext, MainStep
  <1>4. QED
    BY <1>1, <1>3, PTL DEF StatusSpec

\* Each place of the frame is the icon put there last, and each place of the display
\* the one put there when it was last written, all of it and nothing else.
THEOREM FrameIsAlwaysIcons == StatusSpec => []FrameIsIcons
  BY FrameShowsIcons, PTL DEF IconsInv

-----------------------------------------------------------------------------
\* bt_is_connected, with its two passes over the objects and its list, finds out whether
\* any object is a connected device; without an answer, that none is.
LEMMA IsConnectedIsTrue ==
  ASSUME NEW reply \in Replies
  PROVE  IsConnected(reply) <=> AnyConnected(reply)
  <1> USE DEF AnyConnected
  <1> DEFINE all == DevicesIn(reply.objects)
  <1>1. CASE reply.failed
    <2>1. reply = Failure
      BY <1>1, RepliesAssumption
    <2>2. DOMAIN reply.objects = {}
      BY <2>1 DEF Failure
    <2>3. DeviceListGet(reply).list = {}
      BY <1>1 DEF DeviceListGet
    <2>4. QED
      BY <2>2, <2>3 DEF IsConnected
  <1>2. CASE ~reply.failed
    <2>1. reply.objects \in Seq(Object)
      <3>1. reply # Failure
        BY <1>2 DEF Failure
      <3>2. QED
        BY <3>1, RepliesAssumption
    <2>2. IsFiniteSet(all)
      <3>1. IsFiniteSet(DOMAIN reply.objects)
        BY <2>1, FS_Interval
      <3>2. QED
        BY <3>1, FS_Subset DEF DevicesIn
    <2>3. DeviceListGet(reply).list = IF Cardinality(all) > 0 THEN all ELSE {}
      BY <1>2 DEF DeviceListGet, DevicesIter
    <2>4. Cardinality(all) > 0 \/ all = {}
      BY <2>2, FS_EmptySet, FS_CardinalityType
    <2>5. DeviceListGet(reply).list = all
      BY <2>3, <2>4
    <2>6. QED
      BY <2>5 DEF IsConnected, DevicesIn
  <1>3. QED
    BY <1>1, <1>2

\* icons_put in the second place: "connected" is shown exactly if some device of any
\* in BlueZ's answer of that moment is connected.
BluetoothIconIsTrue ==
  [][PutIcon(2) => (put'[2] = "bt" <=> AnyConnected(world.bluetooth))]_statusVars

\* Whatever objects BlueZ lists, in whatever order, and however often it gives no answer:
\* the passes over them and the list made of them never change what the icon says.
THEOREM BluetoothIconTells == StatusSpec => BluetoothIconIsTrue
  <1>1. ASSUME StatusTypeOK, PutIcon(2)
        PROVE  put'[2] = "bt" <=> AnyConnected(world.bluetooth)
    <2>1. put'[2] = IconFor(2)
      BY <1>1 DEF PutIcon, StatusTypeOK, Places
    <2>2. IconFor(2) = IF IsConnected(world.bluetooth) THEN "bt" ELSE "bt_off"
      BY DEF IconFor
    <2>3. IsConnected(world.bluetooth) <=> AnyConnected(world.bluetooth)
      BY <1>1, WorldsAssumption, IsConnectedIsTrue DEF StatusTypeOK
    <2>4. QED
      BY <2>1, <2>2, <2>3
  <1>2. IconsInv /\ [StatusNext]_statusVars
          => [PutIcon(2) => (put'[2] = "bt" <=> AnyConnected(world.bluetooth))]_statusVars
    BY <1>1 DEF IconsInv
  <1>3. QED
    BY FrameShowsIcons, <1>2, PTL DEF StatusSpec, BluetoothIconIsTrue
=============================================================================
