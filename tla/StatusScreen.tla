---------------------------- MODULE StatusScreen ----------------------------
(***************************************************************************)
(* The status screen of ui_process: the main thread asks librespot.c, BlueZ*)
(* and iwd for what is to be shown, draws an icon for each answer into a   *)
(* frame of its own, writes the frame to the upper half of the display,    *)
(* and prints the track (TrackInfo) into the lower one.  Meanwhile the     *)
(* world goes on: the three answers are not of one moment.                 *)
(***************************************************************************)
EXTENDS TrackInfo, BtDevices, FiniteSets

CONSTANTS Worlds,        \* g_status and the answers of BlueZ and iwd that may go together
          ScreenWidth, ScreenHeight,
          Columns,       \* where the three icons start
          Advance, Rise, \* width and height of every icon's cell
          Glyphs,        \* the bitmap of each icon, and where it lies in the cell
          Garbage,       \* the pixels that malloc leaves lit in the frame
          Length         \* of each text

ASSUME WorldsAssumption ==
  \A w \in Worlds : /\ w.librespot \in {"PLAYING", "PAUSED", "UNAVAILABLE"}
                    /\ w.bluetooth \in Replies

Icons ==
  {"play", "pause", "warning", "bt", "bt_off", "wifi", "wifi_wait", "wifi_off"}

\* Each place ends before the next one begins, and lies in the half that is written.
ASSUME ScreenAssumption ==
  /\ {ScreenWidth, ScreenHeight, Advance, Rise} \subseteq Nat
  /\ Columns \in [1..3 -> Nat]
  /\ \A p, q \in 1..3 : p < q => Columns[p] + Advance <= Columns[q]
  /\ Rise <= ScreenHeight \div 2

\* In the font, no icon begins left of its origin or above the line.
ASSUME GlyphsAssumption ==
  /\ DOMAIN Glyphs = Icons
  /\ \A icon \in Icons : LET g == Glyphs[icon] IN
       /\ {g.left, g.top, g.width, g.rows} \subseteq Nat
       /\ g.lit \subseteq (0..g.width - 1) \X (0..g.rows - 1)

Longest == 1023  \* what g_buffer of librespot.c holds beside its final zero

ASSUME LengthAssumption == NoText \notin Texts /\ Length \in [Texts -> 0..Longest]

VARIABLES
  world,      \* the answers there are to be had: librespot, bluetooth, wifi
  next,       \* the icon to be put next; 4: icons_sync, 5: the text
  put,        \* history: the icon last put in each place
  g_display,  \* the pixels that are lit in the frame
  upper,      \* and in the upper half of the display
  synced      \* history: the icons that were put when it was written last

icons      == <<next, put, g_display, upper, synced>>
statusVars == <<vars, world, icons>>

Places == 1..3
Unset  == "unset"
Pixels == (0..ScreenWidth - 1) \X (0..ScreenHeight - 1)

ASSUME GarbageAssumption == Garbage \subseteq Pixels

StatusTypeOK ==
  /\ world \in Worlds
  /\ next \in 1..5
  /\ put \in [Places -> DOMAIN Glyphs \cup {Unset}]
  /\ g_display \subseteq Pixels
  /\ upper \subseteq Pixels
  /\ synced \in [Places -> DOMAIN Glyphs \cup {Unset}]

\* icons_init: the frame is as malloc gives it, and icons_clear is never called.
StatusInit ==
  /\ Init
  /\ world \in Worlds
  /\ next = 1
  /\ put = [place \in Places |-> Unset]
  /\ g_display = Garbage
  /\ upper = {}
  /\ synced = [place \in Places |-> Unset]

-----------------------------------------------------------------------------
(***************************************************************************)
(* What there is to show.                                                  *)
(***************************************************************************)
LibrespotStatusToIcon(status) ==
  CASE status = "PLAYING" -> "play"
    [] status = "PAUSED" -> "pause"
    [] OTHER -> "warning"

\* A state such as "roaming", and no answer, leave WIFI_STATUS_ERROR.
GetWifiStatus(answer) ==
  IF answer \in {"connected", "connecting", "disconnected"} THEN answer ELSE "error"

WifiStatusToIcon(status) ==
  CASE status = "connected" -> "wifi"
    [] status = "connecting" -> "wifi_wait"
    [] OTHER -> "wifi_off"

IconFor(place) ==
  CASE place = 1 -> LibrespotStatusToIcon(world.librespot)
    [] place = 2 -> IF IsConnected(world.bluetooth) THEN "bt" ELSE "bt_off"
    [] place = 3 -> WifiStatusToIcon(GetWifiStatus(world.wifi))

-----------------------------------------------------------------------------
(***************************************************************************)
(* icons.c.                                                                *)
(***************************************************************************)
InBitmap(g, x, i, j) ==
  /\ i >= x + g.left /\ j >= g.top
  /\ i < x + g.left + g.width /\ j < g.top + g.rows

\* p and q, which run through the bitmap beside i and j: p counts columns from the
\* bitmap's first on, q the pixels drawn so far in this column.
P(g, x, i) == Cardinality({c \in x..i - 1 : c >= x + g.left})
Q(g, x, i, j) == Cardinality({r \in 0..j - 1 : <<i, r>> \in Pixels /\ InBitmap(g, x, i, r)})

\* Faulty DrawBitmap: what is outside of the bitmap is left as it is.
DrawBitmapOver(frame, g, x) ==
  LET cell == {at \in (x..x + Advance - 1) \X (0..Rise - 1) : at \in Pixels}
      drawn == {at \in cell : InBitmap(g, x, at[1], at[2])}
      lit == {at \in drawn : <<P(g, x, at[1]), Q(g, x, at[1], at[2])>> \in g.lit}
  IN (frame \ drawn) \cup lit

\* draw_bitmap, with y = 0: outside of the screen nothing, outside of the bitmap the
\* pixel is cleared, inside it is the bitmap's.
DrawBitmap(frame, g, x) ==
  LET cell == {at \in (x..x + Advance - 1) \X (0..Rise - 1) : at \in Pixels}
      lit == {at \in cell : /\ InBitmap(g, x, at[1], at[2])
                            /\ <<P(g, x, at[1]), Q(g, x, at[1], at[2])>> \in g.lit}
  IN (frame \ cell) \cup lit

\* The answer is asked for, and its icon put, place by place.
PutIcon(place) ==
  /\ mpc = "idle"
  /\ next = place
  /\ put' = [put EXCEPT ![place] = IconFor(place)]
  /\ g_display' = DrawBitmap(g_display, Glyphs[IconFor(place)], Columns[place])
  /\ next' = next + 1
  /\ UNCHANGED <<vars, world, upper, synced>>

\* FT_Load_Glyph or FT_Render_Glyph fails: the last icon stays.
PutIconFails ==
  /\ mpc = "idle"
  /\ next \in Places
  /\ next' = next + 1
  /\ UNCHANGED <<vars, world, put, g_display, upper, synced>>

\* icons_sync writes half of the frame.
IconsSync ==
  /\ next = 4
  /\ upper' = {at \in g_display : at[2] < ScreenHeight \div 2}
  /\ synced' = put
  /\ next' = 5
  /\ UNCHANGED <<vars, world, put, g_display>>

\* Its write fails, or there is no file to write to, since the open of the last
\* icons_sync failed: the results of both are ignored, and the next one may succeed.
IconsSyncFails ==
  /\ next = 4
  /\ next' = 5
  /\ UNCHANGED <<vars, world, put, g_display, upper, synced>>

-----------------------------------------------------------------------------
(***************************************************************************)
(* print_scrolling: the part of a text that is longer than the window goes *)
(* to and fro, with a pause of SCROLL_PADDING steps at either end.         *)
(***************************************************************************)
WINDOW_WIDTH   == 16
SCROLL_PADDING == 5
Word           == 2^16  \* bound: of an unsigned long

ToInt(unsigned) == IF unsigned < Word \div 2 THEN unsigned ELSE unsigned - Word

Amplitude(len) == len - WINDOW_WIDTH + 2 * SCROLL_PADDING

Distance(n) == IF n < 0 THEN -n ELSE n

\* Faulty ScrollPos: the end of the text is not looked at.
ScrollPosBeyond(len, ticks) ==
  LET amp == Amplitude(len)
      pos == Distance(ToInt(((ticks % (2 * amp)) - amp) % Word)) - SCROLL_PADDING
  IN IF pos < 0 THEN 0 ELSE pos

\* The first character shown, millis() / 200 being ticks.
ScrollPos(len, ticks) ==
  LET amp == Amplitude(len)
      pos == Distance(ToInt(((ticks % (2 * amp)) - amp) % Word)) - SCROLL_PADDING
  IN CASE pos < 0 -> 0
       [] pos > len - WINDOW_WIDTH -> len - WINDOW_WIDTH
       [] OTHER -> pos

\* The positions that a line takes as time passes.
Positions(len) ==
  IF len <= WINDOW_WIDTH THEN {0}
  ELSE {ScrollPos(len, ticks) : ticks \in 0..2 * Amplitude(len) - 1}

-----------------------------------------------------------------------------
\* Somebody plays, pauses, connects or moves away, at any time.
WorldChanges ==
  /\ world' \in Worlds
  /\ UNCHANGED <<vars, icons>>

\* The text follows the icons, and the icons of the next iteration the text.
LockAfterIcons == next = 5 /\ LockForPrint /\ UNCHANGED <<world, icons>>

PrintNext == PrintLine /\ UNCHANGED <<world, icons>>

RefreshAll ==
  /\ RefreshAndUnlock
  /\ next' = 1
  /\ UNCHANGED <<world, put, g_display, upper, synced>>

MainStep ==
  \/ \E place \in Places : PutIcon(place)
  \/ PutIconFails
  \/ IconsSync
  \/ IconsSyncFails
  \/ PrintNext
  \/ RefreshAll

LibrespotStep == (LockForUpdate \/ Update) /\ UNCHANGED <<world, icons>>

StatusNext == WorldChanges \/ MainStep \/ LockAfterIcons \/ LibrespotStep

StatusSpec == StatusInit /\ [][StatusNext]_statusVars

(***************************************************************************)
(* TrackInfo's fairness; calls over D-Bus are answered or give up, a glyph *)
(* that is in the font is rendered as soon as there is memory, and not     *)
(* every write to the display fails.                                       *)
(***************************************************************************)
StatusFairness ==
  /\ WF_statusVars(Update /\ UNCHANGED <<world, icons>>)
  /\ WF_statusVars(MainStep)
  /\ SF_statusVars(LockAfterIcons)
  /\ \A place \in Places : SF_statusVars(PutIcon(place))
  /\ SF_statusVars(IconsSync)

FairStatusSpec == StatusSpec /\ StatusFairness

-----------------------------------------------------------------------------
\* The part of the cell that is on the screen, and what an icon should look like there.
Cell(place) ==
  {at \in Pixels : at[1] - Columns[place] \in 0..Advance - 1 /\ at[2] < Rise}

Drawing(place, icon) ==
  LET g == Glyphs[icon]
  IN {at \in Cell(place) : <<at[1] - Columns[place] - g.left, at[2] - g.top>> \in g.lit}

\* Whatever was there before, garbage or another icon, each place of the frame is
\* exactly the icon put there last, and each place of the display the one put there
\* when it was last written: nothing of an old one shines through, no icon reaches into
\* its neighbour's place, and none is cut off by the half that is written.
FrameIsIcons ==
  \A place \in Places :
    /\ put[place] # Unset =>
         g_display \cap Cell(place) = Drawing(place, put[place])
    /\ synced[place] # Unset =>
         upper \cap Cell(place) = Drawing(place, synced[place])

\* Some object in BlueZ's answer is a device, and connected.
AnyConnected(reply) ==
  \E i \in DOMAIN reply.objects : reply.objects[i].device /\ reply.objects[i].connected

\* What a user would say the icons should be: by librespot's own state, by any of the
\* devices, by iwd's own word.
TrueIcon(place) ==
  CASE place = 1 ->
         [PLAYING |-> "play", PAUSED |-> "pause", UNAVAILABLE |-> "warning"][world.librespot]
    [] place = 2 -> IF AnyConnected(world.bluetooth) THEN "bt" ELSE "bt_off"
    [] place = 3 /\ world.wifi = "connected" -> "wifi"
    [] place = 3 /\ world.wifi = "connecting" -> "wifi_wait"
    [] place = 3 /\ world.wifi \notin {"connected", "connecting"} -> "wifi_off"

\* Once the world has come to rest, the display shows it as it is: librespot, some
\* device of any in the list, Wi-Fi, each in its place.
IconsFollow ==
  <>[][FALSE]_world =>
    <>[](\A place \in Places : upper \cap Cell(place) = Drawing(place, TrueIcon(place)))

\* A line too long for the window scrolls to its very end, and never beyond it.
ScrollShowsAll ==
  \A k \in Lines :
    window[k] # NoText =>
      Positions(Length[window[k]]) =
        0..(IF Length[window[k]] <= WINDOW_WIDTH THEN 0
            ELSE Length[window[k]] - WINDOW_WIDTH)
=============================================================================
