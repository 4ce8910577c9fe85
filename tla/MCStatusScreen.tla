--------------------------- MODULE MCStatusScreen ---------------------------
(***************************************************************************)
(* StatusScreen with two tracks, one text that fits and one that scrolls,  *)
(* and a world in which music and headphones come and go.  Icons of a few  *)
(* pixels: full cells, bitmaps smaller than the cell, a third place beyond *)
(* the edge of the screen; a frame full of garbage.                        *)
(***************************************************************************)
EXTENDS StatusScreen

CONSTANTS a, b

\* The event of the second track has no album.
TwoTracks == {<<a, a, a>>, <<b, NoText, b>>}

Lengths == [t \in {a, b} |-> IF t = a THEN 16 ELSE 19]

Adapter == [device |-> FALSE, named |-> TRUE, connected |-> FALSE]
Device(isConnected) == [device |-> TRUE, named |-> TRUE, connected |-> isConnected]

TwoReplies == {Failure, Answer(<<Adapter, Device(TRUE), Device(FALSE)>>)}

TwoWorlds ==
  {[librespot |-> "PLAYING", bluetooth |-> Answer(<<Adapter, Device(TRUE), Device(FALSE)>>),
    wifi |-> "roaming"],
   [librespot |-> "UNAVAILABLE", bluetooth |-> Failure, wifi |-> "roaming"]}

Everything == Pixels

Full   == [left |-> 0, top |-> 0, width |-> 2, rows |-> 2, lit |-> (0..1) \X (0..1)]
Corner == [left |-> 1, top |-> 1, width |-> 1, rows |-> 1, lit |-> {<<0, 0>>}]
Stroke == [left |-> 0, top |-> 1, width |-> 2, rows |-> 1, lit |-> {<<0, 0>>, <<1, 0>>}]
Dots   == [left |-> 0, top |-> 0, width |-> 2, rows |-> 2, lit |-> {<<0, 1>>, <<1, 0>>}]

SmallGlyphs ==
  [icon \in {"play", "pause", "warning", "bt", "bt_off", "wifi", "wifi_wait", "wifi_off"} |->
     CASE icon \in {"play", "bt"} -> Full
       [] icon \in {"warning", "bt_off"} -> Corner
       [] icon \in {"pause", "wifi"} -> Dots
       [] OTHER -> Stroke]
SmallColumns == <<0, 3, 6>>
=============================================================================
