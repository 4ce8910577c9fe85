--------------------------- MODULE TrackRegister ----------------------------
(***************************************************************************)
(* What the display promises of the tracks, with threads, lines and mutex  *)
(* left out: an event stores a whole track in one step, and the display is *)
(* refreshed with the whole track stored last, never with an earlier one.  *)
(***************************************************************************)
CONSTANTS Tracks, Nothing

VARIABLES stored, shown

vars == <<stored, shown>>

Init == stored = Nothing /\ shown = Nothing

Store == stored' \in Tracks /\ UNCHANGED shown

Show == shown' = stored /\ UNCHANGED stored

Next == Store \/ Show

Spec == Init /\ [][Next]_vars
=============================================================================
