----------------------------- MODULE TagSession -----------------------------
(***************************************************************************)
(* What the tag side of pp3-core promises to the music player, with the    *)
(* radio, the retries and the callbacks left out: a tag opens a session,   *)
(* the lamp is lit before the one "load" of the session is sent, and a     *)
(* "pause" is sent before another session may load anything.  Only the     *)
(* death of the process ends a session without its pause, and then the     *)
(* player is left with the command it had.                                 *)
(***************************************************************************)
CONSTANTS Uris,    \* the addresses a session may load
          Pause    \* the command sent at the end of a session

VARIABLES phase,   \* where the session is
          sent     \* the last command the music player was sent

vars == <<phase, sent>>

Phases == {"idle", "lit", "following", "leaving"}

Init == phase = "idle" /\ sent = Pause

LightUp == phase = "idle" /\ phase' = "lit" /\ UNCHANGED sent

Follow == /\ phase = "lit"
          /\ phase' = "following"
          /\ sent' \in Uris

\* A tag without an address leaves as any other, from a session never opened.
Leave == /\ phase \in {"idle", "following"}
         /\ phase' = "leaving"
         /\ UNCHANGED sent

SendPause == /\ phase = "leaving"
             /\ phase' = "idle"
             /\ sent' = Pause

Die == phase' = "idle" /\ UNCHANGED sent

Next == LightUp \/ Follow \/ Leave \/ SendPause \/ Die

Spec == Init /\ [][Next]_vars
=============================================================================
