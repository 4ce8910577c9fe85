------------------------------- MODULE Player -------------------------------
(***************************************************************************)
(* The tag thread together with what it drives: commands travel to         *)
(* librespot on a connection each (librespot_send_cmd without a response), *)
(* the buttons send theirs from the main thread, a phone may take over the *)
(* player, and librespot may die and is restarted with nothing loaded.     *)
(*                                                                         *)
(* librespot is external: it takes its connections in the order they were  *)
(* made, and its listen queue is bounded: connect then waits, or gives up. *)
(***************************************************************************)
EXTENDS TagReader, Sequences

CONSTANT Backlog   \* connections that librespot's listen queue holds

ASSUME BacklogAssumption == Backlog \in Nat \ {0}

VARIABLES
  up,       \* librespot listens
  inbox,    \* commands sent and not yet executed
  track,    \* what librespot has loaded; NoUri: nothing
  playing,
  spoilt    \* history: librespot does not have what the thread sent last, for that
            \* failed or librespot has died, or has had another command since

librespot  == <<up, inbox, track, playing>>
playerVars == <<vars, librespot, spoilt>>

\* "skip" stands for next and previous, which do the same to the state.
ButtonCommands == {"play_pause", "skip"}

Commands == [name : {"load"}, uri : Spotify]
            \cup [name : {"pause"} \cup ButtonCommands, uri : {NoUri}]

PlayerInit ==
  /\ Init
  /\ up = FALSE
  /\ inbox = <<>>
  /\ track = NoUri
  /\ playing = FALSE
  /\ spoilt = FALSE

-----------------------------------------------------------------------------
\* Faulty librespot_send_cmd: the newest connection is served first.
SendOvertakes(name, uri) ==
  /\ \/ UNCHANGED inbox
     \/ /\ up
        /\ Len(inbox) < Backlog
        /\ inbox' = <<[name |-> name, uri |-> uri]>> \o inbox
  /\ UNCHANGED <<up, track, playing>>

(***************************************************************************)
(* librespot_send_cmd(cmd, false): a command whose socket, connect or send *)
(* fails is gone, for no caller looks at the result; with librespot down   *)
(* every connection is refused.                                            *)
(***************************************************************************)
librespot_send_cmd(name, uri) ==
  /\ \/ UNCHANGED inbox
     \/ /\ up
        /\ Len(inbox) < Backlog
        /\ inbox' = Append(inbox, [name |-> name, uri |-> uri])
  /\ UNCHANGED <<up, track, playing>>

ThreadLoads ==
  /\ SendLoad
  /\ librespot_send_cmd("load", g_current_uri)
  /\ spoilt' = (inbox' = inbox)

\* Faulty ThreadPauses: the command of the menu's item is sent.
ThreadToggles ==
  /\ SendPause
  /\ librespot_send_cmd("play_pause", NoUri)
  /\ spoilt' = (up /\ inbox' = inbox)

\* A librespot that is down has nothing to be paused.
ThreadPauses ==
  /\ SendPause
  /\ librespot_send_cmd("pause", NoUri)
  /\ spoilt' = (up /\ inbox' = inbox)

\* menu_action_play_pause, menu_action_next and menu_action_prev.
ButtonPressed ==
  /\ Running
  /\ \E name \in ButtonCommands : librespot_send_cmd(name, NoUri)
  /\ spoilt' = (spoilt \/ inbox' # inbox)
  /\ UNCHANGED vars

TagSide == LocalStep \/ User \/ Deinit \/ Crash \/ Restart

TagSideStep == TagSide /\ UNCHANGED <<librespot, spoilt>>

-----------------------------------------------------------------------------
(***************************************************************************)
(* librespot.                                                              *)
(***************************************************************************)
Execute ==
  /\ up
  /\ inbox # <<>>
  /\ inbox' = Tail(inbox)
  /\ LET cmd == Head(inbox) IN
       \/ cmd.name = "load" /\ track' = cmd.uri /\ playing' = TRUE
       \/ cmd.name = "pause" /\ playing' = FALSE /\ UNCHANGED track
       \/ /\ cmd.name = "play_pause"
          /\ playing' = (~playing /\ track # NoUri)
          /\ UNCHANGED track
       \/ /\ cmd.name = "skip"
          /\ playing' \in {playing, track # NoUri}
          /\ UNCHANGED track
  /\ UNCHANGED <<vars, up, spoilt>>

LibrespotStarts ==
  /\ ~up
  /\ up' = TRUE
  /\ UNCHANGED <<vars, inbox, track, playing, spoilt>>

LibrespotDies ==
  /\ up
  /\ up' = FALSE
  /\ inbox' = <<>>
  /\ track' = NoUri
  /\ playing' = FALSE
  /\ spoilt' = (sent # NoUri)
  /\ UNCHANGED vars

\* Another client of the same account starts, pauses or replaces the music.
Phone ==
  /\ up
  /\ track' \in Spotify
  /\ playing' \in BOOLEAN
  /\ spoilt' = TRUE
  /\ UNCHANGED <<vars, up, inbox>>

PlayerNext ==
  \/ TagSideStep \/ ThreadLoads \/ ThreadPauses \/ ButtonPressed
  \/ Execute \/ LibrespotStarts \/ LibrespotDies \/ Phone

PlayerSpec == PlayerInit /\ [][PlayerNext]_playerVars

\* As in TagReader; librespot is restarted and serves its connections, and a
\* connect of the thread that waits for a place gets one or gives up.
PlayerFairness ==
  /\ WF_playerVars((LocalStep /\ TagSideStep) \/ ThreadLoads \/ ThreadPauses)
  /\ WF_playerVars(Restart /\ TagSideStep)
  /\ SF_playerVars(SearchOk /\ TagSideStep)
  /\ SF_playerVars(ReadOk /\ TagSideStep)
  /\ WF_playerVars(LibrespotStarts \/ Execute)

FairPlayerSpec == PlayerSpec /\ PlayerFairness

-----------------------------------------------------------------------------
AtRest == pc = "loop" /\ inbox = <<>> /\ ~spoilt

\* With no tag and nothing in flight there is no music, unless the pause failed, a
\* process died with a tag or somebody else has started it.
SilentWithoutTag == AtRest /\ g_current_uri = NoUri /\ ~orphaned => ~playing

\* With a tag and nothing in flight its music plays, unless the load failed, librespot
\* has died since (neither command is ever sent again) or somebody else interferes.
PlaysTheTag ==
  AtRest /\ g_current_uri # NoUri => playing /\ track = g_current_uri

\* When a tag is taken away the music ends, whatever the buttons and the phone did
\* before, unless the pause fails, somebody starts it again or the process is on its
\* way down.
RemovalSilences ==
  field = NoTag /\ tag_present
    ~> \/ ~playing
       \/ pc = "loop" /\ ~tag_present /\ spoilt
       \/ field # NoTag \/ ~g_is_running \/ ~Running

\* The music of a tag that stays on the reader is played in the end, unless the load
\* fails, librespot dies or somebody interferes once the tag is loaded, or the
\* process is on its way down.
TagIsPlayed ==
  \A t \in Tags :
    field = t /\ UriOf(t) # NoUri
      ~> \/ playing /\ track = UriOf(t)
         \/ pc = "loop" /\ prev_serial = t /\ spoilt
         \/ ~up \/ field # t \/ ~g_is_running \/ ~Running
=============================================================================
