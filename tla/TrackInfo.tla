----------------------------- MODULE TrackInfo ------------------------------
(***************************************************************************)
(* Artists, album and title of the track: the librespot thread replaces    *)
(* them one by one (ui_update_track_info) while the main thread prints     *)
(* them one by one (ui_process); g_mutex keeps the two apart.              *)
(***************************************************************************)
EXTENDS Naturals

CONSTANTS Tracks,  \* what track_changed events say: a text for each line
          Texts,
          NoText   \* the NULL of a line that the event did not have

Lines == 1..3

Nothing == [l \in Lines |-> NoText]

ASSUME TracksAssumption == Tracks \subseteq [Lines -> Texts \cup {NoText}]

VARIABLES
  mutex,   \* who holds g_mutex: "none", "librespot" or "main"
  lpc, l,  \* the librespot thread: where it is, and at which line
  event,   \* the event it is about to store
  info,    \* g_artists, g_album and g_title
  mpc, m,  \* the main thread: where it is, and at which line
  window,  \* what it has printed into g_status_win
  shown    \* what wrefresh has put on the display

librespot == <<lpc, l, event, info>>
main      == <<mpc, m, window, shown>>
vars      == <<mutex, librespot, main>>

Infos == [Lines -> Texts \cup {NoText}]

TypeOK ==
  /\ mutex \in {"none", "librespot", "main"}
  /\ lpc \in {"idle", "free", "store"}
  /\ l \in 1..4
  /\ event \in Infos
  /\ info \in Infos
  /\ mpc \in {"idle", "print"}
  /\ m \in 1..4
  /\ window \in Infos
  /\ shown \in Infos

Init ==
  /\ mutex = "none"
  /\ lpc = "idle" /\ l = 1
  /\ event = Nothing
  /\ info = Nothing
  /\ mpc = "idle" /\ m = 1
  /\ window = Nothing
  /\ shown = Nothing

-----------------------------------------------------------------------------
(***************************************************************************)
(* ui_update_track_info, on the librespot thread.                          *)
(***************************************************************************)
LockForUpdate ==
  /\ lpc = "idle"
  /\ mutex = "none"
  /\ mutex' = "librespot"
  /\ event' \in Tracks
  /\ lpc' = "free"
  /\ l' = 1
  /\ UNCHANGED <<info, main>>

FreeLine ==
  /\ lpc = "free"
  /\ l \in Lines
  /\ info' = [info EXCEPT ![l] = NoText]
  /\ l' = l + 1
  /\ UNCHANGED <<mutex, lpc, event, main>>

AllFreed ==
  /\ lpc = "free"
  /\ l = 4
  /\ lpc' = "store"
  /\ l' = 1
  /\ UNCHANGED <<mutex, event, info, main>>

StoreLine ==
  /\ lpc = "store"
  /\ l \in Lines
  /\ info' = [info EXCEPT ![l] = event[l]]
  /\ l' = l + 1
  /\ UNCHANGED <<mutex, lpc, event, main>>

UnlockAfterUpdate ==
  /\ lpc = "store"
  /\ l = 4
  /\ lpc' = "idle"
  /\ mutex' = "none"
  /\ UNCHANGED <<l, event, info, main>>

-----------------------------------------------------------------------------
\* Faulty LockForPrint: the lines are printed without the mutex.
LockForPrintNot ==
  /\ mpc = "idle"
  /\ window' = Nothing
  /\ mpc' = "print"
  /\ m' = 1
  /\ UNCHANGED <<mutex, librespot, shown>>

(***************************************************************************)
(* The status screen of ui_process, on the main thread.                    *)
(***************************************************************************)
LockForPrint ==
  /\ mpc = "idle"
  /\ mutex = "none"
  /\ mutex' = "main"
  /\ window' = Nothing
  /\ mpc' = "print"
  /\ m' = 1
  /\ UNCHANGED <<librespot, shown>>

PrintLine ==
  /\ mpc = "print"
  /\ m \in Lines
  /\ window' = [window EXCEPT ![m] = info[m]]
  /\ m' = m + 1
  /\ UNCHANGED <<mutex, librespot, mpc, shown>>

\* Faulty RefreshAndUnlock: the window is printed and not refreshed.
RefreshForgotten ==
  /\ mpc = "print"
  /\ m = 4
  /\ mutex' = "none"
  /\ mpc' = "idle"
  /\ UNCHANGED <<librespot, m, window, shown>>

RefreshAndUnlock ==
  /\ mpc = "print"
  /\ m = 4
  /\ shown' = window
  /\ mutex' = "none"
  /\ mpc' = "idle"
  /\ UNCHANGED <<librespot, m, window>>

-----------------------------------------------------------------------------
Update == FreeLine \/ AllFreed \/ StoreLine \/ UnlockAfterUpdate

ShowStatus == PrintLine \/ RefreshAndUnlock

Next == LockForUpdate \/ Update \/ LockForPrint \/ ShowStatus

Spec == Init /\ [][Next]_vars

\* Who holds the mutex goes on and gives it back; the main thread, whose menus
\* time out, comes back to the status screen and gets the mutex.
Fairness ==
  /\ WF_vars(Update)
  /\ WF_vars(ShowStatus)
  /\ SF_vars(LockForPrint)

FairSpec == Spec /\ Fairness

-----------------------------------------------------------------------------
\* The display never mixes two tracks, nor shows one that is half replaced.
ShowsOneTrack == shown \in Tracks \cup {Nothing}

\* While a thread is between its lock and its unlock, the mutex is its own, and
\* what it has dealt with so far is what it works on; at rest the lines are those
\* of one event.
Inv ==
  /\ TypeOK
  /\ mutex = "librespot" <=> lpc # "idle"
  /\ mutex = "main" <=> mpc # "idle"
  /\ lpc # "idle" => event \in Tracks
  /\ lpc = "idle" => info \in Tracks \cup {Nothing}
  /\ lpc = "store" => \A k \in Lines : k < l => info[k] = event[k]
  /\ mpc = "print" => \A k \in Lines : k < m => window[k] = info[k]
  /\ ShowsOneTrack

\* The two threads together are a register of whole tracks: from its lock on, an
\* event's track is the one that counts, and each wrefresh shows the last of them,
\* not one that has been replaced since it was printed.
Register == INSTANCE TrackRegister WITH
  stored <- IF lpc = "idle" THEN info ELSE event,
  shown  <- shown

ShowsLastTrack == Register!Spec

\* A track whose event has been stored is shown in the end, or the next one is on
\* its way.
TrackIsShown ==
  \A t \in Tracks :
    lpc = "store" /\ event = t ~> shown = t \/ lpc = "free"
=============================================================================
