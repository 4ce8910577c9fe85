---------------------------- MODULE LibrespotLink ---------------------------
(***************************************************************************)
(* The status thread of librespot.c: it asks librespot for its status,     *)
(* waits up to a second for a player event, and reads one event at a time  *)
(* from the connections that the event handler script makes.               *)
(*                                                                         *)
(* librespot, which runs its handlers one after the other, is external.    *)
(***************************************************************************)
EXTENDS Naturals, Sequences

CONSTANTS BACKLOG,     \* connections that wait for accept
          MaxEvents,   \* bound on the events whose handler has not connected
          CoreCanDie   \* whether the process may be killed from outside

ASSUME BacklogIsPositive == BACKLOG \in Nat \ {0}
ASSUME BoundsAssumption == MaxEvents \in Nat /\ CoreCanDie \in BOOLEAN

VARIABLES
  pc,            \* "poll", "select", "read"; "done": returned; "off": no process
  g_is_running,
  g_status,
  conns,         \* the listen queue of the event socket
  conn,          \* the accepted connection, or NoConn
  up, player,    \* librespot: whether it listens, and what it does
  events,        \* events whose handler has not connected yet
  told           \* history: the playing or paused that librespot told last, or
                 \* Nothing if something happened since that no event tells

core   == <<pc, g_is_running, g_status>>
socket == <<conns, conn>>
spot   == <<up, player, events>>
vars   == <<core, socket, spot, told>>

Nothing == "nothing"

\* "stopped" stands for all the events of librespot that its handler passes on and
\* librespot_parse_event does not know: the end of a track, loading, the volume...
StatusEvents == {"playing", "paused"}
Events       == StatusEvents \cup {"track_changed", "stopped"}
Connections  == [event : Events, data : {"none", "written", "closed"}]
NoConn       == [event |-> "none", data |-> "none"]

Listening == pc \in {"poll", "select", "read"}

TypeOK ==
  /\ pc \in {"poll", "select", "read", "done", "off"}
  /\ g_is_running \in BOOLEAN
  /\ g_status \in {"UNAVAILABLE", "PLAYING", "PAUSED"}
  /\ conns \in Seq(Connections) /\ Len(conns) <= BACKLOG
  /\ conn \in Connections \cup {NoConn}
  /\ up \in BOOLEAN
  /\ player \in {"stopped"} \cup StatusEvents
  /\ events \in Seq(Events) /\ Len(events) <= MaxEvents
  /\ told \in StatusEvents \cup {Nothing}

Init ==
  /\ pc = "poll"
  /\ g_is_running = TRUE
  /\ g_status = "UNAVAILABLE"
  /\ conns = <<>>
  /\ conn = NoConn
  /\ up = FALSE
  /\ player = "stopped"
  /\ events = <<>>
  /\ told = Nothing

\* An event on its way that the status thread has yet to read.
StatusPending ==
  \/ conn.event \in StatusEvents
  \/ \E k \in DOMAIN conns : conns[k].event \in StatusEvents
  \/ \E k \in DOMAIN events : events[k] \in StatusEvents

-----------------------------------------------------------------------------
(***************************************************************************)
(* The status thread.                                                      *)
(***************************************************************************)
\* librespot answers "ok" within 100 ms; g_status stays what it was.
PollOk ==
  /\ pc = "poll"
  /\ g_is_running
  /\ up
  /\ pc' = "select"
  /\ UNCHANGED <<g_is_running, g_status, socket, spot, told>>

\* Faulty PollFails: the result of the poll is not looked at.
PollFailureIgnored ==
  /\ pc = "poll"
  /\ g_is_running
  /\ pc' = "select"
  /\ UNCHANGED <<g_is_running, g_status, socket, spot, told>>

\* It refuses the connection, or answers late or something else.
PollFails ==
  /\ pc = "poll"
  /\ g_is_running
  /\ g_status' = "UNAVAILABLE"
  /\ pc' = "select"
  /\ told' = IF StatusPending THEN told ELSE Nothing
  /\ UNCHANGED <<g_is_running, socket, spot>>

\* No connection within a second, or a signal that interrupts the wait.
SelectReturnsNone ==
  /\ pc = "select"
  /\ pc' = "poll"
  /\ UNCHANGED <<g_is_running, g_status, socket, spot, told>>

\* Faulty Accept: the connection that came last is served first.
AcceptNewest ==
  /\ pc = "select"
  /\ conns # <<>>
  /\ conn' = conns[Len(conns)]
  /\ conns' = SubSeq(conns, 1, Len(conns) - 1)
  /\ pc' = "read"
  /\ UNCHANGED <<g_is_running, g_status, spot, told>>

Accept ==
  /\ pc = "select"
  /\ conns # <<>>
  /\ conn' = Head(conns)
  /\ conns' = Tail(conns)
  /\ pc' = "read"
  /\ UNCHANGED <<g_is_running, g_status, spot, told>>

\* librespot_parse_event: what an event makes of the status.
StatusAfter(event) ==
  CASE event = "playing" -> "PLAYING"
    [] event = "paused"  -> "PAUSED"
    [] OTHER             -> g_status

\* Faulty ReadEvent: events are heeded only while librespot is available.
ReadEventWhenAvailable ==
  /\ pc = "read"
  /\ conn.data = "written"
  /\ g_status' = IF g_status = "UNAVAILABLE" THEN g_status
                 ELSE StatusAfter(conn.event)
  /\ conn' = NoConn
  /\ pc' = "poll"
  /\ UNCHANGED <<g_is_running, conns, spot, told>>

\* The one read of the connection waits for data; the connection is closed.
ReadEvent ==
  /\ pc = "read"
  /\ conn.data = "written"
  /\ g_status' = StatusAfter(conn.event)
  /\ conn' = NoConn
  /\ pc' = "poll"
  /\ UNCHANGED <<g_is_running, conns, spot, told>>

\* Faulty ReadNothing: an empty read is tried again.
ReadNothingAgain ==
  /\ pc = "read"
  /\ conn.data = "closed"
  /\ UNCHANGED vars

\* The handler has gone without a word: read returns nothing or an error.
ReadNothing ==
  /\ pc = "read"
  /\ conn.data = "closed"
  /\ conn' = NoConn
  /\ pc' = "poll"
  /\ UNCHANGED <<g_is_running, g_status, conns, spot, told>>

ThreadExit ==
  /\ pc = "poll"
  /\ ~g_is_running
  /\ pc' = "done"
  /\ UNCHANGED <<g_is_running, g_status, socket, spot, told>>

-----------------------------------------------------------------------------
(***************************************************************************)
(* The process: librespot_deinit, its end, and its restart by systemd.     *)
(***************************************************************************)
Deinit ==
  /\ Listening
  /\ g_is_running
  /\ g_is_running' = FALSE
  /\ UNCHANGED <<pc, g_status, socket, spot, told>>

\* The socket is closed with the process; so are the connections made to it.
ProcessEnds ==
  /\ pc = "done" \/ (CoreCanDie /\ Listening)
  /\ pc' = "off"
  /\ conns' = <<>>
  /\ conn' = NoConn
  /\ told' = Nothing
  /\ UNCHANGED <<g_is_running, g_status, spot>>

ProcessStarts ==
  /\ pc = "off"
  /\ pc' = "poll"
  /\ g_is_running' = TRUE
  /\ g_status' = "UNAVAILABLE"
  /\ told' = Nothing
  /\ UNCHANGED <<socket, spot>>

-----------------------------------------------------------------------------
(***************************************************************************)
(* librespot and its event handler script.                                 *)
(***************************************************************************)
\* Music starts or pauses: the event makes good whatever was missed before.
PlayerChanges ==
  /\ up
  /\ Len(events) < MaxEvents
  /\ \E event \in StatusEvents :
       /\ player' = event
       /\ events' = Append(events, event)
       /\ told' = event
  /\ UNCHANGED <<core, socket, up>>

\* The music ends: librespot tells it, but not in words that the player knows.
PlayerStops ==
  /\ up
  /\ Len(events) < MaxEvents
  /\ player' = "stopped"
  /\ events' = Append(events, "stopped")
  /\ UNCHANGED <<core, socket, up, told>>

TrackChanges ==
  /\ up
  /\ Len(events) < MaxEvents
  /\ events' = Append(events, "track_changed")
  /\ UNCHANGED <<core, socket, up, player, told>>

LibrespotDies ==
  /\ up
  /\ up' = FALSE
  /\ player' = "stopped"
  /\ events' = <<>>
  /\ told' = Nothing
  /\ UNCHANGED <<core, socket>>

LibrespotStarts ==
  /\ ~up
  /\ up' = TRUE
  /\ UNCHANGED <<core, socket, player, events, told>>

HandlerConnects ==
  /\ events # <<>>
  /\ Listening
  /\ Len(conns) < BACKLOG
  /\ conns' = Append(conns, [event |-> Head(events), data |-> "none"])
  /\ events' = Tail(events)
  /\ UNCHANGED <<core, conn, up, player, told>>

\* Nobody listens on port 42070: netcat fails and the event is gone.
HandlerIsRefused ==
  /\ events # <<>>
  /\ ~Listening
  /\ events' = Tail(events)
  /\ told' = Nothing
  /\ UNCHANGED <<core, socket, up, player>>

\* The handler writes its four lines at once.
HandlerWrites ==
  /\ \/ /\ conn \in Connections /\ conn.data = "none"
        /\ conn' = [conn EXCEPT !.data = "written"]
        /\ UNCHANGED conns
     \/ /\ \E k \in DOMAIN conns :
             /\ conns[k].data = "none"
             /\ conns' = [conns EXCEPT ![k].data = "written"]
        /\ UNCHANGED conn
  /\ UNCHANGED <<core, spot, told>>

\* What is left of what librespot told when this event gets lost.
ToldWithout(event) == IF event \in StatusEvents THEN Nothing ELSE told

\* The handler is killed before it wrote.
HandlerDies ==
  /\ \/ /\ conn \in Connections /\ conn.data = "none"
        /\ conn' = [conn EXCEPT !.data = "closed"]
        /\ told' = ToldWithout(conn.event)
        /\ UNCHANGED conns
     \/ /\ \E k \in DOMAIN conns :
             /\ conns[k].data = "none"
             /\ conns' = [conns EXCEPT ![k].data = "closed"]
             /\ told' = ToldWithout(conns[k].event)
        /\ UNCHANGED conn
  /\ UNCHANGED <<core, spot>>

-----------------------------------------------------------------------------
StatusThread ==
  \/ PollOk \/ PollFails \/ SelectReturnsNone \/ Accept
  \/ ReadEvent \/ ReadNothing \/ ThreadExit

Process == Deinit \/ ProcessEnds \/ ProcessStarts

Librespot ==
  \/ PlayerChanges \/ PlayerStops \/ TrackChanges
  \/ LibrespotDies \/ LibrespotStarts
  \/ HandlerConnects \/ HandlerIsRefused \/ HandlerWrites \/ HandlerDies

Next == StatusThread \/ Process \/ Librespot

Spec == Init /\ [][Next]_vars

(***************************************************************************)
(* The thread runs, a connection that waits is accepted in the end (select *)
(* reports it), and a handler that has connected writes or dies.  Neither  *)
(* the polls nor librespot are assumed to do anything.                     *)
(***************************************************************************)
Fairness ==
  /\ WF_vars(StatusThread)
  /\ SF_vars(Accept)
  /\ WF_vars(HandlerWrites)
  /\ WF_vars(HandlerConnects \/ HandlerIsRefused)

FairSpec == Spec /\ Fairness

-----------------------------------------------------------------------------
\* Once every event has been read, the icon shows what librespot does, but for two
\* things.  Music that has stopped is shown as before, for librespot_parse_event knows
\* no such event.  And nothing is promised once something has happened that no event
\* tells (a poll that failed, an event lost with its handler or with the process, the
\* death of librespot) until librespot next plays or pauses.
InSync ==
  Listening /\ ~StatusPending /\ told # Nothing =>
    /\ g_status = IF told = "playing" THEN "PLAYING" ELSE "PAUSED"
    /\ player \in {told, "stopped"}

\* The types, and the icon in step with what librespot tells.
Inv == TypeOK /\ InSync

\* librespot's death shows, although events sent before it may still arrive and
\* set the status after the first poll that failed.
DownIsNoticed ==
  ~up ~> g_status = "UNAVAILABLE" \/ up \/ ~Listening \/ ~g_is_running

\* Whatever the polls said in between, the status of an event that has arrived is
\* shown in the end: a false alarm lasts no longer than to the next event.
EventIsShown ==
  \A event \in StatusEvents :
    conns # <<>> /\ Head(conns) = [event |-> event, data |-> "written"]
      ~> g_status = StatusAfter(event) \/ ~Listening \/ ~g_is_running

\* librespot_deinit returns: the thread leaves select and read, and its loop.
DeinitReturns == ~g_is_running /\ Listening ~> ~Listening
=============================================================================
