------------------------ MODULE LibrespotLinkProofs ------------------------
(***************************************************************************)
(* LibrespotLink for any backlog and any number of events: the icon is in  *)
(* step with what librespot told when no event is under way any more.      *)
(***************************************************************************)
EXTENDS LibrespotLink, TLAPS

USE BacklogIsPositive, BoundsAssumption

\* That an event is what librespot told last, and will be heard.
Tells(connection) == connection.event = told /\ connection.data # "closed"

\* Neither the events nor the connections that wait set the status.
NoStatusIn(queue) == \A k \in DOMAIN queue : queue[k] \notin StatusEvents

NoStatusWaits == \A k \in DOMAIN conns : conns[k].event \notin StatusEvents

\* Why: of the events under way, the last one that sets the status is what librespot
\* told last; what comes after it are changes of the track, and stops.
LastTells ==
  /\ pc # "read" => conn = NoConn
  /\ told # Nothing =>
       /\ player \in {told, "stopped"}
       /\ NoStatusIn(events) /\ NoStatusWaits /\ conn.event \in StatusEvents
            => Tells(conn)
       /\ NoStatusIn(events) =>
            \A k \in DOMAIN conns :
              /\ conns[k].event \in StatusEvents
              /\ \A j \in DOMAIN conns : j > k => conns[j].event \notin StatusEvents
              => Tells(conns[k])
       /\ \A k \in DOMAIN events :
            /\ events[k] \in StatusEvents
            /\ \A j \in DOMAIN events : j > k => events[j] \notin StatusEvents
            => events[k] = told
       /\ ~StatusPending =>
            g_status = IF told = "playing" THEN "PLAYING" ELSE "PAUSED"

\* The inductive invariant.
LinkInv == TypeOK /\ LastTells

\* A handler that writes or goes changes neither the order of the events nor what they
\* are.
LEMMA DataSet ==
  ASSUME NEW queue \in Seq(Connections), NEW k \in DOMAIN queue,
         NEW data \in {"written", "closed"}
  PROVE  LET after == [queue EXCEPT ![k].data = data]
         IN /\ after \in Seq(Connections) /\ Len(after) = Len(queue)
            /\ DOMAIN after = DOMAIN queue
            /\ \A j \in DOMAIN queue : /\ after[j].event = queue[j].event
                                       /\ after[j].data \in {queue[j].data, data}
  <1> DEFINE after == [queue EXCEPT ![k] = [queue[k] EXCEPT !.data = data]]
  <1>1. queue[k] \in Connections
    OBVIOUS
  <1>2. /\ [queue[k] EXCEPT !.data = data] \in Connections
        /\ [queue[k] EXCEPT !.data = data].event = queue[k].event
        /\ [queue[k] EXCEPT !.data = data].data = data
    BY <1>1 DEF Connections
  <1>3. after \in Seq(Connections) /\ Len(after) = Len(queue) /\ DOMAIN after = DOMAIN queue
    BY <1>2
  <1>4. \A j \in DOMAIN queue : after[j] = IF j = k THEN [queue[k] EXCEPT !.data = data]
                                           ELSE queue[j]
    OBVIOUS
  <1>5. QED
    BY <1>2, <1>3, <1>4

\* The queues and the connection at hand keep their types.
LEMMA TypesKept == ASSUME LinkInv, [Next]_vars PROVE TypeOK'
  <1>1. g_is_running' \in BOOLEAN /\ up' \in BOOLEAN
    BY Zenon DEF LinkInv, TypeOK, Next, StatusThread, Process, Librespot, vars, core, socket,
         spot, PollOk, PollFails, SelectReturnsNone, Accept, ReadEvent, ReadNothing,
         ThreadExit, Deinit, ProcessEnds, ProcessStarts, PlayerChanges, PlayerStops,
         TrackChanges, LibrespotDies, LibrespotStarts, HandlerConnects, HandlerIsRefused, HandlerWrites,
         HandlerDies
  <1>2. /\ pc' \in {"poll", "select", "read", "done", "off"}
        /\ g_status' \in {"UNAVAILABLE", "PLAYING", "PAUSED"}
        /\ player' \in {"stopped"} \cup StatusEvents
        /\ told' \in StatusEvents \cup {Nothing}
    BY DEF LinkInv, TypeOK, Next, StatusThread, Process, Librespot, vars, core, socket,
         spot, PollOk, PollFails, SelectReturnsNone, Accept, ReadEvent, ReadNothing,
         ThreadExit, Deinit, ProcessEnds, ProcessStarts, PlayerChanges, PlayerStops,
         TrackChanges, LibrespotDies, LibrespotStarts, HandlerConnects, HandlerIsRefused, HandlerWrites,
         HandlerDies, StatusAfter, ToldWithout
  <1>3. events' \in Seq(Events) /\ Len(events') <= MaxEvents
    <2> USE DEF LinkInv, TypeOK
    <2>1. CASE UNCHANGED events
      BY <2>1
    <2>2. CASE LibrespotDies
      BY <2>2 DEF LibrespotDies
    <2>3. CASE PlayerChanges \/ PlayerStops \/ TrackChanges
      <3>1. PICK event \in Events : events' = Append(events, event)
        BY <2>3 DEF PlayerChanges, PlayerStops, TrackChanges, Events
      <3>2. events \in Seq(Events) /\ Len(events) < MaxEvents
        BY <2>3 DEF PlayerChanges, PlayerStops, TrackChanges
      <3>3. QED
        BY ONLY <3>1, <3>2, BoundsAssumption
    <2>4. CASE HandlerConnects \/ HandlerIsRefused
      <3>1. events' = Tail(events) /\ events # <<>>
        BY <2>4 DEF HandlerConnects, HandlerIsRefused
      <3>2. events \in Seq(Events) /\ Len(events) <= MaxEvents
        OBVIOUS
      <3>3. QED
        BY ONLY <3>1, <3>2, BoundsAssumption
    <2>5. QED
      BY <2>1, <2>2, <2>3, <2>4
         DEF Next, StatusThread, Process, Librespot, vars, core, socket, spot, PollOk,
             PollFails, SelectReturnsNone, Accept, ReadEvent, ReadNothing, ThreadExit,
             Deinit, ProcessEnds, ProcessStarts, LibrespotStarts, HandlerWrites, HandlerDies
  <1>4. /\ conns' \in Seq(Connections) /\ Len(conns') <= BACKLOG
        /\ conn' \in Connections \cup {NoConn}
    <2> USE DEF LinkInv, TypeOK
    <2> DEFINE TypesOfQueue == /\ conns' \in Seq(Connections) /\ Len(conns') <= BACKLOG
                               /\ conn' \in Connections \cup {NoConn}
    <2>1. CASE UNCHANGED <<conns, conn>>
      BY <2>1
    <2>2. CASE ProcessEnds
      BY <2>2 DEF ProcessEnds
    <2>3. CASE ReadEvent \/ ReadNothing
      BY <2>3 DEF ReadEvent, ReadNothing
    <2>4. CASE Accept
      BY <2>4 DEF Accept
    <2>5. CASE HandlerConnects
      BY <2>5 DEF HandlerConnects, Connections
    <2>6. CASE HandlerWrites
      <3>1. CASE /\ conn \in Connections /\ conn' = [conn EXCEPT !.data = "written"]
                 /\ conns' = conns
        BY <3>1 DEF Connections
      <3>2. ASSUME NEW k \in DOMAIN conns, conns' = [conns EXCEPT ![k].data = "written"],
                   conn' = conn
            PROVE  TypesOfQueue
        <4>1. conns \in Seq(Connections) /\ Len(conns) <= BACKLOG
              /\ conn \in Connections \cup {NoConn}
          OBVIOUS
        <4>2. conns' \in Seq(Connections) /\ Len(conns') = Len(conns)
          BY ONLY <3>2, <4>1, DataSet
        <4>3. QED
          BY ONLY <3>2, <4>1, <4>2
      <3>3. QED
        BY <2>6, <3>1, <3>2 DEF HandlerWrites
    <2>7. CASE HandlerDies
      <3>1. CASE /\ conn \in Connections /\ conn' = [conn EXCEPT !.data = "closed"]
                 /\ conns' = conns
        BY <3>1 DEF Connections
      <3>2. ASSUME NEW k \in DOMAIN conns, conns' = [conns EXCEPT ![k].data = "closed"],
                   conn' = conn
            PROVE  TypesOfQueue
        <4>1. conns \in Seq(Connections) /\ Len(conns) <= BACKLOG
              /\ conn \in Connections \cup {NoConn}
          OBVIOUS
        <4>2. conns' \in Seq(Connections) /\ Len(conns') = Len(conns)
          BY ONLY <3>2, <4>1, DataSet
        <4>3. QED
          BY ONLY <3>2, <4>1, <4>2
      <3>3. QED
        BY <2>7, <3>1, <3>2 DEF HandlerDies
    <2>8. QED
      BY <2>1, <2>2, <2>3, <2>4, <2>5, <2>6, <2>7
         DEF Next, StatusThread, Process, Librespot, vars, core, socket, spot, PollOk,
             PollFails, SelectReturnsNone, ThreadExit, Deinit, ProcessStarts,
             PlayerChanges, PlayerStops, TrackChanges, LibrespotDies, LibrespotStarts,
             HandlerIsRefused
  <1>5. QED
    BY <1>1, <1>2, <1>3, <1>4 DEF TypeOK

\* What the thread does with the event that it has accepted.
LEMMA ThreadKeepsLast == ASSUME LinkInv, StatusThread PROVE LastTells'
  <1> USE DEF LinkInv, LastTells, core, socket, spot
  <1>1. CASE PollOk \/ SelectReturnsNone \/ ThreadExit
    BY <1>1 DEF PollOk, SelectReturnsNone, ThreadExit, StatusPending, Tells, NoStatusIn,
                NoStatusWaits
  <1>2. CASE PollFails
    BY <1>2 DEF PollFails, StatusPending, Tells, NoStatusIn, NoStatusWaits, TypeOK
  <1>3. CASE Accept
    <2> USE <1>3 DEF Accept
    <2>1. conn = NoConn /\ conn.event \notin StatusEvents
      BY DEF NoConn, StatusEvents
    <2>2. /\ conns \in Seq(Connections) /\ conns # <<>>
          /\ conn' = conns[1]
          /\ DOMAIN conns = 1..Len(conns) /\ DOMAIN conns' = 1..(Len(conns) - 1)
          /\ Len(conns) \in Nat
          /\ \A k \in DOMAIN conns' : conns'[k] = conns[k + 1] /\ k + 1 \in DOMAIN conns
          /\ \A k \in DOMAIN conns : k = 1 \/ k - 1 \in DOMAIN conns'
          /\ 1 \in DOMAIN conns
      BY DEF TypeOK
    <2>3. NoStatusWaits <=> conn'.event \notin StatusEvents /\ NoStatusWaits'
      BY <2>2 DEF NoStatusWaits
    <2>4. StatusPending' <=> StatusPending
      BY <2>1, <2>2 DEF StatusPending
    <2>5. ASSUME told' # Nothing PROVE LastTells'
      <3>1. /\ NoStatusIn(events)' /\ NoStatusWaits' /\ conn'.event \in StatusEvents
               => Tells(conn)'
        BY <2>2, <2>5 DEF Tells, NoStatusIn, NoStatusWaits
      <3>2. ASSUME NoStatusIn(events)', NEW k \in DOMAIN conns',
                   conns'[k].event \in StatusEvents,
                   \A j \in DOMAIN conns' : j > k => conns'[j].event \notin StatusEvents
            PROVE  Tells(conns[k])'
        <4>1. \A j \in DOMAIN conns : j > k + 1 => conns[j].event \notin StatusEvents
          BY <2>2, <3>2
        <4>2. conns[k + 1].event \in StatusEvents /\ k + 1 \in DOMAIN conns
          BY <2>2, <3>2
        <4>3. Tells(conns[k + 1])
          BY <2>5, <3>2, <4>1, <4>2 DEF NoStatusIn
        <4>4. QED
          BY <2>2, <4>3 DEF Tells
      <3>3. QED
        BY <2>4, <2>5, <3>1, <3>2 DEF NoStatusIn
    <2>6. QED
      BY <2>5
  <1>4. CASE ReadEvent
    <2> USE <1>4 DEF ReadEvent
    <2>1. conn'.event \notin StatusEvents
      BY DEF NoConn, StatusEvents
    <2>2. ASSUME told' # Nothing, ~StatusPending' PROVE
            g_status' = IF told = "playing" THEN "PLAYING" ELSE "PAUSED"
      <3>1. NoStatusIn(events) /\ NoStatusWaits
        BY <2>2 DEF StatusPending, NoStatusIn, NoStatusWaits
      <3>2. CASE conn.event \in StatusEvents
        BY <2>2, <3>1, <3>2 DEF Tells, StatusAfter, StatusEvents
      <3>3. CASE conn.event \notin StatusEvents
        BY <2>2, <3>1, <3>3 DEF StatusPending, NoStatusIn, NoStatusWaits, StatusAfter,
                                StatusEvents
      <3>4. QED
        BY <3>2, <3>3
    <2>3. QED
      BY <2>1, <2>2 DEF Tells, NoStatusIn, NoStatusWaits
  <1>5. CASE ReadNothing
    <2> USE <1>5 DEF ReadNothing
    <2>1. conn'.event \notin StatusEvents
      BY DEF NoConn, StatusEvents
    <2>2. ASSUME told' # Nothing, ~StatusPending' PROVE
            g_status' = IF told = "playing" THEN "PLAYING" ELSE "PAUSED"
      <3>1. NoStatusIn(events) /\ NoStatusWaits
        BY <2>2 DEF StatusPending, NoStatusIn, NoStatusWaits
      <3>2. conn.event \notin StatusEvents
        BY <2>2, <3>1 DEF Tells
      <3>3. QED
        BY <2>2, <3>1, <3>2 DEF StatusPending, NoStatusIn, NoStatusWaits
    <2>3. QED
      BY <2>1, <2>2 DEF Tells, NoStatusIn, NoStatusWaits
  <1>6. QED
    BY <1>1, <1>2, <1>3, <1>4, <1>5 DEF StatusThread

\* With the process goes what waits at its socket; a new one starts from nothing.
LEMMA ProcessKeepsLast == ASSUME LinkInv, Process PROVE LastTells'
  BY DEF LinkInv, LastTells, Process, Deinit, ProcessEnds, ProcessStarts, core, socket, spot,
         StatusPending, Tells, NoStatusIn, NoStatusWaits, Listening

\* librespot and its handlers: a new event is the last one, and a handler takes the
\* first of the events to the end of the queue.
LEMMA LibrespotKeepsLast == ASSUME LinkInv, Librespot PROVE LastTells'
  <1> USE DEF LinkInv, LastTells, core, socket, spot
  <1>1. CASE PlayerChanges
    <2> USE <1>1 DEF PlayerChanges
    <2>1. PICK event \in StatusEvents :
            player' = event /\ told' = event /\ events' = Append(events, event)
      OBVIOUS
    <2>2. /\ events \in Seq(Events) /\ DOMAIN events' = 1..(Len(events) + 1)
          /\ events'[Len(events) + 1] = event
          /\ Len(events) + 1 \in DOMAIN events'
          /\ \A k \in DOMAIN events' : k # Len(events) + 1 => k < Len(events) + 1
      BY <2>1 DEF TypeOK, Events
    <2>3. ~NoStatusIn(events)' /\ StatusPending'
      BY <2>1, <2>2 DEF NoStatusIn, StatusPending
    <2>4. \A k \in DOMAIN events' :
            /\ events'[k] \in StatusEvents
            /\ \A j \in DOMAIN events' : j > k => events'[j] \notin StatusEvents
            => events'[k] = told'
      BY <2>1, <2>2
    <2>5. QED
      BY <2>1, <2>3, <2>4
  <1>2. CASE PlayerStops \/ TrackChanges
    <2> USE <1>2 DEF PlayerStops, TrackChanges
    <2>1. /\ events \in Seq(Events)
          /\ DOMAIN events = 1..Len(events)
          /\ DOMAIN events' = DOMAIN events \cup {Len(events) + 1}
          /\ events'[Len(events) + 1] \notin StatusEvents
          /\ \A k \in DOMAIN events : events'[k] = events[k]
      <3>1. PICK event \in Events \ StatusEvents : events' = Append(events, event)
        BY DEF Events, StatusEvents
      <3>2. events \in Seq(Events)
        BY DEF TypeOK
      <3>3. QED
        BY ONLY <3>1, <3>2
    <2>2. (NoStatusIn(events)' <=> NoStatusIn(events))
          /\ (StatusPending' <=> StatusPending)
      BY <2>1 DEF NoStatusIn, StatusPending
    <2>3. ASSUME told # Nothing PROVE \A k \in DOMAIN events' :
            /\ events'[k] \in StatusEvents
            /\ \A j \in DOMAIN events' : j > k => events'[j] \notin StatusEvents
            => events'[k] = told'
      BY <2>1, <2>3
    <2>4. QED
      BY <2>2, <2>3 DEF Tells, NoStatusWaits
  <1>3. CASE LibrespotDies \/ HandlerIsRefused
    BY <1>3 DEF LibrespotDies, HandlerIsRefused
  <1>4. CASE LibrespotStarts
    BY <1>4 DEF LibrespotStarts, StatusPending, Tells, NoStatusIn, NoStatusWaits
  <1>5. CASE HandlerConnects
    <2> USE <1>5 DEF HandlerConnects
    <2>1. /\ DOMAIN events' = 1..(Len(events) - 1) /\ DOMAIN events = 1..Len(events)
          /\ 1 \in DOMAIN events
          /\ \A k \in DOMAIN events' : events'[k] = events[k + 1] /\ k + 1 \in DOMAIN events
          /\ \A k \in DOMAIN events : k = 1 \/ k - 1 \in DOMAIN events'
      BY DEF TypeOK
    <2>2. /\ DOMAIN conns = 1..Len(conns)
          /\ DOMAIN conns' = DOMAIN conns \cup {Len(conns) + 1}
          /\ Len(conns) + 1 \notin DOMAIN conns
          /\ conns'[Len(conns) + 1] = [event |-> events[1], data |-> "none"]
          /\ \A k \in DOMAIN conns : conns'[k] = conns[k]
      BY <2>1 DEF TypeOK
    <2>3. NoStatusIn(events) <=> NoStatusIn(events)' /\ events[1] \notin StatusEvents
      BY <2>1 DEF NoStatusIn
    <2>4. NoStatusWaits' <=> NoStatusWaits /\ events[1] \notin StatusEvents
      BY <2>2 DEF NoStatusWaits
    <2>5. StatusPending' <=> StatusPending
      <3>1. StatusPending <=> \/ conn.event \in StatusEvents
                              \/ ~NoStatusWaits \/ ~NoStatusIn(events)
        BY DEF StatusPending, NoStatusWaits, NoStatusIn
      <3>2. StatusPending' <=> \/ conn.event \in StatusEvents
                               \/ ~NoStatusWaits' \/ ~NoStatusIn(events)'
        BY DEF StatusPending, NoStatusWaits, NoStatusIn
      <3>3. QED
        BY ONLY <2>3, <2>4, <3>1, <3>2
    <2>6. ASSUME told # Nothing PROVE LastTells'
      <3>1. NoStatusIn(events)' /\ NoStatusWaits' /\ conn'.event \in StatusEvents
              => Tells(conn)'
        BY <2>3, <2>4, <2>6 DEF Tells
      <3>2. ASSUME NoStatusIn(events)', NEW k \in DOMAIN conns',
                   conns'[k].event \in StatusEvents,
                   \A j \in DOMAIN conns' : j > k => conns'[j].event \notin StatusEvents
            PROVE  Tells(conns[k])'
        <4>1. CASE k = Len(conns) + 1
          <5>1. events[1] \in StatusEvents /\ conns'[k].data = "none"
                /\ conns'[k].event = events[1]
            BY <2>2, <3>2, <4>1
          <5>2. \A j \in DOMAIN events : j > 1 => events[j] \notin StatusEvents
            BY <2>1, <3>2 DEF NoStatusIn
          <5>3. events[1] = told
            BY <2>1, <2>6, <5>1, <5>2
          <5>4. QED
            BY <5>1, <5>3 DEF Tells
        <4>2. CASE k \in DOMAIN conns
          <5>1. events[1] \notin StatusEvents
            BY <2>2, <3>2, <4>2
          <5>2. Tells(conns[k])
            BY <2>2, <2>3, <2>6, <3>2, <4>2, <5>1
          <5>3. QED
            BY <2>2, <4>2, <5>2 DEF Tells
        <4>3. QED
          BY <2>2, <3>2, <4>1, <4>2
      <3>3. ASSUME NEW k \in DOMAIN events', events'[k] \in StatusEvents,
                   \A j \in DOMAIN events' : j > k => events'[j] \notin StatusEvents
            PROVE  events'[k] = told
        <4>1. \A j \in DOMAIN events : j > k + 1 => events[j] \notin StatusEvents
          BY <2>1, <3>3
        <4>2. QED
          BY <2>1, <2>6, <3>3, <4>1
      <3>4. QED
        BY <2>5, <2>6, <3>1, <3>2, <3>3
    <2>7. QED
      BY <2>6
  <1>6. CASE HandlerWrites
    <2> USE <1>6 DEF HandlerWrites
    <2>1. pc # "read" => conn' = NoConn
      BY DEF NoConn, Connections, Events, StatusEvents
    <2>2. /\ conn'.event = conn.event
          /\ conn'.data = "closed" => conn.data = "closed"
      BY DEF Connections
    <2>3. /\ DOMAIN conns' = DOMAIN conns
          /\ \A k \in DOMAIN conns : /\ conns'[k].event = conns[k].event
                                     /\ conns'[k].data = "closed" => conns[k].data = "closed"
      <3>1. conns \in Seq(Connections)
        BY DEF TypeOK
      <3>2. CASE conns' = conns
        BY <3>2
      <3>3. ASSUME NEW k \in DOMAIN conns, conns' = [conns EXCEPT ![k].data = "written"]
            PROVE  /\ DOMAIN conns' = DOMAIN conns
                   /\ \A j \in DOMAIN conns :
                        /\ conns'[j].event = conns[j].event
                        /\ conns'[j].data \in {conns[j].data, "written"}
        BY ONLY <3>1, <3>3, DataSet
      <3>4. QED
        BY <3>2, <3>3
    <2>4. (StatusPending' <=> StatusPending) /\ (NoStatusWaits' <=> NoStatusWaits)
      BY <2>2, <2>3 DEF StatusPending, NoStatusWaits
    <2>5. Tells(conn) => Tells(conn)'
      BY <2>2 DEF Tells
    <2>6. \A k \in DOMAIN conns : Tells(conns[k]) => Tells(conns[k])'
      BY <2>3 DEF Tells
    <2>7. QED
      BY <2>1, <2>2, <2>3, <2>4, <2>5, <2>6 DEF NoStatusIn
  <1>7. CASE HandlerDies
    <2> USE <1>7 DEF HandlerDies
    <2>1. pc # "read" => conn' = NoConn
      BY DEF NoConn, Connections, Events, StatusEvents
    <2>2. conn'.event = conn.event
      BY DEF Connections
    <2>3. /\ DOMAIN conns' = DOMAIN conns
          /\ \A k \in DOMAIN conns : conns'[k].event = conns[k].event
      <3>1. conns \in Seq(Connections)
        BY DEF TypeOK
      <3>2. CASE conns' = conns
        BY <3>2
      <3>3. ASSUME NEW k \in DOMAIN conns, conns' = [conns EXCEPT ![k].data = "closed"]
            PROVE  /\ DOMAIN conns' = DOMAIN conns
                   /\ \A j \in DOMAIN conns : conns'[j].event = conns[j].event
        BY ONLY <3>1, <3>3, DataSet
      <3>4. QED
        BY <3>2, <3>3
    <2>4. (StatusPending' <=> StatusPending) /\ (NoStatusWaits' <=> NoStatusWaits)
      BY <2>2, <2>3 DEF StatusPending, NoStatusWaits
    <2>5. ASSUME told' # Nothing
          PROVE  /\ told' = told
                 /\ conn.event \in StatusEvents => conn' = conn
                 /\ \A k \in DOMAIN conns :
                      conns[k].event \in StatusEvents => conns'[k] = conns[k]
      <3>1. CASE conns' = conns /\ told' = ToldWithout(conn.event)
        BY <2>5, <3>1 DEF ToldWithout
      <3>2. ASSUME NEW k \in DOMAIN conns, conns' = [conns EXCEPT ![k].data = "closed"],
                   told' = ToldWithout(conns[k].event), conn' = conn
            PROVE  /\ told' = told
                   /\ conn.event \in StatusEvents => conn' = conn
                   /\ \A j \in DOMAIN conns :
                        conns[j].event \in StatusEvents => conns'[j] = conns[j]
        <4>1. told' = told /\ conns[k].event \notin StatusEvents
          BY <2>5, <3>2 DEF ToldWithout
        <4>2. \A j \in DOMAIN conns : j # k => conns'[j] = conns[j]
          BY <3>2
        <4>3. QED
          BY <3>2, <4>1, <4>2
      <3>3. QED
        BY <3>1, <3>2
    <2>6. ASSUME told' # Nothing
          PROVE  /\ conn.event \in StatusEvents => (Tells(conn)' <=> Tells(conn))
                 /\ \A k \in DOMAIN conns :
                      conns[k].event \in StatusEvents => (Tells(conns[k])' <=> Tells(conns[k]))
      BY <2>5, <2>6 DEF Tells
    <2>7. QED
      BY <2>1, <2>2, <2>3, <2>4, <2>5, <2>6 DEF NoStatusIn
  <1>8. QED
    BY <1>1, <1>2, <1>3, <1>4, <1>5, <1>6, <1>7 DEF Librespot

\* Of the events under way, the last one that sets the status is what librespot told last:
\* that it plays, or has been paused; if it has stopped since, that is all the player
\* hears.
THEOREM LastEventTells == Spec => []LinkInv
  <1>1. Init => LinkInv
    <2> SUFFICES ASSUME Init PROVE LinkInv
      OBVIOUS
    <2>1. g_is_running \in BOOLEAN /\ up \in BOOLEAN
      BY Zenon DEF Init
    <2>2. QED
      BY <2>1 DEF Init, LinkInv, TypeOK, LastTells, NoConn
  <1>2. ASSUME LinkInv, UNCHANGED vars PROVE LastTells'
    BY <1>2 DEF LinkInv, LastTells, vars, core, socket, spot, StatusPending, Tells,
                NoStatusIn, NoStatusWaits
  <1>3. LinkInv /\ [Next]_vars => LinkInv'
    BY <1>2, TypesKept, ThreadKeepsLast, ProcessKeepsLast, LibrespotKeepsLast
       DEF Next, LinkInv
  <1>4. QED
    BY <1>1, <1>3, PTL DEF Spec

\* Once every event has been read, g_status is what librespot told last, which is what it
\* does unless it has stopped since.
THEOREM StatusInSync == Spec => []Inv
  <1>1. LinkInv => Inv
    BY DEF LinkInv, LastTells, Inv, InSync
  <1>2. QED
    BY LastEventTells, <1>1, PTL
=============================================================================
