---------------------------- MODULE PlayerProofs ----------------------------
(***************************************************************************)
(* Player for any tags and any listen queue: the tag thread inside it is   *)
(* TagReader, whose invariant holds, and what librespot has executed or    *)
(* still has in its queue ends with what the thread sent last.             *)
(***************************************************************************)
EXTENDS Player, TagReaderProofs

USE BacklogAssumption

-----------------------------------------------------------------------------
\* What is done to librespot is no step of TagReader, and the rest is one of its own.
LEMMA StepOfTagReader == [PlayerNext]_playerVars => [Next]_vars
  <1>1. ASSUME TagSideStep \/ ThreadLoads \/ ThreadPauses PROVE Next
    BY <1>1 DEF TagSideStep, TagSide, ThreadLoads, ThreadPauses, Next, TagThread
  <1>2. ASSUME ButtonPressed \/ Execute \/ LibrespotStarts \/ LibrespotDies \/ Phone
        PROVE  UNCHANGED vars
    BY <1>2 DEF ButtonPressed, Execute, LibrespotStarts, LibrespotDies, Phone
  <1>3. ASSUME UNCHANGED playerVars PROVE UNCHANGED vars
    BY <1>3 DEF playerVars
  <1>4. QED
    BY <1>1, <1>2, <1>3 DEF PlayerNext

\* The tag thread, composed with buttons and librespot, is still a TagReader.
THEOREM PlayerIsTagReader == PlayerSpec => Spec
  <1>1. PlayerInit => Init
    BY DEF PlayerInit
  <1>2. QED
    BY <1>1, StepOfTagReader, PTL DEF PlayerSpec, Spec

\* With buttons pressed and librespot dying in between, its commands are still those of
\* the sessions that TagSession promises.
THEOREM PlayerHasSessions == PlayerSpec => ImplementsSession
  BY PlayerIsTagReader, Refinement, PTL

-----------------------------------------------------------------------------
\* A process that finds librespot loaded by a dead one has not read a tag yet: with
\* the first load, what librespot was sent is the process's own again.
OrphanHasNoTag == pc \in {"loop", "accept"} /\ orphaned => g_current_uri = NoUri

\* What the last command of the thread comes to, once librespot has executed all.
LastIs(cmd) == inbox # <<>> /\ inbox[Len(inbox)] = cmd

Load(uri) == [name |-> "load", uri |-> uri]
PauseCmd  == [name |-> "pause", uri |-> NoUri]

ChannelTypeOK ==
  /\ inbox \in Seq(Commands)
  /\ up \in BOOLEAN

DownIsSilent == ~up => inbox = <<>> /\ ~playing

LoadArrives ==
  ~spoilt /\ sent # NoUri =>
    /\ up
    /\ LastIs(Load(sent)) \/ (inbox = <<>> /\ playing /\ track = sent)

PauseArrives ==
  ~spoilt /\ sent = NoUri => LastIs(PauseCmd) \/ (inbox = <<>> /\ ~playing)

\* The inductive invariant, on top of that of TagReader.
PlayerInv == /\ ChannelTypeOK /\ DownIsSilent /\ LoadArrives /\ PauseArrives
             /\ OrphanHasNoTag

\* The new part of the invariant that speaks of the thread alone.
LEMMA OrphanStep == ASSUME IInv, OrphanHasNoTag, [Next]_vars PROVE OrphanHasNoTag'
  <1> USE DEF OrphanHasNoTag, radio, reader, history
  <1>1. CASE SendLoad \/ SendPause
    BY <1>1 DEF SendLoad, SendPause
  <1>2. CASE ReadFail \/ IgnoreMsg
    BY <1>2 DEF ReadFail, IgnoreMsg, IInv, StepInvariant
  <1>3. CASE AcceptTag
    BY <1>3 DEF AcceptTag
  <1>4. CASE Restart
    BY <1>4 DEF Restart
  <1>5. CASE pc' \notin {"loop", "accept"}
    BY <1>5
  <1>6. CASE UNCHANGED <<pc, orphaned, g_current_uri>>
    BY <1>6
  <1>7. QED
    BY <1>1, <1>2, <1>3, <1>4, <1>5, <1>6
    DEF Next, User, TagThread, LocalStep, vars, Place, Remove, SearchOk, SearchFail,
        ReadOk, LoadUri, SmartPosterThrows, LedOn, PollSame, PollChanged, PollRetry,
        PollGivesUp, ForgetTag, LedOff, ThreadExit, Deinit, Crash

\* Only the two commands of the thread change what it sent last.
LEMMA OthersSendNothing ==
  ASSUME TagSide PROVE UNCHANGED sent
  BY DEF TagSide, LocalStep, User, Place, Remove, SearchOk, SearchFail, ReadOk, ReadFail,
         LoadUri, IgnoreMsg, SmartPosterThrows, LedOn, AcceptTag, PollSame, PollChanged,
         PollRetry, PollGivesUp, LedOff, ThreadExit, Deinit, Crash, Restart, history

\* A command that is sent is the last one of the queue, or nothing has happened.
LEMMA SendAppends ==
  ASSUME ChannelTypeOK, DownIsSilent, NEW name, NEW uri,
         [name |-> name, uri |-> uri] \in Commands, librespot_send_cmd(name, uri)
  PROVE  /\ ChannelTypeOK' /\ DownIsSilent'
         /\ UNCHANGED <<up, track, playing>>
         /\ inbox' # inbox =>
              up /\ inbox' # <<>> /\ inbox'[Len(inbox')] = [name |-> name, uri |-> uri]
  <1> DEFINE cmd == [name |-> name, uri |-> uri]
  <1>1. CASE UNCHANGED <<up, track, playing, inbox>>
    BY <1>1 DEF ChannelTypeOK, DownIsSilent
  <1>2. CASE up /\ inbox' = Append(inbox, cmd) /\ UNCHANGED <<up, track, playing>>
    <2>1. inbox \in Seq(Commands) /\ cmd \in Commands
      BY DEF ChannelTypeOK
    <2>2. /\ inbox' \in Seq(Commands) /\ inbox' # <<>>
          /\ inbox'[Len(inbox')] = cmd
      BY ONLY <1>2, <2>1
    <2>3. QED
      BY <1>2, <2>2 DEF ChannelTypeOK, DownIsSilent
  <1>3. QED
    BY <1>1, <1>2 DEF librespot_send_cmd

\* librespot executes the oldest command: the last one stays, or is executed now.
LEMMA ExecuteKeepsLast ==
  ASSUME ChannelTypeOK, Execute
  PROVE  /\ inbox' \in Seq(Commands)
         /\ \A cmd \in Commands :
              LastIs(cmd) => LastIs(cmd)' \/ (inbox' = <<>> /\ Head(inbox) = cmd)
  <1>1. inbox \in Seq(Commands) /\ inbox # <<>> /\ inbox' = Tail(inbox)
    BY DEF ChannelTypeOK, Execute
  <1>2. inbox' \in Seq(Commands) /\ Len(inbox) \in Nat /\ Len(inbox) > 0
    BY ONLY <1>1
  <1>3. ASSUME Len(inbox) = 1 PROVE inbox' = <<>> /\ Head(inbox) = inbox[Len(inbox)]
    BY ONLY <1>1, <1>3
  <1>4. ASSUME Len(inbox) > 1
        PROVE  inbox' # <<>> /\ inbox'[Len(inbox')] = inbox[Len(inbox)]
    BY ONLY <1>1, <1>2, <1>4
  <1>5. Len(inbox) = 1 \/ Len(inbox) > 1
    <2>1. \A n \in Nat : n > 0 => n = 1 \/ n > 1
      OBVIOUS
    <2>2. QED
      BY <1>2, <2>1
  <1>6. ASSUME NEW cmd \in Commands, inbox[Len(inbox)] = cmd
        PROVE  LastIs(cmd)' \/ (inbox' = <<>> /\ Head(inbox) = cmd)
    <2>1. \/ inbox' # <<>> /\ inbox'[Len(inbox')] = cmd
          \/ inbox' = <<>> /\ Head(inbox) = cmd
      BY <1>3, <1>4, <1>5, <1>6
    <2>2. QED
      BY <2>1 DEF LastIs
  <1>7. QED
    BY <1>2, <1>6 DEF LastIs

\* Every step of the player keeps the invariant.
LEMMA PlayerStep ==
  ASSUME IInv, IInv', PlayerInv, [PlayerNext]_playerVars PROVE PlayerInv'
  <1>0. OrphanHasNoTag'
    BY StepOfTagReader, OrphanStep DEF PlayerInv
  <1> USE DEF PlayerInv
  <1>1. ASSUME UNCHANGED <<librespot, spoilt, sent>> PROVE PlayerInv'
    BY <1>0, <1>1 DEF ChannelTypeOK, DownIsSilent, LoadArrives, PauseArrives,
                      LastIs, librespot
  <1>2. CASE TagSideStep
    BY <1>1, <1>2, OthersSendNothing DEF TagSideStep
  <1>3. CASE ThreadLoads
    <2>1. sent' = g_current_uri /\ g_current_uri \in Spotify
      BY <1>3 DEF ThreadLoads, SendLoad, IInv, StepInvariant
    <2>2. Load(sent') \in Commands /\ sent' # NoUri
      BY <2>1, UriAssumption DEF Commands, Load
    <2>3. librespot_send_cmd("load", sent')
      BY <1>3, <2>1 DEF ThreadLoads
    <2>4. ChannelTypeOK' /\ DownIsSilent'
      BY <2>2, <2>3, SendAppends DEF Load
    <2>5. spoilt' = (inbox' = inbox)
      BY <1>3 DEF ThreadLoads
    <2>6. CASE inbox' = inbox
      <3>1. spoilt'
        BY <2>5, <2>6, Zenon
      <3>2. QED
        BY <1>0, <2>2, <2>4, <3>1 DEF LoadArrives, PauseArrives
    <2>7. CASE inbox' # inbox
      <3>1. up' = up /\ up /\ inbox' # <<>> /\ inbox'[Len(inbox')] = Load(sent')
        BY <2>2, <2>3, <2>7, SendAppends DEF Load
      <3>2. LoadArrives'
        BY <3>1 DEF LoadArrives, LastIs, Load
      <3>3. QED
        BY <1>0, <2>2, <2>4, <3>2 DEF PauseArrives
    <2>8. QED
      BY <2>6, <2>7
  <1>4. CASE ThreadPauses
    <2>1. sent' = NoUri
      BY <1>4 DEF ThreadPauses, SendPause
    <2>2. PauseCmd \in Commands
      BY DEF Commands, PauseCmd
    <2>3. librespot_send_cmd("pause", NoUri)
      BY <1>4 DEF ThreadPauses
    <2>4. ChannelTypeOK' /\ DownIsSilent' /\ UNCHANGED <<up, playing>>
      BY <2>2, <2>3, SendAppends DEF PauseCmd
    <2>5. spoilt' = (up /\ inbox' = inbox)
      BY <1>4 DEF ThreadPauses
    <2>6. PauseArrives'
      <3>1. CASE up /\ inbox' = inbox
        <4>1. spoilt'
          BY <2>5, <3>1, Zenon
        <4>2. QED
          BY <4>1 DEF PauseArrives
      <3>2. CASE ~up /\ inbox' = inbox
        BY <2>4, <3>2 DEF DownIsSilent, PauseArrives
      <3>3. CASE inbox' # inbox
        <4>1. inbox' # <<>> /\ inbox'[Len(inbox')] = PauseCmd
          BY <2>2, <2>3, <3>3, SendAppends DEF PauseCmd
        <4>2. QED
          BY <4>1 DEF PauseArrives, LastIs, PauseCmd
      <3>4. QED
        BY <3>1, <3>2, <3>3
    <2>7. QED
      BY <1>0, <2>1, <2>4, <2>6 DEF LoadArrives
  <1>5. CASE ButtonPressed
    <2>1. PICK name \in ButtonCommands : librespot_send_cmd(name, NoUri)
      BY <1>5 DEF ButtonPressed
    <2>2. [name |-> name, uri |-> NoUri] \in Commands
      BY DEF Commands
    <2>3. ChannelTypeOK' /\ DownIsSilent'
      BY <2>1, <2>2, SendAppends
    <2>4. spoilt' = (spoilt \/ inbox' # inbox) /\ UNCHANGED vars
      BY <1>5 DEF ButtonPressed
    <2>5. CASE inbox' # inbox
      <3>1. spoilt'
        BY <2>4, <2>5, Zenon
      <3>2. QED
        BY <1>0, <2>3, <3>1 DEF LoadArrives, PauseArrives
    <2>6. CASE inbox' = inbox
      <3>1. ~spoilt' => ~spoilt
        BY <2>4, Zenon
      <3>2. UNCHANGED <<up, track, playing, inbox, sent>>
        BY <2>1, <2>4, <2>6 DEF librespot_send_cmd, vars, history
      <3>3. QED
        BY <1>0, <2>3, <3>1, <3>2 DEF LoadArrives, PauseArrives, LastIs
    <2>7. QED
      BY <2>5, <2>6
  <1>6. CASE Execute
    <2>1. /\ inbox' \in Seq(Commands)
          /\ \A cmd \in Commands :
               LastIs(cmd) => LastIs(cmd)' \/ (inbox' = <<>> /\ Head(inbox) = cmd)
      BY <1>6, ExecuteKeepsLast
    <2>2. UNCHANGED <<sent, up, spoilt>> /\ up /\ inbox # <<>>
      BY <1>6 DEF Execute, vars
    <2>3. ChannelTypeOK' /\ DownIsSilent'
      BY <2>1, <2>2 DEF ChannelTypeOK, DownIsSilent
    <2>4. LoadArrives'
      <3> SUFFICES ASSUME ~spoilt', sent' # NoUri
                   PROVE  /\ up'
                          /\ \/ LastIs(Load(sent))'
                             \/ (inbox' = <<>> /\ playing' /\ track' = sent')
        BY DEF LoadArrives
      <3>1. up /\ LastIs(Load(sent)) /\ sent \in Spotify
        BY <2>2 DEF LoadArrives, IInv, TypeOK
      <3>2. Load(sent) \in Commands
        BY <3>1 DEF Load, Commands
      <3>3. LastIs(Load(sent))' \/ (inbox' = <<>> /\ Head(inbox) = Load(sent))
        BY <2>1, <2>2, <3>1, <3>2 DEF LastIs, Load
      <3>4. ASSUME Head(inbox) = Load(sent) PROVE playing' /\ track' = sent'
        BY <1>6, <2>2, <3>4 DEF Execute, Load
      <3>5. QED
        BY <2>2, <3>1, <3>3, <3>4
    <2>5. PauseArrives'
      <3> SUFFICES ASSUME ~spoilt', sent' = NoUri
                   PROVE  LastIs(PauseCmd)' \/ (inbox' = <<>> /\ ~playing')
        BY DEF PauseArrives
      <3>1. LastIs(PauseCmd)
        BY <2>2 DEF PauseArrives
      <3>2. PauseCmd \in Commands
        BY DEF PauseCmd, Commands
      <3>3. LastIs(PauseCmd)' \/ (inbox' = <<>> /\ Head(inbox) = PauseCmd)
        BY <2>1, <3>1, <3>2 DEF LastIs, PauseCmd
      <3>4. ASSUME Head(inbox) = PauseCmd PROVE ~playing'
        BY <1>6, <3>4 DEF Execute, PauseCmd
      <3>5. QED
        BY <3>3, <3>4
    <2>6. QED
      BY <1>0, <2>3, <2>4, <2>5
  <1>7. CASE LibrespotStarts
    <2>1. up' = TRUE /\ ~up /\ UNCHANGED <<inbox, track, playing, spoilt, sent>>
      BY <1>7 DEF LibrespotStarts, vars
    <2>2. QED
      BY <1>0, <2>1 DEF ChannelTypeOK, DownIsSilent, LoadArrives, PauseArrives, LastIs
  <1>8. CASE LibrespotDies
    <2>1. inbox' = <<>> /\ ~playing' /\ UNCHANGED sent
      BY <1>8 DEF LibrespotDies, vars
    <2>4. sent # NoUri => spoilt'
      BY <1>8, Zenon DEF LibrespotDies
    <2>2. ChannelTypeOK'
      <3>1. up' \in BOOLEAN
        BY <1>8, Zenon DEF LibrespotDies
      <3>2. QED
        BY <2>1, <3>1 DEF ChannelTypeOK
    <2>3. QED
      BY <1>0, <2>1, <2>2, <2>4 DEF DownIsSilent, LoadArrives, PauseArrives
  <1>9. CASE Phone
    BY <1>0, <1>9 DEF Phone, ChannelTypeOK, DownIsSilent, LoadArrives, PauseArrives
  <1>10. CASE UNCHANGED playerVars
    BY <1>1, <1>10 DEF playerVars, vars
  <1>11. QED
    BY <1>2, <1>3, <1>4, <1>5, <1>6, <1>7, <1>8, <1>9, <1>10 DEF PlayerNext

\* The last command of the thread is in the queue or has had its effect, unless it
\* failed, was lost, or somebody else has sent another one since.
THEOREM LastCommandCounts == PlayerSpec => []PlayerInv
  <1>1. ASSUME PlayerInit PROVE PlayerInv
    <2>1. /\ inbox = <<>> /\ ~playing /\ sent = NoUri /\ ~orphaned
          /\ up \in BOOLEAN
      BY <1>1, Zenon DEF PlayerInit, Init
    <2>2. QED
      BY <2>1 DEF PlayerInv, ChannelTypeOK, DownIsSilent, LoadArrives, PauseArrives,
                  OrphanHasNoTag
  <1>2. IInv /\ IInv' /\ PlayerInv /\ [PlayerNext]_playerVars => PlayerInv'
    BY PlayerStep
  <1>3. QED
    BY <1>1, <1>2, PlayerIsTagReader, Invariant, PTL DEF PlayerSpec

\* At rest, no tag is no music.
THEOREM Silence == PlayerSpec => []SilentWithoutTag
  <1>1. IInv /\ PlayerInv => SilentWithoutTag
    BY DEF IInv, CommandMatchesTag, PlayerInv, PauseArrives, LastIs, AtRest,
           SilentWithoutTag
  <1>2. QED
    BY <1>1, LastCommandCounts, PlayerIsTagReader, Invariant, PTL

\* At rest, the music is that of the tag.
THEOREM MusicOfTheTag == PlayerSpec => []PlaysTheTag
  <1>1. IInv /\ PlayerInv => PlaysTheTag
    BY DEF IInv, CommandMatchesTag, PlayerInv, LoadArrives, OrphanHasNoTag, LastIs,
           AtRest, PlaysTheTag
  <1>2. QED
    BY <1>1, LastCommandCounts, PlayerIsTagReader, Invariant, PTL
=============================================================================
