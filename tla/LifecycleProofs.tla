-------------------------- MODULE LifecycleProofs ---------------------------
(***************************************************************************)
(* Lifecycle: Inv is inductive.  There are no constants, so TLC has seen   *)
(* every state; the proof says why: each step of main leaves to the next   *)
(* what that one relies on, and no step of a thread takes it away.         *)
(***************************************************************************)
EXTENDS Lifecycle, TLAPS

\* A process starts with nothing open and no thread.
LEMMA StartInv ==
  Init => Inv
  BY DEF Init, Inv, TypeOK, Phases, Interface, LedObeys, ReadyInLoop,
         MutexOutlivesItsUser, NothingLeft, Starting, Stopping

\* ui_init fails after the chip was opened: all of it is closed again, but for the
\* frame buffer on one path.
LEMMA InterfaceFailureKeepsInv ==
  ASSUME Inv, UiInitFails, ChipClosed, ~menu,
         main \in {"get_line", "request_output", "request_events", "icons_init",
                   "ui_menu_init"},
         UNCHANGED <<g_is_running, threads, driver, menu, mutex, server, wanted>>,
         \/ ~icons' /\ icons' \in BOOLEAN /\ faults' = faults
         \/ icons' = TRUE /\ faults' = faults \cup {"icons"}
  PROVE  Inv'
  <1>1. chip' \in BOOLEAN /\ lit' \in BOOLEAN /\ icons' \in BOOLEAN /\ menu' \in BOOLEAN
    BY DEF Inv, TypeOK, ChipClosed
  <1>2. status' \in {0, 1} /\ main' = "tag_reader_deinit"
    BY DEF UiInitFails
  <1>3. led' \in {"null", "dangling"} /\ faults \subseteq faults'
    BY DEF ChipClosed
  <1>4. faults' \subseteq {"early", "led", "mutex", "join", "icons"}
    BY DEF Inv, TypeOK
  <1>5. TypeOK'
    BY <1>1, <1>2, <1>3, <1>4 DEF Inv, TypeOK, Starting, Stopping, threads
  <1>6. Phases'
    BY <1>2 DEF Inv, Phases, Starting, threads
  <1>7. Interface'
    BY <1>2 DEF Inv, Interface, ChipClosed
  <1>8. LedObeys'
    <2>1. CASE led = "null"
      <3>1. ~lit /\ ~lit'
        BY <2>1 DEF Inv, LedObeys, ChipClosed
      <3>2. lit \in BOOLEAN /\ lit' = lit
        BY <3>1, <1>1 DEF Inv, TypeOK
      <3>3. QED
        BY <3>1, <3>2, <1>3, <2>1 DEF Inv, LedObeys
    <2>2. CASE led # "null"
      BY <2>2 DEF LedObeys, ChipClosed
    <2>3. QED
      BY <2>1, <2>2
  <1>9. (ReadyInLoop /\ NothingLeft)'
    BY <1>2 DEF ReadyInLoop, NothingLeft
  <1>10. MutexOutlivesItsUser'
    BY DEF Inv, MutexOutlivesItsUser
  <1>11. QED
    BY <1>5, <1>6, <1>7, <1>8, <1>9, <1>10 DEF Inv

\* Up to the loop: a step opens one thing, or gives back what there is so far.
LEMMA StartKeepsInv ==
  ASSUME Inv,
         \/ TagReaderInit \/ OpenChip \/ GetLedLine \/ RequestLedOutput
         \/ RequestButtonEvents \/ IconsInit \/ MenuInit \/ LibrespotInit
  PROVE  Inv'
  <1> USE DEF Inv
  <1>1. CASE TagReaderInit
    <2> USE <1>1 DEF TagReaderInit
    <2>1. driver' \in BOOLEAN
      BY DEF TypeOK, gpio, display
    <2>2. TypeOK'
      BY <2>1 DEF TypeOK, Starting, Stopping, threads, gpio, display, ghosts
    <2>3. Phases'
      BY DEF Phases, TypeOK, Starting, threads
    <2>4. Interface'
      BY DEF Interface, gpio, display, ghosts
    <2>5. LedObeys'
      BY DEF LedObeys, Interface, gpio, ghosts
    <2>6. (ReadyInLoop /\ MutexOutlivesItsUser /\ NothingLeft)'
      BY DEF ReadyInLoop, MutexOutlivesItsUser, NothingLeft, Phases, Interface,
             Starting, threads, gpio, display, ghosts
    <2>7. QED
      BY <2>2, <2>3, <2>4, <2>5, <2>6 DEF Inv
  <1>2. CASE OpenChip
    <2> USE <1>2 DEF OpenChip, UiInitFails
    <2>1. chip' \in BOOLEAN
      BY DEF TypeOK, gpio, display
    <2>2. TypeOK'
      BY <2>1 DEF TypeOK, Starting, Stopping, threads, gpio, display, ghosts
    <2>3. Phases'
      BY DEF Phases, TypeOK, Starting, threads
    <2>4. Interface'
      BY DEF Interface, gpio, display, ghosts
    <2>5. LedObeys'
      BY DEF LedObeys, Interface, gpio, ghosts
    <2>6. (ReadyInLoop /\ MutexOutlivesItsUser /\ NothingLeft)'
      BY DEF ReadyInLoop, MutexOutlivesItsUser, NothingLeft, Phases, Interface,
             Starting, threads, gpio, display, ghosts
    <2>7. QED
      BY <2>2, <2>3, <2>4, <2>5, <2>6 DEF Inv
  <1>3. CASE GetLedLine
    <2>1. CASE led' = "got" /\ main' = "request_output" /\ UNCHANGED <<chip, lit, status>>
      <3> USE <1>3, <2>1 DEF GetLedLine
      <3>1. TypeOK'
        BY DEF TypeOK, Starting, Stopping, threads, gpio, display, ghosts
      <3>2. Phases'
        BY DEF Phases, TypeOK, Starting, threads
      <3>3. Interface'
        BY DEF Interface, gpio, display, ghosts
      <3>4. LedObeys'
        BY DEF LedObeys, Interface, gpio, ghosts
      <3>5. (ReadyInLoop /\ MutexOutlivesItsUser /\ NothingLeft)'
        BY DEF ReadyInLoop, MutexOutlivesItsUser, NothingLeft, Phases, Interface,
               Starting, threads, gpio, display, ghosts
      <3>6. QED
        BY <3>1, <3>2, <3>3, <3>4, <3>5 DEF Inv
    <2>2. CASE ChipClosed /\ UiInitFails
      BY <1>3, <2>2, InterfaceFailureKeepsInv
         DEF GetLedLine, TypeOK, Interface, threads, display, ghosts
    <2>3. QED
      BY <1>3, <2>1, <2>2 DEF GetLedLine
  <1>4. CASE RequestLedOutput
    <2>1. CASE /\ led' = "requested" /\ lit' = FALSE /\ main' = "request_events"
              /\ UNCHANGED <<chip, status>>
      <3> USE <1>4, <2>1 DEF RequestLedOutput
      <3>1. lit' \in BOOLEAN
        BY DEF TypeOK, gpio, display
      <3>2. TypeOK'
        BY <3>1 DEF TypeOK, Starting, Stopping, threads, gpio, display, ghosts
      <3>3. Phases'
        BY DEF Phases, TypeOK, Starting, threads
      <3>4. Interface'
        BY DEF Interface, gpio, display, ghosts
      <3>5. LedObeys'
        <4>1. ~lit /\ lit \in BOOLEAN
          BY DEF LedObeys, Interface, TypeOK
        <4>2. lit' = lit
          BY <4>1
        <4>3. QED
          BY <4>1, <4>2 DEF LedObeys, Interface, ghosts
      <3>6. (ReadyInLoop /\ MutexOutlivesItsUser /\ NothingLeft)'
        BY DEF ReadyInLoop, MutexOutlivesItsUser, NothingLeft, Phases, Interface,
               Starting, threads, gpio, display, ghosts
      <3>7. QED
        BY <3>2, <3>3, <3>4, <3>5, <3>6 DEF Inv
    <2>2. CASE ChipClosed /\ UiInitFails
      BY <1>4, <2>2, InterfaceFailureKeepsInv
         DEF RequestLedOutput, TypeOK, Interface, threads, display, ghosts
    <2>3. QED
      BY <1>4, <2>1, <2>2 DEF RequestLedOutput
  <1>5. CASE RequestButtonEvents
    <2>1. CASE main' = "icons_init" /\ UNCHANGED <<gpio, status>>
      <3> USE <1>5, <2>1 DEF RequestButtonEvents
      <3>1. TypeOK'
        BY DEF TypeOK, Starting, Stopping, threads, gpio, display, ghosts
      <3>2. Phases'
        BY DEF Phases, TypeOK, Starting, threads
      <3>3. Interface'
        BY DEF Interface, gpio, display, ghosts
      <3>4. LedObeys'
        BY DEF LedObeys, Interface, gpio, ghosts
      <3>5. (ReadyInLoop /\ MutexOutlivesItsUser /\ NothingLeft)'
        BY DEF ReadyInLoop, MutexOutlivesItsUser, NothingLeft, Phases, Interface,
               Starting, threads, gpio, display, ghosts
      <3>6. QED
        BY <3>1, <3>2, <3>3, <3>4, <3>5 DEF Inv
    <2>2. CASE ChipClosed /\ UiInitFails
      BY <1>5, <2>2, InterfaceFailureKeepsInv
         DEF RequestButtonEvents, TypeOK, Interface, threads, display, ghosts
    <2>3. QED
      BY <1>5, <2>1, <2>2 DEF RequestButtonEvents
  <1>6. CASE IconsInit
    <2>1. CASE /\ icons' = TRUE /\ main' = "ui_menu_init"
              /\ UNCHANGED <<gpio, status, faults>>
      <3> USE <1>6, <2>1 DEF IconsInit
      <3>1. icons' \in BOOLEAN
        BY DEF TypeOK, gpio, display
      <3>2. TypeOK'
        BY <3>1 DEF TypeOK, Starting, Stopping, threads, gpio, display, ghosts
      <3>3. Phases'
        BY DEF Phases, TypeOK, Starting, threads
      <3>4. Interface'
        BY DEF Interface, gpio, display, ghosts
      <3>5. LedObeys'
        BY DEF LedObeys, Interface, gpio, ghosts
      <3>6. (ReadyInLoop /\ MutexOutlivesItsUser /\ NothingLeft)'
        BY DEF ReadyInLoop, MutexOutlivesItsUser, NothingLeft, Phases, Interface,
               Starting, threads, gpio, display, ghosts
      <3>7. QED
        BY <3>2, <3>3, <3>4, <3>5, <3>6 DEF Inv
    <2>2. CASE ChipClosed /\ UiInitFails
      <3>1. ~icons /\ icons \in BOOLEAN /\ ~menu /\ main = "icons_init"
        BY <1>6 DEF IconsInit, Interface, TypeOK
      <3>2. UNCHANGED <<g_is_running, threads, driver, menu, mutex, server, wanted>>
        BY <1>6 DEF IconsInit
      <3>3. \/ ~icons' /\ icons' \in BOOLEAN /\ faults' = faults
            \/ icons' = TRUE /\ faults' = faults \cup {"icons"}
        BY <1>6, <2>2, <3>1 DEF IconsInit, UiInitFails
      <3>4. QED
        BY <2>2, <3>1, <3>2, <3>3, InterfaceFailureKeepsInv
    <2>3. QED
      BY <1>6, <2>1, <2>2 DEF IconsInit
  <1>7. CASE MenuInit
    <2>1. CASE /\ menu' = TRUE /\ main' = "librespot_init"
              /\ UNCHANGED <<icons, gpio, status>>
      <3> USE <1>7, <2>1 DEF MenuInit
      <3>1. menu' \in BOOLEAN
        BY DEF TypeOK, gpio, display
      <3>2. TypeOK'
        BY <3>1 DEF TypeOK, Starting, Stopping, threads, gpio, display, ghosts
      <3>3. Phases'
        BY DEF Phases, TypeOK, Starting, threads
      <3>4. Interface'
        BY DEF Interface, gpio, display, ghosts
      <3>5. LedObeys'
        BY DEF LedObeys, Interface, gpio, ghosts
      <3>6. (ReadyInLoop /\ MutexOutlivesItsUser /\ NothingLeft)'
        BY DEF ReadyInLoop, MutexOutlivesItsUser, NothingLeft, Phases, Interface,
               Starting, threads, gpio, display, ghosts
      <3>7. QED
        BY <3>2, <3>3, <3>4, <3>5, <3>6 DEF Inv
    <2>2. CASE icons' = FALSE /\ ChipClosed /\ UiInitFails /\ UNCHANGED menu
      <3>1. ~icons' /\ icons' \in BOOLEAN
        BY <2>2
      <3>2. ~menu /\ main = "ui_menu_init"
        BY <1>7 DEF MenuInit, Interface
      <3>3. UNCHANGED <<g_is_running, threads, driver, menu, mutex, server, wanted, faults>>
        BY <1>7, <2>2 DEF MenuInit, ghosts
      <3>4. QED
        BY <2>2, <3>1, <3>2, <3>3, InterfaceFailureKeepsInv
    <2>3. QED
      BY <1>7, <2>1, <2>2 DEF MenuInit
  <1>8. CASE LibrespotInit
    <2> USE <1>8 DEF LibrespotInit
    <2>1. server' \in BOOLEAN
      BY DEF TypeOK, gpio, display
    <2>2. TypeOK'
      BY <2>1 DEF TypeOK, Starting, Stopping, threads, gpio, display, ghosts
    <2>3. Phases'
      BY DEF Phases, TypeOK, Starting, threads
    <2>4. Interface'
      BY DEF Interface, gpio, display, ghosts
    <2>5. LedObeys'
      BY DEF LedObeys, Interface, gpio, ghosts
    <2>6. (ReadyInLoop /\ MutexOutlivesItsUser /\ NothingLeft)'
      BY DEF ReadyInLoop, MutexOutlivesItsUser, NothingLeft, Phases, Interface,
             Starting, threads, gpio, display, ghosts
    <2>7. QED
      BY <2>2, <2>3, <2>4, <2>5, <2>6 DEF Inv
  <1>9. QED
    BY <1>1, <1>2, <1>3, <1>4, <1>5, <1>6, <1>7, <1>8

\* From the loop on: each thread is joined before what it uses is closed, but for the
\* LED of the tag thread.
LEMMA EndKeepsInv ==
  ASSUME Inv,
         \/ LeaveLoop \/ JoinLibrespot \/ JoinNoThread \/ UiDeinit
         \/ StopTagThread \/ JoinTagThread
  PROVE  Inv'
  <1> USE DEF Inv, TypeOK, Phases, Interface, LedObeys, ReadyInLoop,
              MutexOutlivesItsUser, NothingLeft, Starting, Stopping,
              threads, gpio, display, ghosts, ChipClosed
  <1>1. CASE LeaveLoop
    BY <1>1 DEF LeaveLoop
  <1>2. CASE JoinLibrespot
    BY <1>2 DEF JoinLibrespot
  <1>3. CASE JoinNoThread
    BY <1>3 DEF JoinNoThread
  <1>4. CASE UiDeinit
    BY <1>4 DEF UiDeinit
  <1>5. CASE StopTagThread
    BY <1>5 DEF StopTagThread
  <1>6. CASE JoinTagThread
    <2> USE <1>6 DEF JoinTagThread
    <2>1. driver' \in BOOLEAN
      BY DEF TypeOK, gpio, display
    <2>2. TypeOK'
      BY <2>1 DEF TypeOK, Starting, Stopping, threads, gpio, display, ghosts
    <2>3. Phases'
      BY DEF Phases, TypeOK, Starting, threads
    <2>4. Interface'
      BY DEF Interface, gpio, display, ghosts
    <2>5. LedObeys'
      BY DEF LedObeys, Interface, gpio, ghosts
    <2>6. (ReadyInLoop /\ MutexOutlivesItsUser /\ NothingLeft)'
      BY DEF ReadyInLoop, MutexOutlivesItsUser, NothingLeft, Phases, Interface,
             Starting, threads, gpio, display, ghosts
    <2>7. QED
      BY <2>2, <2>3, <2>4, <2>5, <2>6 DEF Inv
  <1>7. QED
    BY <1>1, <1>2, <1>3, <1>4, <1>5, <1>6

\* The threads change nothing that main relies on.
LEMMA ThreadsKeepInv ==
  ASSUME Inv, Threads PROVE Inv'
  <1> USE DEF Inv, TypeOK, Phases, Interface, LedObeys, ReadyInLoop,
              MutexOutlivesItsUser, NothingLeft, Starting, Stopping, Alive,
              threads, gpio, display, ghosts, TagThreadRuns, LibThreadRuns
  <1>1. CASE UseLed
    BY <1>1 DEF UseLed
  <1>2. CASE UseLedTooEarly
    BY <1>2 DEF UseLedTooEarly
  <1>3. CASE UseNoLed
    BY <1>3 DEF UseNoLed
  <1>4. CASE TagThreadExits
    BY <1>4 DEF TagThreadExits
  <1>5. CASE UpdateTrackInfo
    BY <1>5 DEF UpdateTrackInfo
  <1>6. CASE LibThreadExits
    BY <1>6 DEF LibThreadExits
  <1>7. QED
    BY <1>1, <1>2, <1>3, <1>4, <1>5, <1>6 DEF Threads

\* SIGINT touches only its flag, and a new process starts as the first one did.
LEMMA SignalsKeepInv ==
  ASSUME Inv, Sigint \/ Restart PROVE Inv'
  <1> USE DEF Inv, TypeOK, Phases, Interface, LedObeys, ReadyInLoop,
              MutexOutlivesItsUser, NothingLeft, Starting, Stopping,
              threads, gpio, display, ghosts
  <1>1. CASE Sigint
    <2> USE <1>1 DEF Sigint
    <2>1. g_is_running' \in BOOLEAN
      BY DEF TypeOK, gpio, display
    <2>2. TypeOK'
      BY <2>1 DEF TypeOK, Starting, Stopping, threads, gpio, display, ghosts
    <2>3. Phases'
      BY DEF Phases, TypeOK, Starting, threads
    <2>4. Interface'
      BY DEF Interface, gpio, display, ghosts
    <2>5. LedObeys'
      BY DEF LedObeys, Interface, gpio, ghosts
    <2>6. (ReadyInLoop /\ MutexOutlivesItsUser /\ NothingLeft)'
      BY DEF ReadyInLoop, MutexOutlivesItsUser, NothingLeft, Phases, Interface,
             Starting, threads, gpio, display, ghosts
    <2>7. QED
      BY <2>2, <2>3, <2>4, <2>5, <2>6 DEF Inv
  <1>2. CASE Restart
    BY <1>2 DEF Restart
  <1>3. QED
    BY <1>1, <1>2

\* At every step of main, on every path, what is open, which threads there are and
\* what the LED shows is what the step relies on.
THEOREM EveryPhaseInOrder == Spec => []Inv
  <1>1. ASSUME Inv, UNCHANGED vars PROVE Inv'
    BY <1>1 DEF Inv, TypeOK, Phases, Interface, LedObeys, ReadyInLoop,
                MutexOutlivesItsUser, NothingLeft, Starting, Stopping, vars,
                threads, gpio, display, ghosts
  <1>2. Inv /\ [Next]_vars => Inv'
    BY <1>1, StartKeepsInv, EndKeepsInv, ThreadsKeepInv, SignalsKeepInv
       DEF Next, MainThread
  <1>3. QED
    BY StartInv, <1>2, PTL DEF Spec

\* The librespot thread takes the mutex only while it is initialised.
THEOREM MutexSafe == Spec => []MutexOutlivesItsUser
  <1>1. Inv => MutexOutlivesItsUser
    BY DEF Inv
  <1>2. QED
    BY EveryPhaseInOrder, <1>1, PTL

\* In the loop the LED differs from what the tag thread asked for only after one of
\* its callbacks came before the line was requested.
THEOREM LedFollows == Spec => []LedObeysInLoop
  <1>1. Inv => LedObeysInLoop
    BY DEF Inv, LedObeys, LedObeysInLoop, Interface
  <1>2. QED
    BY EveryPhaseInOrder, <1>1, PTL

\* main returns without a thread, a device or a terminal left open, but for the frame
\* buffer of the one path that forgets it.
THEOREM EverythingReleased == Spec => []NothingLeft
  <1>1. Inv => NothingLeft
    BY DEF Inv
  <1>2. QED
    BY EveryPhaseInOrder, <1>1, PTL

-----------------------------------------------------------------------------
\* How many steps main still takes at most, from any of them to its end.
StepsLeft ==
  CASE main = "tag_reader_init"   -> 13
    [] main = "ui_init"           -> 12
    [] main = "get_line"          -> 11
    [] main = "request_output"    -> 10
    [] main = "request_events"    -> 9
    [] main = "icons_init"        -> 8
    [] main = "ui_menu_init"      -> 7
    [] main = "librespot_init"    -> 6
    [] main = "run"               -> 5
    [] main = "librespot_deinit"  -> 4
    [] main = "ui_deinit"         -> 3
    [] main = "tag_reader_deinit" -> IF tag = "running" THEN 2 ELSE 1
    [] OTHER                      -> 0

\* main goes through its start and its end once: on every path, with any step failing,
\* each of its steps is nearer to the return, and no thread and no signal sends it back.
\* (What is left of SigintEnds is that a step of main can be taken.)
THEOREM MainGoesForward ==
  Spec => /\ [][MainThread => StepsLeft' < StepsLeft]_vars
          /\ [][~Restart => StepsLeft' <= StepsLeft]_vars
  <1>1. ASSUME Inv, MainThread PROVE StepsLeft' < StepsLeft
    <2> USE DEF StepsLeft
    <2>1. CASE TagReaderInit \/ OpenChip \/ GetLedLine \/ RequestLedOutput
      BY <2>1 DEF TagReaderInit, OpenChip, GetLedLine, RequestLedOutput, UiInitFails
    <2>2. CASE RequestButtonEvents \/ IconsInit \/ MenuInit \/ LibrespotInit
      BY <2>2 DEF RequestButtonEvents, IconsInit, MenuInit, LibrespotInit, UiInitFails
    <2>3. CASE LeaveLoop \/ JoinLibrespot \/ JoinNoThread \/ UiDeinit
      BY <2>3 DEF LeaveLoop, JoinLibrespot, JoinNoThread, UiDeinit
    <2>4. CASE StopTagThread \/ JoinTagThread
      BY <2>4 DEF StopTagThread, JoinTagThread
    <2>5. QED
      BY <1>1, <2>1, <2>2, <2>3, <2>4 DEF MainThread
  <1>2. StepsLeft \in 0..13
    BY DEF StepsLeft
  <1>3. (StepsLeft \in 0..13)'
    BY DEF StepsLeft
  <1>4. ASSUME Inv, [Next]_vars, ~Restart PROVE StepsLeft' <= StepsLeft
    <2>1. CASE MainThread
      BY <1>1, <1>2, <1>3, <1>4, <2>1
    <2>2. CASE UNCHANGED <<main, tag>>
      BY <1>2, <2>2 DEF StepsLeft
    <2>3. CASE UseNoLed
      BY <2>3 DEF UseNoLed, StepsLeft, threads
    <2>4. CASE TagThreadExits
      BY <2>4 DEF TagThreadExits, StepsLeft
    <2>5. QED
      BY <1>4, <2>1, <2>2, <2>3, <2>4
         DEF Next, Threads, UseLed, UseLedTooEarly, UpdateTrackInfo, LibThreadExits,
             Sigint, vars, threads
  <1>5. Inv /\ [Next]_vars => /\ [MainThread => StepsLeft' < StepsLeft]_vars
                              /\ [~Restart => StepsLeft' <= StepsLeft]_vars
    BY <1>1, <1>4
  <1>6. QED
    BY EveryPhaseInOrder, <1>5, PTL DEF Spec
=============================================================================
