------------------------------ MODULE Lifecycle ------------------------------
(***************************************************************************)
(* The start and the end of pp3-core: main brings the tag thread, the user *)
(* interface and the librespot thread up in this order, gives back what it *)
(* has when one of them fails, runs until SIGINT, and takes them down.     *)
(* The threads use the LED line and the mutex of ui.c all the while.       *)
(***************************************************************************)
EXTENDS Naturals

VARIABLES
  main,          \* where main is; "returned" and "dead" have no process
  status,        \* what main will return
  g_is_running,  \* the flag of main.cpp, cleared by SIGINT
  tag, lib,      \* the tag thread and the librespot thread
  driver,        \* the tag reader is initialised
  chip, led,     \* the GPIO chip, and the line of the LED
  icons, menu,   \* the frame buffer and the terminal
  mutex,         \* the mutex around the track information
  server,        \* the event socket
  lit,           \* the level of the LED
  wanted,        \* history: the level the tag thread asked for last
  faults         \* history: what went wrong in this process

threads == <<tag, lib>>
gpio    == <<chip, led, lit>>
ghosts  == <<wanted, faults>>
display == <<icons, menu, mutex>>
vars    == <<main, status, g_is_running, threads, driver, gpio, display, server,
             ghosts>>

Starting == main \in {"tag_reader_init", "ui_init", "get_line", "request_output",
                      "request_events", "icons_init", "ui_menu_init",
                      "librespot_init"}

Stopping == main \in {"librespot_deinit", "ui_deinit", "tag_reader_deinit"}

Alive == main \notin {"returned", "dead"}

TypeOK ==
  /\ Starting \/ Stopping \/ main \in {"run", "returned", "dead"}
  /\ status \in {0, 1}
  /\ g_is_running \in BOOLEAN
  /\ tag \in {"none", "running", "told", "exited"}
  /\ lib \in {"none", "running", "told", "exited", "failed"}
  /\ driver \in BOOLEAN
  /\ chip \in BOOLEAN
  /\ led \in {"null", "got", "requested", "dangling"}
  /\ icons \in BOOLEAN /\ menu \in BOOLEAN
  /\ mutex \in {"raw", "live", "destroyed"}
  /\ server \in BOOLEAN
  /\ lit \in BOOLEAN /\ wanted \in BOOLEAN
  /\ faults \subseteq {"early", "led", "mutex", "join", "icons"}

Init ==
  /\ main = "tag_reader_init"
  /\ status = 0
  /\ g_is_running = TRUE
  /\ tag = "none" /\ lib = "none"
  /\ driver = FALSE
  /\ chip = FALSE /\ led = "null" /\ lit = FALSE /\ wanted = FALSE
  /\ icons = FALSE /\ menu = FALSE /\ mutex = "raw"
  /\ server = FALSE
  /\ faults = {}

-----------------------------------------------------------------------------
(***************************************************************************)
(* main, up to the loop.  A step that fails closes what its function has   *)
(* opened; main then undoes the rest in the order of its error paths.      *)
(***************************************************************************)
\* The thread is started last: when anything before it fails there is none.
TagReaderInit ==
  /\ main = "tag_reader_init"
  /\ \/ driver' = TRUE /\ tag' = "running" /\ main' = "ui_init" /\ UNCHANGED status
     \/ status' = 1 /\ main' = "returned" /\ UNCHANGED <<driver, tag>>
  /\ UNCHANGED <<g_is_running, lib, gpio, display, server, ghosts>>

\* ui_init has failed: the caller only calls tag_reader_deinit.
UiInitFails == status' = 1 /\ main' = "tag_reader_deinit"

\* gpiod_chip_close releases the lines; the pointer to the LED's stays, and its
\* level may.
ChipClosed ==
  /\ chip' = FALSE
  /\ led' = IF led = "null" THEN "null" ELSE "dangling"
  /\ lit' \in BOOLEAN /\ (lit' => lit)

OpenChip ==
  /\ main = "ui_init"
  /\ mutex' = "live"
  /\ \/ chip' = TRUE /\ main' = "get_line" /\ UNCHANGED status
     \/ UiInitFails /\ UNCHANGED chip
  /\ UNCHANGED <<g_is_running, threads, driver, led, lit, icons, menu, server, ghosts>>

GetLedLine ==
  /\ main = "get_line"
  /\ \/ led' = "got" /\ main' = "request_output" /\ UNCHANGED <<chip, lit, status>>
     \/ ChipClosed /\ UiInitFails
  /\ UNCHANGED <<g_is_running, threads, driver, display, server, ghosts>>

\* Faulty RequestLedOutput: the initial level is 1.
RequestLedOutputLit ==
  /\ main = "request_output"
  /\ \/ /\ led' = "requested"
        /\ lit' = TRUE
        /\ main' = "request_events"
        /\ UNCHANGED <<chip, status>>
     \/ ChipClosed /\ UiInitFails
  /\ UNCHANGED <<g_is_running, threads, driver, display, server, ghosts>>

RequestLedOutput ==
  /\ main = "request_output"
  /\ \/ /\ led' = "requested"
        /\ lit' = FALSE
        /\ main' = "request_events"
        /\ UNCHANGED <<chip, status>>
     \/ ChipClosed /\ UiInitFails
  /\ UNCHANGED <<g_is_running, threads, driver, display, server, ghosts>>

RequestButtonEvents ==
  /\ main = "request_events"
  /\ \/ main' = "icons_init" /\ UNCHANGED <<gpio, status>>
     \/ ChipClosed /\ UiInitFails
  /\ UNCHANGED <<g_is_running, threads, driver, display, server, ghosts>>

\* When the size of the screen is not to be had, the frame buffer is left open.
IconsInit ==
  /\ main = "icons_init"
  /\ \/ icons' = TRUE /\ main' = "ui_menu_init" /\ UNCHANGED <<gpio, status, faults>>
     \/ ChipClosed /\ UiInitFails /\ UNCHANGED <<icons, faults>>
     \/ icons' = TRUE /\ faults' = faults \cup {"icons"} /\ ChipClosed /\ UiInitFails
  /\ UNCHANGED <<g_is_running, threads, driver, menu, mutex, server, wanted>>

\* Faulty MenuInit: the error path forgets icons_deinit.
MenuInitLeavesIcons ==
  /\ main = "ui_menu_init"
  /\ \/ menu' = TRUE /\ main' = "librespot_init" /\ UNCHANGED <<gpio, status>>
     \/ ChipClosed /\ UiInitFails /\ UNCHANGED menu
  /\ UNCHANGED <<g_is_running, threads, driver, icons, mutex, server, ghosts>>

MenuInit ==
  /\ main = "ui_menu_init"
  /\ \/ menu' = TRUE /\ main' = "librespot_init" /\ UNCHANGED <<icons, gpio, status>>
     \/ icons' = FALSE /\ ChipClosed /\ UiInitFails /\ UNCHANGED menu
  /\ UNCHANGED <<g_is_running, threads, driver, mutex, server, ghosts>>

\* The socket may fail; the result of pthread_create is not looked at.
LibrespotInit ==
  /\ main = "librespot_init"
  /\ \/ /\ server' = TRUE
        /\ lib' \in {"running", "failed"}
        /\ main' = "run"
        /\ UNCHANGED status
     \/ status' = 1 /\ main' = "ui_deinit" /\ UNCHANGED <<server, lib>>
  /\ UNCHANGED <<g_is_running, tag, driver, gpio, display, ghosts>>

-----------------------------------------------------------------------------
(***************************************************************************)
(* main, from the loop on.                                                 *)
(***************************************************************************)
Sigint ==
  /\ Alive
  /\ g_is_running
  /\ g_is_running' = FALSE
  /\ UNCHANGED <<main, status, threads, driver, gpio, display, server, ghosts>>

\* Faulty LeaveLoop: the user interface is taken down first.
LeaveLoopToUiDeinit ==
  /\ main = "run"
  /\ ~g_is_running
  /\ main' = "ui_deinit"
  /\ UNCHANGED <<status, g_is_running, threads, driver, gpio, display, server,
                 ghosts>>

\* Faulty LeaveLoop: the thread is joined and was not told to stop.
LeaveLoopUntold ==
  /\ main = "run"
  /\ ~g_is_running
  /\ main' = "librespot_deinit"
  /\ UNCHANGED <<status, g_is_running, threads, driver, gpio, display, server,
                 ghosts>>

LeaveLoop ==
  /\ main = "run"
  /\ ~g_is_running
  /\ main' = "librespot_deinit"
  /\ lib' = IF lib = "running" THEN "told" ELSE lib
  /\ UNCHANGED <<status, g_is_running, tag, driver, gpio, display, server, ghosts>>

JoinLibrespot ==
  /\ main = "librespot_deinit"
  /\ lib = "exited"
  /\ server' = FALSE
  /\ main' = "ui_deinit"
  /\ UNCHANGED <<status, g_is_running, threads, driver, gpio, display, ghosts>>

\* pthread_join of the zero that g_thread_id has when no thread was created.
JoinNoThread ==
  /\ main = "librespot_deinit"
  /\ lib = "failed"
  /\ faults' = faults \cup {"join"}
  /\ main' = "dead"
  /\ UNCHANGED <<status, g_is_running, threads, driver, gpio, display, server,
                 wanted>>

UiDeinit ==
  /\ main = "ui_deinit"
  /\ icons' = FALSE
  /\ menu' = FALSE
  /\ ChipClosed
  /\ mutex' = "destroyed"
  /\ main' = "tag_reader_deinit"
  /\ UNCHANGED <<status, g_is_running, threads, driver, server, ghosts>>

StopTagThread ==
  /\ main = "tag_reader_deinit"
  /\ tag = "running"
  /\ tag' = "told"
  /\ UNCHANGED <<main, status, g_is_running, lib, driver, gpio, display, server,
                 ghosts>>

JoinTagThread ==
  /\ main = "tag_reader_deinit"
  /\ tag = "exited"
  /\ driver' = FALSE
  /\ main' = "returned"
  /\ UNCHANGED <<status, g_is_running, threads, gpio, display, server, ghosts>>

-----------------------------------------------------------------------------
(***************************************************************************)
(* The threads, as far as they use what main owns.                         *)
(***************************************************************************)
TagThreadRuns == Alive /\ tag \in {"running", "told"}
LibThreadRuns == Alive /\ lib \in {"running", "told"}

\* ui_led_on and ui_led_off on the line that main has requested.
UseLed ==
  /\ TagThreadRuns
  /\ led = "requested"
  /\ wanted' \in BOOLEAN
  /\ lit' = wanted'
  /\ UNCHANGED <<main, status, g_is_running, threads, driver, chip, led, display,
                 server, faults>>

\* A line that main has not requested yet: the library returns an error.
UseLedTooEarly ==
  /\ TagThreadRuns
  /\ led = "got"
  /\ wanted' \in BOOLEAN
  /\ faults' = faults \cup {"early"}
  /\ UNCHANGED <<main, status, g_is_running, threads, driver, gpio, display, server>>

\* No line yet, or one of a chip that has been closed: undefined behaviour, which
\* ends the process or leaves the LED as it is.
UseNoLed ==
  /\ TagThreadRuns
  /\ led \in {"null", "dangling"}
  /\ wanted' \in BOOLEAN
  /\ faults' = faults \cup {"led"}
  /\ main' \in {main, "dead"}
  /\ UNCHANGED <<status, g_is_running, threads, driver, gpio, display, server>>

TagThreadExits ==
  /\ Alive
  /\ tag = "told"
  /\ tag' = "exited"
  /\ UNCHANGED <<main, status, g_is_running, lib, driver, gpio, display, server,
                 ghosts>>

\* ui_update_track_info takes the mutex.
UpdateTrackInfo ==
  /\ LibThreadRuns
  /\ faults' = IF mutex = "live" THEN faults ELSE faults \cup {"mutex"}
  /\ UNCHANGED <<main, status, g_is_running, threads, driver, gpio, display, server,
                 wanted>>

LibThreadExits ==
  /\ Alive
  /\ lib = "told"
  /\ lib' = "exited"
  /\ UNCHANGED <<main, status, g_is_running, tag, driver, gpio, display, server,
                 ghosts>>

\* systemd starts the service again, whatever its exit status.
Restart ==
  /\ ~Alive
  /\ main' = "tag_reader_init"
  /\ status' = 0
  /\ g_is_running' = TRUE
  /\ tag' = "none" /\ lib' = "none"
  /\ driver' = FALSE
  /\ chip' = FALSE /\ led' = "null" /\ lit' = FALSE /\ wanted' = FALSE
  /\ icons' = FALSE /\ menu' = FALSE /\ mutex' = "raw"
  /\ server' = FALSE
  /\ faults' = {}

-----------------------------------------------------------------------------
MainThread ==
  \/ TagReaderInit \/ OpenChip \/ GetLedLine \/ RequestLedOutput
  \/ RequestButtonEvents \/ IconsInit \/ MenuInit \/ LibrespotInit
  \/ LeaveLoop \/ JoinLibrespot \/ JoinNoThread \/ UiDeinit
  \/ StopTagThread \/ JoinTagThread

Threads ==
  \/ UseLed \/ UseLedTooEarly \/ UseNoLed \/ TagThreadExits
  \/ UpdateTrackInfo \/ LibThreadExits

Next == MainThread \/ Threads \/ Sigint \/ Restart

Spec == Init /\ [][Next]_vars

\* Every thread runs; nothing is assumed of signals and restarts.
Fairness ==
  /\ WF_vars(MainThread)
  /\ WF_vars(TagThreadExits)
  /\ WF_vars(LibThreadExits)

FairSpec == Spec /\ Fairness

-----------------------------------------------------------------------------
\* In the loop everything that the threads and ui_process use is there.
ReadyInLoop ==
  main = "run" =>
    /\ driver /\ chip /\ icons /\ menu /\ server
    /\ led = "requested" /\ mutex = "live"
    /\ tag = "running"

\* The librespot thread never meets a mutex that is not initialised or already
\* destroyed: it starts after ui_init and is joined before ui_deinit.
MutexOutlivesItsUser == "mutex" \notin faults

\* In the loop the LED is as the tag thread wants it, unless a callback of the
\* thread, which runs before ui_init does, came before the line was requested.
LedObeysInLoop ==
  main = "run" /\ lit # wanted => "early" \in faults \/ "led" \in faults

\* When main returns, on whichever path, no thread is left and all that was opened
\* is closed, but for the frame buffer of the one path that leaves it open.
NothingLeft ==
  main = "returned" =>
    /\ tag \in {"none", "exited"} /\ lib \in {"none", "exited"}
    /\ ~driver /\ ~chip /\ ~menu /\ ~server
    /\ icons => "icons" \in faults

\* The order of the calls in main: the threads run while what they use is there, but
\* for the LED, which the tag thread outlives at either end.
Phases ==
  /\ main = "tag_reader_init" => tag = "none" /\ ~driver
  /\ Starting /\ main # "tag_reader_init" => tag = "running" /\ driver
  /\ main \in {"run", "librespot_deinit", "ui_deinit"} => tag = "running" /\ driver
  /\ main = "tag_reader_deinit" => tag # "none" /\ driver
  /\ Starting => lib = "none" /\ ~server
  /\ main = "run" => lib \in {"running", "failed"} /\ server
  /\ main = "librespot_deinit" => lib \in {"told", "exited", "failed"} /\ server
  /\ main \in {"ui_deinit", "tag_reader_deinit"} => lib \in {"none", "exited"} /\ ~server

\* What ui_init opens, step by step, and ui_deinit closes.
Interface ==
  /\ main \in {"tag_reader_init", "ui_init"} => ~chip /\ led = "null"
  /\ main = "tag_reader_init" => mutex = "raw"
  /\ main = "get_line" => chip /\ led = "null"
  /\ main = "request_output" => chip /\ led = "got"
  /\ main \in {"request_events", "icons_init", "ui_menu_init", "librespot_init",
               "run", "librespot_deinit", "ui_deinit"} => chip /\ led = "requested"
  /\ main \in {"get_line", "request_output", "request_events", "icons_init",
               "ui_menu_init", "librespot_init", "run", "librespot_deinit",
               "ui_deinit"} => mutex = "live"
  /\ main \in {"tag_reader_init", "ui_init", "get_line", "request_output",
               "request_events", "icons_init"} => ~icons /\ ~menu
  /\ main = "ui_menu_init" => icons /\ ~menu
  /\ main \in {"librespot_init", "run", "librespot_deinit", "ui_deinit"} => icons /\ menu
  /\ main = "tag_reader_deinit" =>
       /\ ~chip /\ ~menu
       /\ icons => "icons" \in faults

\* As long as no callback of the tag thread has met a missing line, the LED obeys.
LedObeys ==
  /\ led \in {"null", "got"} => ~lit
  /\ led \in {"null", "got", "requested"} /\ lit # wanted =>
       "early" \in faults \/ "led" \in faults

\* All that holds at every step of main, and what it is for.
Inv ==
  /\ TypeOK
  /\ Phases
  /\ Interface
  /\ LedObeys
  /\ ReadyInLoop
  /\ MutexOutlivesItsUser
  /\ NothingLeft

\* SIGINT ends the process.
SigintEnds == ~g_is_running ~> ~Alive
=============================================================================
