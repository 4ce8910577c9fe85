-------------------------------- MODULE Menu --------------------------------
(***************************************************************************)
(* The buttons and menus of the main thread (ui_process): presses wait in  *)
(* the kernel, one queue for each line; an iteration takes one from every  *)
(* line that has some, left before right; without any it goes back to the  *)
(* status screen once g_last_ts_all is old enough.  The list behind the    *)
(* Bluetooth menu lives from menu_bt_init to menu_bt_deinit.               *)
(***************************************************************************)
EXTENDS BtDevices

CONSTANTS QueueSize,  \* presses that a line's queue holds
          ClockSets   \* bound: how often the wall clock is set

ASSUME QueueSizeAssumption == QueueSize \in Nat \ {0}
ASSUME ClockSetsAssumption == ClockSets \in Nat

VARIABLES
  pressed,   \* presses that wait in the kernel, by line
  ready,     \* lines that this iteration has still to handle
  menu,      \* g_current_menu
  last,      \* g_last_ts_all: "recent", "old" (MENU_TIMEOUT_MS ago), "zero"
  cursor,    \* current_item(g_menu)
  count,     \* g_bt_devices_count, before its conversion to unsigned
  devices,   \* g_bt_devices: "null", "live" or "freed"
  items,     \* how many items g_menu_bt has
  btCursor,  \* current_item(g_menu_bt), 0 if it has none
  stray,     \* whether the userptr of ncurses' default item is that of a device
  leaked,    \* kinds of memory that nothing points to any more
  posted,    \* the menus that are posted in g_menu_win
  screen,    \* what the display shows
  alive,     \* FALSE after a use of memory that is not there
  sets       \* how often the clock has been set

buttons == <<pressed, ready>>
list    == <<count, devices, items, btCursor, stray>>
vars    == <<buttons, menu, last, cursor, list, leaked, posted, screen, alive, sets>>

Lines == {"left", "right"}

\* The items of choices[]: three commands, "Bluetooth" and "Power off".
Bluetooth == 4
PowerOff  == 5

TypeOK ==
  /\ pressed \in [Lines -> 0..QueueSize]
  /\ ready \subseteq Lines
  /\ menu \in {"none", "main", "bt"}
  /\ last \in {"recent", "old", "zero"}
  /\ cursor \in 1..PowerOff
  /\ count \in {DeviceListGet(reply).count : reply \in Replies} \cup {0}
  /\ devices \in {"null", "live", "freed"}
  /\ items \in 0..(IF count > 0 THEN count ELSE 0)
  /\ btCursor \in 0..items
  /\ stray \in BOOLEAN
  /\ leaked \subseteq ListBlocks \cup OtherBlocks
  /\ posted \subseteq {"main", "bt"}
  /\ screen \in {"blank", "status", "main", "bt", "message"}
  /\ alive \in BOOLEAN
  /\ sets \in 0..ClockSets

Init ==
  /\ pressed = [line \in Lines |-> 0]
  /\ ready = {}
  /\ menu = "none"
  /\ last = "zero"
  /\ cursor = 1
  /\ count = 0 /\ devices = "null" /\ items = 0 /\ btCursor = 0 /\ stray = FALSE
  /\ leaked = {}
  /\ posted = {}
  /\ screen = "blank"
  /\ alive = TRUE
  /\ sets = 0

-----------------------------------------------------------------------------
(***************************************************************************)
(* Outside the thread: fingers, the clock, systemd.                        *)
(***************************************************************************)
\* The kernel drops an edge that finds the queue of its line full.
Press(line) ==
  /\ alive
  /\ pressed[line] < QueueSize
  /\ pressed' = [pressed EXCEPT ![line] = @ + 1]
  /\ UNCHANGED <<ready, menu, last, cursor, list, leaked, posted, screen, alive, sets>>

TimePasses ==
  /\ last = "recent"
  /\ last' = "old"
  /\ UNCHANGED <<buttons, menu, cursor, list, leaked, posted, screen, alive, sets>>

\* millis() reads CLOCK_REALTIME, which jumps when the time comes from the network.
ClockSet ==
  /\ sets < ClockSets
  /\ sets' = sets + 1
  /\ last # "zero"
  /\ last' \in {"recent", "old"}
  /\ UNCHANGED <<buttons, menu, cursor, list, leaked, posted, screen, alive>>

\* The new process requests the lines anew: what was in the queues is gone.
Restart ==
  /\ ~alive
  /\ pressed' = [line \in Lines |-> 0]
  /\ ready' = {}
  /\ menu' = "none"
  /\ last' = "zero"
  /\ cursor' = 1
  /\ count' = 0 /\ devices' = "null" /\ items' = 0 /\ btCursor' = 0 /\ stray' = FALSE
  /\ leaked' = {}
  /\ posted' = {}
  /\ screen' = "blank"
  /\ alive' = TRUE
  /\ UNCHANGED sets

-----------------------------------------------------------------------------
\* Faulty WaitReturnsEvents: one line only, the left button's if it has any.
WaitReturnsFirst ==
  /\ alive
  /\ ready = {}
  /\ ready' = IF pressed["left"] > 0 THEN {"left"}
              ELSE {line \in Lines : pressed[line] > 0}
  /\ ready' # {}
  /\ UNCHANGED <<pressed, menu, last, cursor, list, leaked, posted, screen, alive, sets>>

(***************************************************************************)
(* ui_process: gpiod_line_event_wait_bulk, then one event of each line.    *)
(***************************************************************************)
WaitReturnsEvents ==
  /\ alive
  /\ ready = {}
  /\ ready' = {line \in Lines : pressed[line] > 0}
  /\ ready' # {}
  /\ UNCHANGED <<pressed, menu, last, cursor, list, leaked, posted, screen, alive, sets>>

\* The line whose turn it is: g_line_offsets has the left button first.
Turn(line) == alive /\ line \in ready /\ (line = "right" => "left" \notin ready)

Taken(line) ==
  /\ Turn(line)
  /\ pressed' = [pressed EXCEPT ![line] = @ - 1]
  /\ ready' = ready \ {line}

\* gpiod_line_event_read fails: the edge is still there for the next wait.
EdgeUnread(line) ==
  /\ Turn(line)
  /\ ready' = ready \ {line}
  /\ UNCHANGED <<pressed, menu, last, cursor, list, leaked, posted, screen, alive, sets>>

\* An edge less than DEBOUNCE_PERIOD_MS after the last one.
IgnoreEdge(line) ==
  /\ Taken(line)
  /\ UNCHANGED <<menu, last, cursor, list, leaked, posted, screen, alive, sets>>

\* The first press only brings the menu, with the cursor where it was left.
ShowMainMenu(line) ==
  /\ menu = "none"
  /\ Taken(line)
  /\ menu' = "main"
  /\ last' = "recent"
  /\ posted' = posted \cup {"main"}
  /\ screen' = "main"
  /\ UNCHANGED <<cursor, list, leaked, alive, sets>>

\* Faulty NextItem: REQ_DOWN_ITEM at the last item, too.
NextItemOffByOne ==
  /\ menu = "main"
  /\ Taken("left")
  /\ last' = "recent"
  /\ cursor' = IF cursor > PowerOff THEN 1 ELSE cursor + 1
  /\ screen' = "main"
  /\ UNCHANGED <<menu, list, leaked, posted, alive, sets>>

NextItem ==
  /\ menu = "main"
  /\ Taken("left")
  /\ last' = "recent"
  /\ cursor' = IF cursor = PowerOff THEN 1 ELSE cursor + 1
  /\ screen' = "main"
  /\ UNCHANGED <<menu, list, leaked, posted, alive, sets>>

\* menu_action_play_pause, _next and _prev: the command is Player's part.
CommandItem ==
  /\ menu = "main" /\ cursor < Bluetooth
  /\ Taken("right")
  /\ last' = "zero"
  /\ UNCHANGED <<menu, cursor, list, leaked, posted, screen, alive, sets>>

\* menu_action_power_off: what follows "sudo halt" is systemd's.
PowerOffItem ==
  /\ menu = "main" /\ cursor = PowerOff
  /\ Taken("right")
  /\ last' = "recent"
  /\ UNCHANGED <<menu, cursor, list, leaked, posted, screen, alive, sets>>

\* How many items come before the first name that new_item makes none of: its NULL
\* ends the menu.
ItemsOf(reply) ==
  LET listed == DeviceListGet(reply).list
  IN Cardinality({i \in listed : \A j \in listed : j <= i => reply.objects[j].named})

\* menu_bt_init.  Without such a NULL new_menu reads one element beyond
\* g_menu_bt_items, and the process goes on only if there happens to be one.  A
\* result of -1 is a count of 2^32 - 1 here: the loop reads what is no list.
BtInit ==
  \E reply \in Replies : LET got == DeviceListGet(reply) IN
    /\ count' = got.count
    /\ devices' = IF count' > 0 THEN "live" ELSE IF count' = 0 THEN "null" ELSE devices
    /\ items' = ItemsOf(reply)
    /\ btCursor' = IF items' > 0 THEN 1 ELSE 0
    /\ stray' = (stray \/ \E i \in DeviceListGet(reply).list : ~reply.objects[i].named)
    /\ leaked' = leaked \cup got.lost
    /\ alive' \in IF count' > 0 /\ items' = count' THEN BOOLEAN ELSE {count' >= 0}

\* Faulty OpenBtMenu: the main menu is not unposted.
OpenBtMenuOverMain ==
  /\ menu = "main" /\ cursor = Bluetooth
  /\ Taken("right")
  /\ last' = "recent"
  /\ menu' = "bt"
  /\ BtInit
  /\ posted' \in IF items' > 0 THEN {posted, posted \cup {"bt"}} ELSE {posted}
  /\ screen' = IF "bt" \in posted' THEN "bt" ELSE "blank"
  /\ UNCHANGED <<cursor, sets>>

\* menu_action_bt.  post_menu refuses a menu without items, and one too long or too
\* wide for the window.
OpenBtMenu ==
  /\ menu = "main" /\ cursor = Bluetooth
  /\ Taken("right")
  /\ last' = "recent"
  /\ menu' = "bt"
  /\ BtInit
  /\ posted' \in IF items' > 0 THEN {{}, {"bt"}} ELSE {{}}
  /\ screen' = IF posted' = {} THEN "blank" ELSE "bt"
  /\ UNCHANGED <<cursor, sets>>

\* With no device, g_menu_bt_items[g_bt_devices_count - 1] is 2^32 - 1 elements
\* away.  At the last item that the menu has, the cursor returns only if that is the
\* item of the last device; menu_driver does nothing in a menu that is not posted.
NextBtItem ==
  /\ menu = "bt"
  /\ Taken("left")
  /\ last' = "recent"
  /\ alive' = (count > 0)
  /\ btCursor' = CASE "bt" \notin posted -> btCursor
                   [] "bt" \in posted /\ btCursor < items -> btCursor + 1
                   [] "bt" \in posted /\ btCursor = items ->
                        IF items = count THEN 1 ELSE btCursor
  /\ screen' = IF "bt" \in posted THEN "bt" ELSE screen
  /\ UNCHANGED <<menu, cursor, count, devices, items, stray, leaked, posted, sets>>

\* bt_device_connect and the two seconds of sleep; the name of the device is read
\* from the list.  Where current_item is NULL, the device is that of ncurses' default
\* item: the last one whose name made no item.  In an empty list it is NULL, or one of
\* an earlier list, long freed: whatever is there is read as a device.
ConnectItem ==
  /\ menu = "bt"
  /\ Taken("right")
  /\ alive' \in {count > 0, count > 0 \/ stray}
  /\ \E outcome \in DOMAIN DeviceConnectLoses :
       leaked' = IF alive' THEN leaked \cup DeviceConnectLoses[outcome] ELSE leaked
  /\ last' = "zero"
  /\ screen' = "message"
  /\ UNCHANGED <<menu, cursor, list, posted, sets>>

\* menu_bt_deinit: the items are freed, their array and the menu's sub-window not.
BtDeinit ==
  /\ devices' = IF devices = "live" THEN "freed" ELSE devices
  /\ posted' = posted \ {"bt"}
  /\ items' = 0
  /\ btCursor' = 0
  /\ leaked' \in {leaked \cup {"items", "window"} \cup (ListBlocks \ DeviceListFree)
                    \cup IsConnectedLoses(reply) : reply \in Replies}

\* Faulty ShowStatus: menu_bt_deinit is left out.
ShowStatusKeepsList ==
  /\ alive
  /\ ready = {} /\ \A line \in Lines : pressed[line] = 0
  /\ last \in {"old", "zero"}
  /\ menu' = "none"
  /\ screen' = "status"
  /\ UNCHANGED <<buttons, last, cursor, list, leaked, posted, alive, sets>>

\* Faulty ShowStatus: a zero in g_last_ts_all means that no press has been seen.
ShowStatusNotAtZero ==
  /\ alive
  /\ ready = {} /\ \A line \in Lines : pressed[line] = 0
  /\ last = "old"
  /\ menu' = "none"
  /\ IF menu = "bt" THEN BtDeinit
     ELSE /\ leaked' \in {leaked \cup IsConnectedLoses(reply) : reply \in Replies}
          /\ UNCHANGED <<devices, items, posted, btCursor>>
  /\ screen' = "status"
  /\ UNCHANGED <<buttons, last, cursor, count, stray, alive, sets>>

\* No press for 200 ms, and the last one long ago: menu_bt_deinit if its menu was
\* shown, and the status screen, which asks for the devices, too.
ShowStatus ==
  /\ alive
  /\ ready = {} /\ \A line \in Lines : pressed[line] = 0
  /\ last \in {"old", "zero"}
  /\ menu' = "none"
  /\ IF menu = "bt" THEN BtDeinit
     ELSE /\ leaked' \in {leaked \cup IsConnectedLoses(reply) : reply \in Replies}
          /\ UNCHANGED <<devices, items, posted, btCursor>>
  /\ screen' = "status"
  /\ UNCHANGED <<buttons, last, cursor, count, stray, alive, sets>>

-----------------------------------------------------------------------------
MainPress == (\E line \in Lines : ShowMainMenu(line)) \/ NextItem \/ CommandItem
             \/ PowerOffItem \/ OpenBtMenu

BtPress == NextBtItem \/ ConnectItem

MainThread ==
  \/ WaitReturnsEvents
  \/ \E line \in Lines : EdgeUnread(line) \/ IgnoreEdge(line)
  \/ MainPress
  \/ BtPress
  \/ ShowStatus

Next ==
  \/ \E line \in Lines : Press(line)
  \/ TimePasses
  \/ ClockSet
  \/ Restart
  \/ MainThread

Spec == Init /\ [][Next]_vars

\* The main thread runs, an edge is not unreadable for ever, time passes, and systemd
\* restarts what has died.
FairSpec ==
  /\ Spec
  /\ WF_vars(MainThread)
  /\ \A line \in Lines : SF_vars(Taken(line) /\ MainThread)
  /\ WF_vars(TimePasses)
  /\ WF_vars(Restart)

-----------------------------------------------------------------------------
\* The list is there as long as the menu that points into it, and no longer: no
\* leak of it when the Bluetooth menu goes away, no use after the free while it is
\* shown.
ListLivesWithMenu ==
  /\ alive => (devices = "live" <=> menu = "bt" /\ count > 0)
  /\ leaked \cap ListBlocks = {}

\* What the display shows and what ncurses has posted belong to g_current_menu: a
\* button never drives one menu while the other is shown.
ScreenIsMenu ==
  /\ menu = "none" => screen \in {"blank", "status"} /\ "bt" \notin posted
  /\ menu = "main" <=> screen = "main"
  /\ menu = "main" => posted = {"main"}
  /\ menu = "bt" => posted \subseteq {"bt"}

\* Both buttons are served, however often the other one is pressed.
PressIsHandled ==
  \A line \in Lines : pressed[line] = QueueSize ~> pressed[line] < QueueSize

\* Unless buttons are pressed again and again, the status screen comes back and stays.
StatusReturns ==
  \/ []<><<\E line \in Lines : Press(line)>>_vars
  \/ <>[](menu = "none")

\* ui.c: "hide menu in next iteration": once an item has been chosen, no press acts
\* on the menu any more.
HiddenInNextIteration ==
  [][menu # "none" /\ last = "zero" => ~(MainPress \/ BtPress)]_vars

\* bt.h: bt_device_list_get returns the "number of devices, or -1 on error": the
\* Bluetooth menu survives an error, and a number that is zero.
ListResultSurvived == count < 1 => alive

\* bt.h: "The caller is responsible for freeing the memory allocated for the device
\* list": once it has, nothing of what was allocated for the list is left.
ListLeavesNothing == "path" \notin leaked
=============================================================================
