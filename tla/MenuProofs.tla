----------------------------- MODULE MenuProofs -----------------------------
(***************************************************************************)
(* Menu for any answers of BlueZ and queues of any size: the list lives as *)
(* long as its menu, the display shows the menu that the buttons drive, and*)
(* no cursor or counter leaves its range.                                  *)
(***************************************************************************)
EXTENDS Menu, FiniteSetTheorems, TLAPS

\* The two need each other's menus only as far as these exist.
MenuInv ==
  /\ menu \in {"none", "main", "bt"}
  /\ posted \subseteq {"main", "bt"}
  /\ ListLivesWithMenu
  /\ ScreenIsMenu

\* What a call of bt.c loses is never a block of a list: those that make up a list are
\* in it, and are freed with it.
LEMMA ListBlocksAreFreed ==
  ASSUME NEW reply
  PROVE  /\ DeviceListGet(reply).lost \cap ListBlocks = {}
         /\ IsConnectedLoses(reply) \cap ListBlocks = {}
         /\ (ListBlocks \ DeviceListFree) = {}
  <1>1. DeviceListGet(reply).lost \subseteq {"path"}
    <2>1. CASE reply.failed
      BY <2>1 DEF DeviceListGet
    <2>2. CASE ~reply.failed
      BY <2>2 DEF DeviceListGet, DevicesIter
    <2>3. QED
      BY <2>1, <2>2
  <1>2. ListBlocks \ DeviceListFree = {}
    BY DEF ListBlocks, DeviceListFree
  <1>3. QED
    BY <1>1, <1>2 DEF ListBlocks, IsConnectedLoses

\* Nor does a connection, however it ends.
LEMMA ConnectLosesNoList ==
  ASSUME NEW outcome \in DOMAIN DeviceConnectLoses
  PROVE  DeviceConnectLoses[outcome] \cap ListBlocks = {}
  BY DEF DeviceConnectLoses, ListBlocks

\* Presses, time, and what the main thread does with an edge it ignores.
LEMMA OutsideKeepsInv ==
  ASSUME MenuInv, UNCHANGED <<menu, list, leaked, posted, screen, alive>>
  PROVE  MenuInv'
  BY DEF MenuInv, ListLivesWithMenu, ScreenIsMenu, list

\* The main menu: only its Bluetooth item makes a list, and there was none before.
LEMMA MainPressKeepsInv ==
  ASSUME MenuInv, MainPress PROVE MenuInv'
  <1> USE DEF MenuInv, ScreenIsMenu
  <1>1. ASSUME NEW line \in Lines, ShowMainMenu(line) PROVE MenuInv'
    BY <1>1 DEF ShowMainMenu, ListLivesWithMenu, list
  <1>2. CASE NextItem
    BY <1>2 DEF NextItem, ListLivesWithMenu, list
  <1>3. CASE CommandItem
    BY <1>3, OutsideKeepsInv DEF CommandItem
  <1>4. CASE PowerOffItem
    BY <1>4, OutsideKeepsInv DEF PowerOffItem
  <1>5. CASE OpenBtMenu
    <2>1. PICK reply \in Replies :
            /\ count' = DeviceListGet(reply).count
            /\ devices' = IF count' > 0 THEN "live"
                          ELSE IF count' = 0 THEN "null" ELSE devices
            /\ leaked' = leaked \cup DeviceListGet(reply).lost
      BY <1>5 DEF OpenBtMenu, BtInit
    <2>2. menu = "main" /\ menu' = "bt" /\ alive
      BY <1>5 DEF OpenBtMenu, Taken, Turn
    <2>3. posted' \subseteq {"bt"} /\ screen' \in {"blank", "bt"}
      BY <1>5 DEF OpenBtMenu
    <2>4. devices # "live"
      BY <2>2 DEF ListLivesWithMenu
    <2>5. ListLivesWithMenu'
      BY <2>1, <2>2, <2>4, ListBlocksAreFreed DEF ListLivesWithMenu
    <2>6. QED
      BY <2>2, <2>3, <2>5
  <1>6. QED
    BY <1>1, <1>2, <1>3, <1>4, <1>5 DEF MainPress

\* The Bluetooth menu, which leaves its list alone.
LEMMA BtPressKeepsInv ==
  ASSUME MenuInv, BtPress PROVE MenuInv'
  <1> USE DEF MenuInv, ScreenIsMenu
  <1>1. alive
    BY DEF BtPress, NextBtItem, ConnectItem, Taken, Turn
  <1>2. CASE NextBtItem
    BY <1>1, <1>2 DEF NextBtItem, ListLivesWithMenu
  <1>3. CASE ConnectItem
    <2>1. leaked' \cap ListBlocks = {}
      BY <1>3, ConnectLosesNoList DEF ConnectItem, ListLivesWithMenu
    <2>2. QED
      BY <1>1, <1>3, <2>1 DEF ConnectItem, ListLivesWithMenu, list
  <1>4. QED
    BY <1>2, <1>3 DEF BtPress

\* The way back: the one place where the list is freed.
LEMMA ShowStatusKeepsInv ==
  ASSUME MenuInv, ShowStatus PROVE MenuInv'
  <1> USE DEF MenuInv, ScreenIsMenu
  <1>1. alive /\ menu' = "none" /\ screen' = "status" /\ alive' = alive
    BY DEF ShowStatus
  <1>2. devices' # "live" /\ "bt" \notin posted' /\ posted' \subseteq {"main", "bt"}
    <2>1. CASE menu = "bt"
      BY <2>1 DEF ShowStatus, BtDeinit
    <2>2. CASE menu # "bt"
      BY <2>2, <1>1 DEF ShowStatus, ListLivesWithMenu
    <2>3. QED
      BY <2>1, <2>2
  <1>3. leaked' \cap ListBlocks = {}
    <2>1. PICK reply \in Replies :
            \/ leaked' = leaked \cup {"items", "window"}
                           \cup (ListBlocks \ DeviceListFree)
                           \cup IsConnectedLoses(reply)
            \/ leaked' = leaked \cup IsConnectedLoses(reply)
      BY DEF ShowStatus, BtDeinit
    <2>2. leaked \cap ListBlocks = {} /\ {"items", "window"} \cap ListBlocks = {}
      BY DEF ListLivesWithMenu, ListBlocks
    <2>3. QED
      BY <2>1, <2>2, ListBlocksAreFreed
  <1>4. QED
    BY <1>1, <1>2, <1>3 DEF ListLivesWithMenu

\* No sequence of presses, waits and restarts separates list, menu and display.
THEOREM MenuInvariant == Spec => []MenuInv
  <1>1. Init => MenuInv
    BY DEF Init, MenuInv, ListLivesWithMenu, ScreenIsMenu
  <1>2. ASSUME MenuInv, [Next]_vars PROVE MenuInv'
    <2>1. CASE UNCHANGED vars
      BY <1>2, <2>1, OutsideKeepsInv DEF vars
    <2>2. CASE (\E line \in Lines : Press(line) \/ EdgeUnread(line) \/ IgnoreEdge(line))
               \/ WaitReturnsEvents \/ TimePasses \/ ClockSet
      BY <1>2, <2>2, OutsideKeepsInv
         DEF Press, EdgeUnread, IgnoreEdge, WaitReturnsEvents, TimePasses, ClockSet
    <2>3. CASE Restart
      BY <2>3 DEF Restart, MenuInv, ListLivesWithMenu, ScreenIsMenu
    <2>4. QED
      BY <1>2, <2>1, <2>2, <2>3, MainPressKeepsInv, BtPressKeepsInv, ShowStatusKeepsInv
         DEF Next, MainThread
  <1>3. QED
    BY <1>1, <1>2, PTL DEF Spec

\* The list of devices is there exactly as long as the Bluetooth menu, and none of its
\* blocks is ever lost.
THEOREM ListLives == Spec => []ListLivesWithMenu
  BY MenuInvariant, PTL DEF MenuInv

\* A button never drives one menu while the display shows another.
THEOREM ScreenShowsMenu == Spec => []ScreenIsMenu
  BY MenuInvariant, PTL DEF MenuInv

-----------------------------------------------------------------------------
\* The queues of the lines: a line is only ready as long as it has a press to take.
Queues ==
  /\ pressed \in [Lines -> 0..QueueSize]
  /\ ready \subseteq Lines
  /\ \A line \in ready : pressed[line] > 0

\* The list of devices: a posted menu has an item for its cursor.
ListRanges ==
  /\ count \in {DeviceListGet(reply).count : reply \in Replies} \cup {0}
  /\ devices \in {"null", "live", "freed"}
  /\ items \in 0..(IF count > 0 THEN count ELSE 0)
  /\ btCursor \in 0..items
  /\ stray \in BOOLEAN
  /\ "bt" \in posted => items > 0
  /\ leaked \subseteq ListBlocks \cup OtherBlocks
  /\ alive \in BOOLEAN

\* The menus and the clock.
MenuRanges ==
  /\ menu \in {"none", "main", "bt"}
  /\ last \in {"recent", "old", "zero"}
  /\ cursor \in 1..PowerOff
  /\ posted \subseteq {"main", "bt"}
  /\ screen \in {"blank", "status", "main", "bt", "message"}
  /\ sets \in 0..ClockSets

\* TypeOK, with what it takes to keep it.
RangesInv == TypeOK /\ Queues /\ ListRanges /\ MenuRanges

\* The list that bt_device_list_get makes: no more items than devices, and none
\* where its result is zero or an error.
LEMMA ListIsCounted ==
  ASSUME NEW reply \in Replies
  PROVE  /\ DeviceListGet(reply).count \in Int
         /\ ItemsOf(reply) \in Nat
         /\ ItemsOf(reply) > 0 => ItemsOf(reply) <= DeviceListGet(reply).count
         /\ DeviceListGet(reply).lost \subseteq {"path"}
  <1> DEFINE listed == DeviceListGet(reply).list
             shown  == {i \in listed : \A j \in listed : j <= i => reply.objects[j].named}
  <1>1. shown \subseteq listed /\ ItemsOf(reply) = Cardinality(shown)
    BY DEF ItemsOf
  <1>2. CASE reply.failed
    <2>1. DeviceListGet(reply) = [count |-> -1, list |-> {}, lost |-> {}]
      BY <1>2 DEF DeviceListGet
    <2>2. shown = {}
      BY <2>1
    <2>3. Cardinality(shown) = 0
      BY <2>2, FS_EmptySet
    <2>4. QED
      BY <1>1, <2>1, <2>3
  <1>3. CASE ~reply.failed
    <2> DEFINE all == DevicesIn(reply.objects)
               n   == Cardinality(all)
    <2>1. DeviceListGet(reply) =
            [count |-> n, list |-> IF n > 0 THEN all ELSE {},
             lost |-> IF n > 0 /\ all # DOMAIN reply.objects THEN {"path"} ELSE {}]
      BY <1>3 DEF DeviceListGet, DevicesIter
    <2>2. reply.objects \in Seq(Object)
      <3>1. reply # Failure
        BY <1>3 DEF Failure
      <3>2. QED
        BY <3>1, RepliesAssumption
    <2>3. IsFiniteSet(DOMAIN reply.objects)
      <3> HIDE DEF listed, shown, all, n
      <3>1. Len(reply.objects) \in Nat /\ DOMAIN reply.objects = 1..Len(reply.objects)
        BY <2>2
      <3>2. IsFiniteSet(1..Len(reply.objects))
        BY <3>1, FS_Interval
      <3>3. QED
        BY <3>1, <3>2
    <2>4. IsFiniteSet(all)
      BY <2>3, FS_Subset DEF DevicesIn
    <2>5. n \in Nat
      BY <2>4, FS_CardinalityType
    <2>6. listed \subseteq all
      BY <2>1
    <2>7. shown \subseteq all
      BY <1>1, <2>6
    <2>8. Cardinality(shown) \in Nat /\ Cardinality(shown) <= n
      BY <2>4, <2>7, FS_Subset, FS_CardinalityType
    <2>9. QED
      BY <1>1, <2>1, <2>5, <2>8
  <1>4. QED
    BY <1>2, <1>3

\* A result of it is a number, an error included.
LEMMA CountIsInt == ListRanges => count \in Int
  BY ListIsCounted DEF ListRanges

\* What an answer may leave in the variables of a list.
LEMMA BtInitMakesList ==
  ASSUME TypeOK, BtInit
  PROVE  /\ count' \in {DeviceListGet(reply).count : reply \in Replies} \cup {0}
         /\ devices' \in {"null", "live", "freed"}
         /\ items' \in 0..(IF count' > 0 THEN count' ELSE 0)
         /\ btCursor' \in 0..items'
         /\ stray' \in BOOLEAN
         /\ leaked' \subseteq ListBlocks \cup OtherBlocks
         /\ alive' \in BOOLEAN
  <1>1. PICK reply \in Replies :
          /\ count' = DeviceListGet(reply).count
          /\ devices' = IF count' > 0 THEN "live" ELSE IF count' = 0 THEN "null" ELSE devices
          /\ items' = ItemsOf(reply)
          /\ btCursor' = IF items' > 0 THEN 1 ELSE 0
          /\ stray' = (stray \/ \E i \in DeviceListGet(reply).list :
                                  ~reply.objects[i].named)
          /\ leaked' = leaked \cup DeviceListGet(reply).lost
          /\ alive' \in IF count' > 0 /\ items' = count' THEN BOOLEAN ELSE {count' >= 0}
    BY DEF BtInit
  <1>2. /\ count' \in Int
        /\ items' \in Nat
        /\ items' > 0 => items' <= count'
        /\ DeviceListGet(reply).lost \subseteq {"path"}
    BY <1>1, ListIsCounted
  <1>3. items' \in 0..(IF count' > 0 THEN count' ELSE 0) /\ btCursor' \in 0..items'
    BY <1>1, <1>2
  <1>4. leaked' \subseteq ListBlocks \cup OtherBlocks
    BY <1>1, <1>2 DEF TypeOK, OtherBlocks
  <1>5. devices' \in {"null", "live", "freed"}
    BY <1>1 DEF TypeOK
  <1>6. alive' \in BOOLEAN
    <2>1. CASE count' > 0 /\ items' = count'
      BY <1>1, <2>1
    <2>2. CASE ~(count' > 0 /\ items' = count')
      <3>1. alive' = (count' >= 0)
        BY <1>1, <2>2, Zenon
      <3>2. QED
        BY <1>2, <3>1
    <2>3. QED
      BY <2>1, <2>2
  <1>7. stray' \in BOOLEAN
    <2>1. stray' = (stray \/ \E i \in DeviceListGet(reply).list : ~reply.objects[i].named)
      BY <1>1
    <2>2. QED
      BY <2>1, Zenon
  <1>8. QED
    BY <1>1, <1>3, <1>4, <1>5, <1>6, <1>7

\* What bt.c loses on the way is of the kinds that are counted.
LEMMA LossesAreKnown ==
  /\ \A outcome \in DOMAIN DeviceConnectLoses :
       DeviceConnectLoses[outcome] \subseteq OtherBlocks
  /\ \A reply \in Replies : IsConnectedLoses(reply) \subseteq ListBlocks \cup OtherBlocks
  /\ (ListBlocks \ DeviceListFree) \subseteq ListBlocks
  <1>1. \A outcome \in DOMAIN DeviceConnectLoses :
          DeviceConnectLoses[outcome] \subseteq OtherBlocks
    BY DEF DeviceConnectLoses, OtherBlocks
  <1>2. \A reply \in Replies : IsConnectedLoses(reply) \subseteq ListBlocks \cup OtherBlocks
    BY ListIsCounted DEF IsConnectedLoses, OtherBlocks
  <1>3. QED
    BY <1>1, <1>2

\* The queues: a press is only taken from a line that has one.
LEMMA QueuesKept ==
  ASSUME RangesInv, Next
  PROVE  Queues'
  <1> USE QueueSizeAssumption DEF RangesInv, Queues
  <1>1. ASSUME NEW line \in Lines, Taken(line) PROVE Queues'
    <2>1. /\ pressed' = [pressed EXCEPT ![line] = pressed[line] - 1]
          /\ ready' = ready \ {line}
          /\ pressed[line] \in 1..QueueSize
      BY <1>1 DEF Taken, Turn
    <2>2. pressed' \in [Lines -> 0..QueueSize]
      BY <2>1
    <2>3. \A other \in ready' : pressed'[other] = pressed[other]
      BY <2>1
    <2>4. QED
      BY <2>1, <2>2, <2>3
  <1>2. ASSUME NEW line \in Lines, Press(line) PROVE Queues'
    BY <1>2 DEF Press
  <1>3. CASE Restart
    BY <1>3 DEF Restart
  <1>4. CASE WaitReturnsEvents
    BY <1>4 DEF WaitReturnsEvents
  <1>5. CASE UNCHANGED buttons
    BY <1>5 DEF buttons
  <1>9. ASSUME NEW line \in Lines, EdgeUnread(line) PROVE Queues'
    BY <1>9 DEF EdgeUnread
  <1>6. ASSUME MainPress \/ BtPress \/ (\E line \in Lines : IgnoreEdge(line))
        PROVE  \E line \in Lines : Taken(line)
    BY <1>6 DEF MainPress, BtPress, IgnoreEdge, ShowMainMenu, NextItem, CommandItem,
                PowerOffItem, OpenBtMenu, NextBtItem, ConnectItem, Lines
  <1>7. ASSUME TimePasses \/ ClockSet \/ ShowStatus PROVE UNCHANGED buttons
    BY <1>7 DEF TimePasses, ClockSet, ShowStatus, buttons
  <1>8. QED
    BY <1>1, <1>2, <1>3, <1>4, <1>5, <1>6, <1>7, <1>9 DEF Next, MainThread

\* The list and its cursor: a posted menu has the items that the cursor runs through.
LEMMA ListKept ==
  ASSUME RangesInv, Next
  PROVE  ListRanges'
  <1> USE DEF RangesInv, ListRanges
  <1>1. CASE OpenBtMenu
    <2>1. BtInit /\ posted' \in IF items' > 0 THEN {{}, {"bt"}} ELSE {{}}
      BY <1>1 DEF OpenBtMenu
    <2>2. "bt" \in posted' => items' > 0
      BY <2>1
    <2>3. QED
      BY <2>1, <2>2, BtInitMakesList
  <1>2. CASE NextBtItem
    <2>1. /\ UNCHANGED <<count, devices, items, stray, leaked, posted>>
          /\ btCursor' \in 0..items
      BY <1>2 DEF NextBtItem, TypeOK
    <2>2. alive' \in BOOLEAN
      BY <1>2, CountIsInt DEF NextBtItem
    <2>3. QED
      BY <2>1, <2>2 DEF TypeOK
  <1>3. CASE ConnectItem
    <2>1. UNCHANGED <<list, posted>>
      BY <1>3 DEF ConnectItem
    <2>2. leaked' \subseteq ListBlocks \cup OtherBlocks
      BY <1>3, LossesAreKnown DEF ConnectItem, TypeOK
    <2>3. alive' \in BOOLEAN
      <3>1. CASE alive' = (count > 0)
        BY <3>1, CountIsInt
      <3>2. CASE alive' = (count > 0 \/ stray)
        BY <3>2, Zenon
      <3>3. QED
        BY <1>3, <3>1, <3>2 DEF ConnectItem
    <2>4. QED
      BY <2>1, <2>2, <2>3 DEF list, TypeOK
  <1>4. CASE ShowStatus
    <2>1. count' = count /\ alive' = alive /\ stray' = stray
      BY <1>4 DEF ShowStatus
    <2>2. leaked' \subseteq ListBlocks \cup OtherBlocks
      <3>1. PICK reply \in Replies :
              leaked' \subseteq leaked \cup {"items", "window"}
                           \cup (ListBlocks \ DeviceListFree)
                           \cup IsConnectedLoses(reply)
        BY <1>4 DEF ShowStatus, BtDeinit
      <3>2. QED
        BY <3>1, LossesAreKnown DEF TypeOK, OtherBlocks
    <2>3. /\ devices' \in {"null", "live", "freed"}
          /\ \/ items' = 0 /\ btCursor' = 0 /\ "bt" \notin posted'
             \/ UNCHANGED <<items, btCursor, posted>>
      BY <1>4 DEF ShowStatus, BtDeinit
    <2>4. CASE items' = 0 /\ btCursor' = 0 /\ "bt" \notin posted'
      BY <2>1, <2>2, <2>3, <2>4, CountIsInt
    <2>5. CASE UNCHANGED <<items, btCursor, posted>>
      BY <2>1, <2>2, <2>3, <2>5
    <2>6. QED
      BY <2>3, <2>4, <2>5
  <1>5. CASE Restart
    <2>1. stray' \in BOOLEAN /\ alive' \in BOOLEAN
      BY <1>5, Zenon DEF Restart
    <2>2. QED
      BY <1>5, <2>1 DEF Restart
  <1>6. CASE UNCHANGED <<list, leaked, alive>> /\ ("bt" \in posted' => "bt" \in posted)
    BY <1>6 DEF list, TypeOK
  <1>7. ASSUME \/ \E line \in Lines : Press(line) \/ EdgeUnread(line) \/ IgnoreEdge(line)
                                          \/ ShowMainMenu(line)
               \/ TimePasses \/ ClockSet \/ WaitReturnsEvents \/ NextItem
               \/ CommandItem \/ PowerOffItem
        PROVE  UNCHANGED <<list, leaked, alive>> /\ ("bt" \in posted' => "bt" \in posted)
    BY <1>7 DEF Press, EdgeUnread, IgnoreEdge, ShowMainMenu, TimePasses, ClockSet, WaitReturnsEvents,
                NextItem, CommandItem, PowerOffItem
  <1>8. QED
    BY <1>1, <1>2, <1>3, <1>4, <1>5, <1>6, <1>7 DEF Next, MainThread, MainPress, BtPress

\* The menus, and the clock that takes them away.
LEMMA MenusKept ==
  ASSUME RangesInv, Next
  PROVE  MenuRanges'
  <1> USE ClockSetsAssumption DEF RangesInv, MenuRanges, PowerOff
  <1>1. CASE MainPress
    <2>1. ASSUME NEW line \in Lines, ShowMainMenu(line) PROVE MenuRanges'
      BY <2>1 DEF ShowMainMenu
    <2>2. CASE NextItem
      BY <2>2 DEF NextItem
    <2>3. CASE CommandItem \/ PowerOffItem
      BY <2>3 DEF CommandItem, PowerOffItem
    <2>4. CASE OpenBtMenu
      BY <2>4 DEF OpenBtMenu
    <2>5. QED
      BY <1>1, <2>1, <2>2, <2>3, <2>4 DEF MainPress
  <1>2. CASE BtPress
    BY <1>2 DEF BtPress, NextBtItem, ConnectItem
  <1>3. CASE ShowStatus
    BY <1>3 DEF ShowStatus, BtDeinit
  <1>4. CASE Restart
    BY <1>4 DEF Restart
  <1>5. CASE ClockSet
    BY <1>5 DEF ClockSet
  <1>6. ASSUME \/ \E line \in Lines : Press(line) \/ EdgeUnread(line) \/ IgnoreEdge(line)
               \/ WaitReturnsEvents \/ TimePasses
        PROVE  MenuRanges'
    BY <1>6 DEF Press, EdgeUnread, IgnoreEdge, WaitReturnsEvents, TimePasses
  <1>7. QED
    BY <1>1, <1>2, <1>3, <1>4, <1>5, <1>6 DEF Next, MainThread

\* The ranges hold in every state.
LEMMA RangesHold == Spec => []RangesInv
  <1>1. ASSUME Init PROVE RangesInv
    <2>1. stray \in BOOLEAN /\ alive \in BOOLEAN
      BY <1>1, Zenon DEF Init
    <2>2. QED
      BY <1>1, <2>1, QueueSizeAssumption, ClockSetsAssumption
         DEF Init, RangesInv, Queues, ListRanges, MenuRanges, TypeOK, Lines, PowerOff
  <1>2. ASSUME RangesInv, UNCHANGED vars PROVE RangesInv'
    BY <1>2 DEF RangesInv, Queues, ListRanges, MenuRanges, TypeOK, vars, buttons, list
  <1>3. RangesInv /\ [Next]_vars => RangesInv'
    <2>1. ASSUME RangesInv, Next PROVE RangesInv'
      <3>1. Queues' /\ ListRanges' /\ MenuRanges'
        BY <2>1, QueuesKept, ListKept, MenusKept
      <3>2. QED
        BY <3>1 DEF RangesInv, Queues, ListRanges, MenuRanges, TypeOK
    <2>2. QED
      BY <1>2, <2>1
  <1>4. QED
    BY <1>1, <1>3, PTL DEF Spec

\* For any answers of BlueZ, no press, time-out or restart takes a cursor, a queue or
\* a count out of its range: the cursor of a Bluetooth menu stays among its items.
THEOREM MenuTypes == Spec => []TypeOK
  BY RangesHold, PTL DEF RangesInv
=============================================================================
