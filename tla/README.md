# A TLA+ model of Plastic Player 3

Plastic Player 3 is a music player for a table: an NFC tag is put on it, its web
address is loaded into [librespot](https://github.com/librespot-org/librespot), and
the music stops when the tag is taken away. Two buttons and a small display offer a
menu; a web page, served over USB, sets up Wi-Fi, Bluetooth and firmware updates.

The modules here model the program that does this, `pp3-core`
(`br-external/package/pp3-core`), and the firmware update with its boot script, web
page, HTTP API and shell script. Line numbers are those of the repository's sources.
`PROJECT.json` gives the lines behind every definition, the runs, the mutants, the
hazards and the theorems.

## 1. The system

### Components

| component | source | state | operations | model |
|---|---|---|---|---|
| tag thread | `tagreader.c`, callbacks in `main.cpp` | `tag_present`, `retry`, `prev_serial`, `g_current_uri`, LED | search, read, poll, give up, `ndef_msg_cb`, `tag_removed_cb` | `TagReader`, `TagSession` |
| reading a message | `tagreader.c` (`read_pages`, `search_and_read_tag`) | page and length arithmetic in `uint8_t`, `data[496]` | read header, read four pages, deliver | `NdefRead` |
| commands | `librespot_send_cmd`, menu actions | none; one connection for each command | load, pause, play_pause, next, previous | `Player` |
| status and events | `librespot.c`, `librespot_event_handler.sh` | `g_status`, event socket | poll, accept, read, parse, init, deinit | `LibrespotLink` |
| track information | `ui.c` (`ui_update_track_info`, status screen) | `g_artists`, `g_album`, `g_title`, `g_mutex` | replace, print | `TrackInfo`, `TrackRegister` |
| icons, scrolling | `icons.c`, `ui.c` (`print_scrolling`) | the frame `g_display`, the display | put, sync, scroll | `StatusScreen` |
| Wi-Fi status | `wifistatus.c` | none | ask iwd | `StatusScreen` |
| Bluetooth devices | `bt.c` | a list owned by its caller | list, free, connect, is connected | `BtDevices` |
| buttons and menus | `ui.c` (`ui_process`, `menu_*`) | `g_current_menu`, `g_last_ts_all`, menus, device list | press, choose, connect, time out | `Menu` |
| start and end | `main.cpp`, `*_init`, `*_deinit` | resources, threads, `g_is_running` | init, error paths, SIGINT, deinit, restart | `Lifecycle` |
| boot slots | `u-boot_4_64bit.ush`, `rauc/system.conf` | `BOOT_ORDER`, `BOOT_x_LEFT`, the `boot.vfat` in use | choose, count down, reset | `BootSlots` |
| update script | `update.sh` | none | upload, install, wait, reboot | `FirmwareUpdate` |
| HTTP API | `pp3-api/main.py` | files in `/upload`, `/data/iwd` | Wi-Fi, Bluetooth, firmware, reboot | firmware and reboot, in `FirmwareUpdate` |
| web pages | `pp3-web-ui/.../lib/*.dart` | what the pages show | refresh, upload, install | firmware page, in `FirmwareUpdate` |
| image build, board files | `post-*.sh`, `openssl-ca.sh`, ... | none | | no |

### How they interact

`pp3-core` has three threads. The **main thread** starts the others, then runs
`ui_process` until SIGINT. The **tag thread** talks to the reader every 200 ms and
calls back into `main.cpp`, which sets the LED (`ui.c`) and sends commands
(`librespot.c`). The **librespot thread** asks librespot for its status over TCP,
waits up to a second on its own socket for an event that `librespot_event_handler.sh`
sends, and stores the track in `ui.c`. The main thread sends commands, too, when a
menu item is chosen, and asks BlueZ and iwd over D-Bus for what the status screen and
the Bluetooth menu show. They share `g_current_uri` and the LED (tag thread only),
`g_status` (written by one thread, read by another), and the three lines of text,
the only state under a mutex. systemd restarts `pp3-core` and librespot.

The firmware is updated from outside: the firmware page and `update.sh` each upload a
bundle to the API, ask it to have RAUC install the bundle into the slot that is not
running, poll the progress and reboot. A full bundle, such as that of `update.sh`, also
has a `boot.vfat`, with the boot loader. What is booted then is decided by the boot
script, which the boot loader starts, from an environment that RAUC and the script
itself write.

### What is hard

* The radio fails all the time. A removal is believed only after four failed polls;
  a tag may be swapped between two polls, or between being found and being accepted.
* Commands and events travel on connections of their own, librespot may be down, and
  nothing is sent twice: a lost command is never repaired.
* `play_pause` is a toggle and comes from another thread than load and pause.
* Either process may die at any point and comes back without a memory.
* Presses wait in the kernel while an item is carried out, for seconds if it is a
  Bluetooth connection.
* Page numbers and counts are eight bits wide; the device count is unsigned where
  the function behind it returns -1; the scroll position is computed from a
  difference of unsigned numbers.
* The tag thread runs before the user interface it calls is there, and after it has
  been closed.
* The frame of the icons starts as what `malloc` returns and is never cleared.
* Page and script do not know of each other; a bundle can be overwritten while it is
  installed, an answer can arrive after a later one, and power can go at any point,
  in the boot script, too.

### What makes each component correct

* tag thread: the LED and the current address are those of the tag that is polled;
  the last command is, too; a present tag is not given up for a glitch, an absent one
  is given up; sessions do not overlap.
* reading: all of the message, nothing else, inside the buffer, in finitely many steps.
* commands: no music without a tag, the music of the tag with one, apart from losses
  that can be named.
* status: what is shown is what librespot has told, apart from the events that are lost.
* status screen: never two tracks at once, nor one that has been replaced; every place
  shows one icon, and the right one as soon as the world rests; a long line scrolls over
  all of its text.
* menus: the display, the menu that the buttons drive and the life of the device list
  go together; no press waits for ever; the status screen comes back.
* start and end: what the loop needs is there, what was opened is closed.
* update: what was installed completely is what the next boot tries; whatever root file
  systems were installed, something boots again, for one of the two slots always holds a
  system that can; neither page nor script waits for an end that has been.

## 2. The modules

```
TagSession <-- TagReader <-- Player          TrackRegister <-- TrackInfo
NdefRead   LibrespotLink   Lifecycle         BtDevices, TrackInfo <-- StatusScreen
BootSlots <-- FirmwareUpdate                 BtDevices <-- Menu
```

`MCx` gives the constants of module `x` their values, `xProofs` has the theorems about
it.

### TagSession and TagReader

`TagSession` is what the tag side promises: a session lights the lamp, loads once,
and is followed by a pause before the next; only a death of the process leaves the
pause out. `TagReader` is `tag_reader_thread_entry` with the callbacks of `main.cpp`.
Its `pc` says where the thread is: `loop` is the head of the loop, `found` after
`search_tag`, `msg` at `load_uri`, `led` and `load` before the calls of the same
names, `accept` before `tag_present` is set, `removed` and `pause` in
`tag_removed_cb`, `done` after the loop, `dead` without a process. The radio is
`field`, the tag on the reader, and `selected`, the one that the chip selected and
that has not left since: pages are answered by it alone, while the serial number,
for which the reader wakes the field anew, is answered by any tag. What the NDEF
parser makes of a tag is the constant `Content`, one value for each way through
`ndef_msg_cb`; `Broken` is the Smart Poster whose inner message is parsed outside the
`try` block. `misses` and `orphaned` are history variables: failed polls in a row,
and that a process died and left librespot loaded. `led` is the level that the thread
asks for; a line that is not there yet, or a `gpiod` call that fails, is `Lifecycle`'s.

### NdefRead

The arithmetic that `TagReader` leaves out: where the length byte is, how many pages
the message takes, the loop counter of `read_pages` in `uint8_t`, and how far `data`
has been filled. A chip answers the pages it has and refuses the others.

### Player

`TagReader`, and with it librespot as an external partner: an inbox of commands in
the order of their connections, a listen queue that makes `connect` wait when full,
deaths with everything lost. A command may fail at any time (`socket`, `connect`,
`send`), and nobody notices. The menu's commands come from the main thread, other
commands from a phone. `spoilt` is a history variable that says when the promise is
off: librespot does not have the thread's last command, for that failed or librespot has
died since the load, or has had another command from somebody else since. The actions
of `TagReader` that send nothing are taken over unchanged (`TagSideStep`); the two that
do are composed with `librespot_send_cmd`.

### LibrespotLink

The thread of `librespot.c`: the poll (`PollOk` changes nothing, `PollFails` sets
`UNAVAILABLE`), `select`, `accept` from a bounded listen queue, and a `read` that
waits. librespot runs its event handlers one after the other; a handler may be
refused, write, or die without writing. Only `playing`, `paused` and `track_changed`
are events that `librespot_parse_event` knows; librespot passes on others, too, for
which `stopped` stands: when the music ends (`PlayerStops`), `g_status` stays what it
was. `told` is a history variable: the last of `playing` and `paused` that librespot
has told, or `Nothing` as soon as something happens that no event tells.

### TrackRegister, TrackInfo and StatusScreen

`TrackRegister` is what the display promises of the tracks: an event stores a whole
track at once, and a refresh shows the one stored last. `TrackInfo` implements it, with
the track counted as stored from the moment the librespot thread has the mutex
(`Register`). `TrackInfo` is freeing, storing and printing the three lines, one line a
step, on two threads with `g_mutex`. Texts are values, `NoText` is the NULL of a line
that an event lacks.

`StatusScreen` puts it into the whole of the status screen. The main thread asks for
librespot's status, for the Bluetooth devices and for iwd's state one after the other
and draws an icon after each answer (`PutIcon`; a glyph that cannot be rendered leaves
what was there), copies the upper half of the frame to the display (`IconsSync`; a write
or an `open` that fails leaves the display as it was, `IconsSyncFails`), and then prints
the track. `put` and `synced` are history variables: the icons put last, and those that
were put when the display was last written. `world` is what there is to be asked for; it changes at any
time. `DrawBitmap` is `draw_bitmap` with its clipping, its clearing and its two
counters into the bitmap. What is assumed of screen and font is what the program has:
the places are 25 columns apart at least and a cell is 20 wide (`Advance`), a line is 24
rows high (`Rise`) where 32 are written, and in the font of the image
(Material Symbols Sharp) none of the eight icons begins left of its origin or above the
line. `ScrollPos` is `print_scrolling`, with the unsigned
difference and its conversion to `int`; a text has at most the 1023 characters that
`g_buffer` of `librespot.c` takes in (`Longest`).

### BtDevices and Menu

`BtDevices` is `bt.c` as functions of what BlueZ answers, for nothing is kept between
two calls: the list and its count (`DeviceListGet`, with its two passes), which
allocations make up a list, which the caller frees, and which each path loses. A list
is the set of the places its devices have in the answer, which also gives their order.

`Menu` is `ui_process` with a queue of presses for each line. An iteration notes which
lines have presses (`WaitReturnsEvents`) and handles one of each, left before right, as
the loop over `gs_evt_lines` does; an edge that cannot be read is still there the next
time (`EdgeUnread`). `last` is `g_last_ts_all` as far as the code
compares it: recent, older than the timeout, or the zero that menu actions store.
`items` and `btCursor` are the items that ncurses makes of the names, which end at the
first name it takes for none. `alive` becomes FALSE where the code uses memory that is
not there: a list result of -1, an empty list with either button, and, as a choice, the
element beyond `g_menu_bt_items`, which nobody sets to NULL. `stray`: once a device had
no name, ncurses' default item points to one, and in a later empty list the right button
uses it long after it has been freed, which the process may survive. `post_menu` may refuse the
Bluetooth menu (names or lists too long for the window). `leaked` collects the kinds of
memory that nothing points to any more.

### Lifecycle

`main` and the `init` and `deinit` functions with every error path, one step for
each resource, against the two threads as users of the LED line and the mutex, SIGINT
at any point, and the restart. `faults` collects what went wrong: a callback before
the LED line was there (`early`), on a line that is no longer requested (`led`), a
mutex out of its life (`mutex`), a join of a thread that never was (`join`), the
frame buffer left open by `icons_init` (`icons`).

### BootSlots and FirmwareUpdate

`BootSlots` is the boot script: the defaults, the choice of the first slot in
`BOOT_ORDER` with attempts left, the count, `saveenv`, the kernel, and the reset of
the attempts when no slot has any. The environment is in `flash` and in memory
(`env`); a power cut loses the second. A `saveenv` that fails does not stop the script,
which starts the kernel with the attempt unpaid (`AttemptUnsaved`) or resets the device
with the attempts still spent (`ResetUnsaved`); one that is torn is covered by the
second copy of the environment (`u-boot.fragment`). A kernel whose image is faulty or
was never written to its end does not come up, and somebody turns the device off and on.
`loader` is the version of the `boot.vfat` in use; there is one, without a fallback, and
with a bad one the script is never reached (`dark`).

`FirmwareUpdate` adds RAUC as an external installer, the handlers of the API that call
it, the firmware page and `update.sh`. RAUC empties the slot that is not booted, marks
it bad, and at the end puts it first in the order with all attempts. A full bundle
brings a `boot.vfat`, too, which RAUC switches to in one step (`RaucSwitchesLoader`,
`slot.bootloader.0`) before the update is complete. Its progress is
100 (`Done`) after a success, a failure and a rejection alike, and goes back only when
the next installation writes. `late` are the page's answers that are under way;
any of them may arrive next. An answer that `update.sh` cannot read ends its wait, and
it reboots a device that may still be installing (`ScriptMisreads`). `promised` is a history variable: the slot of a completed
update that no boot has tried yet.

### Definitions that begin with "Faulty"

Beside many definitions stands a faulty variant: the same step with a likely mistake
(a forgotten reset, a dropped guard, an off-by-one). They belong to no specification.
Put in the place of the original they break the property that `PROJECT.json` pairs
them with, which shows that the property depends on that code.

## 3. The runs

| run | instance | states | shows |
|---|---|---|---|
| `tag_reader` | six tags: two addresses, one of them twice, one foreign, `Broken`, `Blank`; crashes | 4235 | LED, address and command agree with the polled tag; debouncing; refinement of `TagSession`; removal noticed, tag picked up, `tag_reader_deinit` returns |
| `ndef_read` | length bytes 11..255, all layouts, 45, 135 and 231 pages | 30747 | whole message, no page beyond, inside the buffer, the loop ends |
| `ndef_read_short` | length bytes 0..10 | | **violation**: pages beyond the message are asked for |
| `player` | two tags, two commands in flight, crashes, deaths, failing commands, buttons, phone | 168707 | silence without a tag, its music with one; a removal silences, a tag that stays is played |
| `librespot_link` | one event waiting, two connections, crashes | 145742 | the status is what librespot told last once every event is read; death noticed, events shown, `librespot_deinit` returns |
| `lifecycle` | no parameters | 783 | every step finds what the ones before it have left; the mutex outlives its user, the LED obeys, nothing is left, SIGINT ends |
| `status_screen` | two tracks, one without an album; two worlds; a screen of 7 x 4 pixels, icons of 2 x 2, a frame full of garbage | 143744 | each refresh shows the whole track stored last (refinement of `TrackRegister`), scrolling over the whole text, one icon in each place of frame and display; tracks and icons get there |
| `menu` | an adapter and up to two devices, with names or without, or no answer; two presses waiting on each line, one clock jump | 66216 | list lives with its menu and is freed whole, display and menu agree, no button starves, status screen returns |
| `menu_hide` | as `menu` | | **violation**: a press acts on the menu that was to be hidden |
| `menu_list` | as `menu` | | **violation**: without a list, or with an empty one and a button, the process ends |
| `menu_leak` | as `menu` | | **violation**: the path of every object that is no device is lost |
| `update` | two versions, one whose parts do not come up; full and rootfs bundles; two attempts, one power cut in the boot script between two kernels, any number elsewhere | 386804 | the new slot is tried first; one slot always holds a system, and one comes up again and again unless a bad `boot.vfat` is in use; the reboot is offered; the script's wait ends |

**Why the bounds are enough.**

* The tag thread compares serial numbers and addresses only for equality; six tags have
  every kind of content, and two tags with the same address and two with different
  ones. Its counter is bounded by the code (`MAX_RETRY`). For `Player` the contents
  beyond a Spotify address add nothing that `tag_reader` has not seen: two tags.
* The NDEF run has every length byte that exists.
* Two commands in flight (`Backlog`) have one overtake or undo another, and a full queue
  that makes the sender wait; the proofs hold for any length. Two connections (`BACKLOG`) and one more event
  (`MaxEvents`) give one that waits behind one being read.
* Two tracks give a mixture, one of them with a missing line. The two texts are as long
  as the window and three characters longer, so that the scroll stands at both ends and
  moves between them; `Word`, the width of `unsigned long`, is 2^16, far beyond every
  sum. Icons of 2 x 2 have a bitmap that fills the cell, some that leave a margin, and
  one place that the edge of the screen cuts.
* Two presses on each line (`QueueSize`) give one that waits while another is handled,
  on the same line and across lines; two devices give a cursor that wraps, and a name
  that ends the menu before its last device. `ClockSets` = 1: each jump starts anew.
* `Attempts` = 2 instead of the script's 3: an attempt that leaves some and one that
  leaves none. `EarlyCuts` = 1, between one kernel and the next: every point of the
  script is hit, and again in any later boot; without a bound the device might be cut
  off for ever, and nothing would come up.
* The update run has the version from the factory and one that is bad in both of its
  parts, whose rootfs comes with its `boot.vfat` or alone.
* The two worlds of the status screen differ in librespot and Bluetooth; iwd's answer is
  one that the code does not know by name.

`MaxEvents`, `ClockSets`, `EarlyCuts` and the queue sizes are the only bounds that the
code does not have itself (the queues are longer there). The proofs have none of them.

**Deadlock** is checked in all runs. Where a component may rest, the environment (a
user, a signal, systemd) still has a step, or the module says so (`Returned` in
`NdefRead`).

### Fairness

* Threads run: weak fairness of each thread's steps. They contain no wait but sleeps
  and calls with a limit, save those below.
* `SearchOk`, `ReadOk` (strong): a tag that rests on the reader is read in the end.
  Nothing is assumed of the polls of a present tag.
* `ThreadLoads`, `ThreadPauses` (weak): `connect` waits while librespot's queue is full,
  and gets a place or gives up.
* `Accept` (strong): `select` alternates with the poll; a connection that waits is
  reported the next time.
* `HandlerWrites` and the handler's connection (weak): a handler is a `netcat` that
  either goes on or dies. Without this `read` may wait for ever (a hazard: it has no
  limit).
* `Restart` and librespot's start (weak): `Restart=always` in the service files.
* `LockAfterIcons` (strong): the mutex is held for a few lines of text only. `PutIcon`
  (strong): a glyph of the font is rendered as soon as there is memory. `IconsSync`
  (strong): not every write to the display fails.
* A press (strong, for each line): an edge is not unreadable for ever.
* The device (`update`, weak): it is turned on, the script runs on, one that hangs is
  turned off. `SaveEnv`, `ResetTries` (strong): not every `saveenv` fails. RAUC ends each
  installation; the page's timer ticks and its requests are answered. `ScriptPolls`
  (strong): a progress of 100 lasts longer than the second between two polls, so that
  one of them sees it.
* Nothing else is assumed of users, crashes, events or failures.

### What the violations say

* `ndef_read_short`: `page_count - 4` is `uint8_t` (`tagreader.c:219`), so a message
  of at most three pages, such as that of an empty tag, makes `read_pages` ask for
  some 250 pages. The chip refuses at its end, and the message is not delivered.
* `menu_hide`: `ui.c:407` says "hide menu in next iteration". The code hides the menu
  in the next iteration *that sees no press*; one that waited meanwhile acts on the
  menu and keeps it.
* `menu_list`: `bt.h:21` promises "number of devices, or -1
  on error"; `menu_bt_init` and `ui_process` are prepared for neither -1 nor 0.
* `menu_leak`: `bt.h:18` has the caller free "the memory allocated for the device
  list"; in its second pass `devices_iter` (`bt.c:45`) neither keeps nor frees the path
  of an object that is no device, and the adapter is one at every call. The status
  screen makes such a call at each turn.

Other deviations are part of the models as history variables, because the code does
not promise anything else: a command that fails, as any does while librespot is down,
stays lost (`spoilt`), a poll that fails once shows a warning until the next event
(`told`), a process that dies with a tag leaves the music on (`orphaned`). Music that
has come to its end, an event that the code does not know, keeps its icon (`InSync`
allows a player that is stopped). Nobody marks a slot good, so that a device that is
turned off three times changes its slot (`SystemComesUp` says only that some system
runs, and nothing while a bad `boot.vfat` is in use, of which `br-external/README.md:16`
says "no fallback").

## 4. The proofs

Eight modules hold theorems, each for every value of the constants under the `ASSUME`s
of the module it extends; TLC evaluates these assumptions in the runs.

**TagReaderProofs.** Assumed: `NoTag` is no tag, the kinds of content are different
values, `Content` maps tags to contents. The invariants are about the head of the
loop; they are not inductive, for between two heads the thread lights, loads, accepts
or forgets one thing after another. `StepInvariant` says for each `pc` which of the
address, the LED and the command already belong to the tag in hand, and that `misses`
is `retry` while a tag is present. `IInv`, its conjunction with the types and the
invariants, is inductive: one step for each action (`StepKeepsInvariant`), the
counters apart (`CountersKept`). From it follow `TypeCorrect`, `FreshTagLoaded`,
`LampCorrect`, `CommandCorrect`, the action property `RemovalDebounced`, and
`Refinement`: every step of `TagReader` is a step of `TagSession` or a stutter.

**PlayerProofs** builds on it. `PlayerIsTagReader`: each step of the composition is a
step of `TagReader` or leaves its variables alone, so `IInv` holds here, too, and so do
the sessions of `TagSession` (`PlayerHasSessions`). `Player`'s
own invariants speak of an empty queue; `PlayerInv` says what holds with a full one:
the last command in the queue is the one that the thread sent last, or the queue is
empty and that command has had its effect (`LoadArrives`, `PauseArrives`), unless
it is `spoilt`, and a command of the thread that is not appended makes it so
(`SendAppends`). It also needs that nothing waits or plays while librespot is down,
and `OrphanHasNoTag`: after a restart over a loaded librespot, no address is held until
the process has sent a load of its own. With `CommandMatchesTag` from below,
`Silence` and `MusicOfTheTag` follow, for any queue size.

**LibrespotLinkProofs.** `InSync` is about the moment at which every event has been
read. `LastTells` follows the events on their way there: of those before their
handlers, or if these are none, of the connections that wait, or else of the one
being read, the last one that sets the status is what librespot `told` last, unless
something happened since that no event tells; events that the code does not know may
come anywhere among them. `LastEventTells` proves it with the types, for any backlog and
any number of events; `StatusInSync` is the conclusion.

**NdefReadProofs.** Assumed in the theorems: length bytes of at least 11
(`FourPagesOrMore`), which the violation above shows to be needed. The lemma
`PagesLeftBounds` is the arithmetic: page count and pages left do not wrap and are the
message length divided by four, rounded up. The invariant `PagesRead` says that the
buffer holds the first four pages and as many as the counter says, at most three
beyond the message. `WholeMessageRead`, `NoPageBeyondMessage` and `InsideTheBuffer`
follow for any set of chips. `EveryStepCounts` is the safety half of `ReadReturns`: a
bound on the steps left, 67 at first, falls with each of them.

**StatusScreenProofs.** `TrackInfo`'s `Inv` ties the mutex to the two program counters,
and each thread's progress to what it has dealt with: `MutexProtectsTheLines` and
`OneTrackShown` hold for any set of tracks. `TracksAreRegister` is more: the lines that
are refreshed are those that the registers hold at that moment (`StepOfRegister`: the
printed lines equal `info`, and `info` the event when the librespot thread unlocks), so
the two threads implement `TrackRegister`. `ScreenIsTrackInfo`: the status screen, with
all it does about icons, is a `TrackInfo`, so that `OneTrackOnScreen` and
`ScreenShowsLastTrack` carry over.

`ScrollStaysInText` and `ScrollReachesAll` are about the arithmetic of
`print_scrolling`: whenever the amplitude fits into half a `Word`, at every time the
position is one from which a whole window is left, and each such position is taken
within a period. `PositionsOfText` puts the two together, and `LinesScroll` says so of
every line that is printed.

The icons: `FrameIsIcons` with the types (`IconsInv`) is inductive, and `FrameShowsIcons`
proves it for any screen, columns and bitmaps that fit. The drawing walks through the
bitmap with two counters, `P` and `Q`; `ColumnOfBitmap` and `RowOfBitmap` show that they
are the column and the row of the bitmap, by the size of an interval
(`CardinalityOfRange`). So a cell that is drawn is the icon (`CellIsDrawn`), the other
places are left alone (`OtherCellsAreKept`), and the half that is written has all of
each cell (`HalfHasCells`). `IsConnectedIsTrue` sees through the two passes of `bt.c`;
with it, `BluetoothIconTells` says that the icon put for BlueZ's answer is the connected
one exactly if some device of the answer is. For the other two places the code's choice
is a table, which `IconsFollow` compares with another one (`TrueIcon`).

**MenuProofs.** `MenuInv` joins `ListLivesWithMenu` and `ScreenIsMenu`, which need each
other only through `g_current_menu`; the lemma behind both is that no call of `bt.c`
loses a block of a list (`ListBlocksAreFreed`). `ListLives` and `ScreenShowsMenu` hold
for any answers of BlueZ and any queue. `MenuTypes` needs what `RangesInv` adds to the
types: the count is that of the list (`ListIsCounted`), there are items for the devices
up to the first name without one, and the cursor is one of them.

**LifecycleProofs.** `Inv` says for each phase of `main` what is open and which threads
there are (`Phases`, `Interface`), and what the LED line shows (`LedObeys`). There are no
constants, so TLC has seen every state; the proof says why it holds, one step for each
thing that is opened or closed. `MutexSafe` (`MutexOutlivesItsUser`, a conjunct of
`Inv`), `LedFollows` and `EverythingReleased` follow. `MainGoesForward` is the safety half
of `SigintEnds`: `main` has at most 13 steps before it, each of its own lowers their
number, and no thread or signal raises it.

**FirmwareUpdateProofs.** `UpdateIsTried` looks at one stage of the boot script. Between
the end of the installation and that stage `PromiseKept` holds: the promised slot comes
first in the saved order, has attempts left, and what the script holds in memory is what
was saved. `PromisesAreKept` proves it for any versions, bundles, attempts, power cuts
and calls of `saveenv` that fail; `UpdateTriedFirst` is the conclusion. `AlwaysASystem` becomes inductive with the one fact
that a system which is up is one that comes up (`SystemKept`): RAUC writes only while a
system is up, and only the other slot (`RaucSparesTheSlot`), and nobody else writes
slots (`OthersSpareImages`). `ASystemIsKept` and `RunningSlotIsSpared` follow.
`AttemptsArePaid` is about the script's count: what `saveenv` writes is the saved
environment, with its defaults, less one attempt of the slot that is tried, for nobody
changes flash or memory in between (`ChosenSlotWaits`). An attempt whose `saveenv` fails
is not on record.

**Only model-checked.** Every invariant of the passing runs is proved, and so are
`RemovalIsDebounced` and the two refinements. What stays with TLC is liveness, which is
out of the prover's reach: `RemovalIsNoticed` and the other temporal properties of the
runs. Of two of them, `ReadReturns` and `SigintEnds`, the proofs have the part that is
not about fairness, a bound that falls with each step. The four violations are
TLC's, too. That the process dies in the Bluetooth menu only is how `alive` is defined
from the code, and is no theorem.

## 5. What is not modelled

* The Wi-Fi and Bluetooth handlers of the API: one file or one D-Bus call each, without
  a state between two calls. The Wi-Fi and Bluetooth pages: they show the last answer
  and decide nothing by it; that answers may overtake each other is modelled for the
  firmware page.
* The NDEF parser, the radio driver, librespot, BlueZ, iwd, FreeType, ncurses and RAUC,
  except as the code sees them; in `PROJECT.json` their definitions are marked external.
* Formatting and wording; `librespot_parse_event` beyond which event it recognises; the
  debouncing of edges, which is a choice in `Menu`; the shape of the glyphs, which are
  constants of `StatusScreen`.
* The exchange of `g_status` between two threads without a lock: one aligned word that is
  written whole.
* Wall-clock time, except where the code compares it.
* What is in a `boot.vfat`: the boot loader and the script may change with it, and are
  taken to be those of this repository, or (`BadLoaders`) not to get to the script. That
  it is written to the half of its partition that is not in use, and switched to by the
  partition table, is RAUC's.
* The image build and the board files: scripts that a developer runs once, and
  configuration. `g_menu_bt_items` without a NULL at its end has both its outcomes in
  `OpenBtMenu`; no property says that the process survives it.

## 6. What could come next

1. `Menu` and `Player` together: presses that choose commands, out of `Menu`'s queue,
   with the main thread waiting in `connect`. Today `Player` lets a button send its
   command at any moment, which allows all that the composition would.
2. An abstract specification of the whole player ("the music is the tag's") that
   `Player` implements up to `spoilt` and `orphaned`; `Silence` and
   `MusicOfTheTag` are its invariants.
3. The way of the events through `LibrespotLink` as a queue: that `g_status` takes the
   values librespot told it in their order, some left out, as a refinement.
4. The rest of the bounds that fall: for `deinit` of the librespot thread, and for the
   boot script, whose attempts (`AttemptsArePaid`) bound how often a faulty slot is
   tried.
