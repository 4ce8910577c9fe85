----------------------------- MODULE TagReader ------------------------------
(***************************************************************************)
(* The tag thread of pp3-core: the polling loop of tagreader.c and the two *)
(* callbacks of main.cpp it runs, against a radio that may fail at any     *)
(* exchange, a user who moves tags at any moment, and a process that may   *)
(* die and is started again by systemd.                                    *)
(*                                                                         *)
(* The content of a tag is what ndef_msg_cb makes of it: the address of    *)
(* its first URI or Smart Poster record, or one of                         *)
(*   NoUri   a message without an address, or one the parser refuses,      *)
(*   Broken  a Smart Poster whose inner message the parser throws on,      *)
(*   Blank   no message that search_and_read_tag can read.                 *)
(***************************************************************************)
EXTENDS Naturals

CONSTANTS Tags,       \* the tags the user owns, by their serial number
          NoTag,      \* no tag; as a serial number, the seven zero bytes
          Spotify,    \* addresses below https://open.spotify.com/
          OtherUris,  \* all other addresses
          NoUri, Broken, Blank,
          Content,    \* what each tag holds
          CanCrash    \* whether the process may be killed from outside

Contents == Spotify \cup OtherUris \cup {NoUri, Broken, Blank}

ASSUME TagsAssumption == NoTag \notin Tags
ASSUME UriAssumption ==
    /\ Spotify \cap OtherUris = {}
    /\ {NoUri, Broken, Blank} \cap (Spotify \cup OtherUris) = {}
    /\ NoUri # Broken /\ NoUri # Blank /\ Broken # Blank
ASSUME ContentAssumption == Content \in [Tags -> Contents]
ASSUME CrashAssumption == CanCrash \in BOOLEAN

VARIABLES
  field,         \* the tag on the reader
  selected,      \* the tag that search_tag selected and that never left since
  pc,            \* where the tag thread is; "dead" and "done" have no thread
  g_is_running,  \* the flag of tagreader.c that ends the loop
  tag_present, retry, prev_serial,
  id,            \* the serial number found by search_tag
  g_current_uri, \* NoUri when the string is empty
  led,           \* the level of the LED line
  sent,          \* the last command sent to librespot; NoUri stands for pause
  misses,        \* history: failed polls in a row
  orphaned       \* history: a process died and left librespot loaded

radio   == <<field, selected>>
reader  == <<tag_present, retry, prev_serial, id>>
history == <<misses, orphaned>>
vars    == <<radio, pc, g_is_running, reader, g_current_uri, led, sent, history>>

MAX_RETRY == 3

Running == pc \notin {"dead", "done"}

\* The address that a tag makes librespot load, if any.
UriOf(t) == IF t \in Tags /\ Content[t] \in Spotify THEN Content[t] ELSE NoUri

CountersOK == retry \in 0..MAX_RETRY /\ misses \in Nat

TypeOK ==
  /\ CountersOK
  /\ field \in Tags \cup {NoTag}
  /\ selected \in {NoTag, field}
  /\ pc \in {"loop", "found", "msg", "led", "load", "accept",
             "removed", "pause", "dead", "done"}
  /\ g_is_running \in BOOLEAN
  /\ tag_present \in BOOLEAN
  /\ prev_serial \in Tags \cup {NoTag}
  /\ id \in Tags \cup {NoTag}
  /\ g_current_uri \in Spotify \cup {NoUri}
  /\ led \in BOOLEAN
  /\ sent \in Spotify \cup {NoUri}
  /\ orphaned \in BOOLEAN

(***************************************************************************)
(* A new process: btn_led_init has requested the LED line at 0, and every  *)
(* global and every local of the thread has its initial value.             *)
(***************************************************************************)
Init ==
  /\ field \in Tags \cup {NoTag}
  /\ selected = NoTag
  /\ pc = "loop"
  /\ g_is_running = TRUE
  /\ tag_present = FALSE
  /\ retry = 0
  /\ prev_serial = NoTag
  /\ id = NoTag
  /\ g_current_uri = NoUri
  /\ led = FALSE
  /\ sent = NoUri
  /\ misses = 0
  /\ orphaned = FALSE

-----------------------------------------------------------------------------
(***************************************************************************)
(* The user.  A tag that leaves the field loses its power, and with it the *)
(* selection: it answers no page read before it has been selected again.   *)
(***************************************************************************)
Place ==
  /\ field = NoTag
  /\ field' \in Tags
  /\ UNCHANGED <<selected, pc, g_is_running, reader, g_current_uri, led, sent,
                 history>>

Remove ==
  /\ field # NoTag
  /\ field' = NoTag
  /\ selected' = NoTag
  /\ UNCHANGED <<pc, g_is_running, reader, g_current_uri, led, sent, history>>

-----------------------------------------------------------------------------
(***************************************************************************)
(* search_and_read_tag, and the callback it runs before it returns.        *)
(***************************************************************************)
Searching == pc = "loop" /\ g_is_running /\ ~tag_present

SearchOk ==
  /\ Searching
  /\ field # NoTag
  /\ id' = field
  /\ selected' = field
  /\ pc' = "found"
  /\ UNCHANGED <<field, g_is_running, tag_present, retry, prev_serial,
                 g_current_uri, led, sent, history>>

\* The halt command that starts every search deselects a tag it reaches.
SearchFail ==
  /\ Searching
  /\ selected' \in {selected, NoTag}
  /\ UNCHANGED <<field, pc, g_is_running, reader, g_current_uri, led, sent,
                 history>>

\* All pages come from the selected tag: one that left in between is silent.
ReadOk ==
  /\ pc = "found"
  /\ selected # NoTag
  /\ Content[id] # Blank
  /\ pc' = "msg"
  /\ UNCHANGED <<radio, g_is_running, reader, g_current_uri, led, sent, history>>

ReadFail ==
  /\ pc = "found"
  /\ pc' = "loop"
  /\ UNCHANGED <<radio, g_is_running, reader, g_current_uri, led, sent, history>>

\* load_uri takes an address of Spotify that is not the current one.
TakesUri == Content[id] \in Spotify /\ Content[id] # g_current_uri

LoadUri ==
  /\ pc = "msg"
  /\ TakesUri
  /\ g_current_uri' = Content[id]
  /\ pc' = "led"
  /\ UNCHANGED <<radio, g_is_running, reader, led, sent, history>>

IgnoreMsg ==
  /\ pc = "msg"
  /\ Content[id] # Broken
  /\ ~TakesUri
  /\ pc' = "accept"
  /\ UNCHANGED <<radio, g_is_running, reader, g_current_uri, led, sent, history>>

\* The inner from_bytes is outside the try block: the exception ends the process.
SmartPosterThrows ==
  /\ pc = "msg"
  /\ Content[id] = Broken
  /\ pc' = "dead"
  /\ orphaned' = (orphaned \/ sent # NoUri)
  /\ UNCHANGED <<radio, g_is_running, reader, g_current_uri, led, sent, misses>>

\* led is the level asked for: that the LED's line is there, and that a request for it
\* may fail, is Lifecycle's part.
LedOn ==
  /\ pc = "led"
  /\ led' = TRUE
  /\ pc' = "load"
  /\ UNCHANGED <<radio, g_is_running, reader, g_current_uri, sent, history>>

SendLoad ==
  /\ pc = "load"
  /\ sent' = g_current_uri
  /\ orphaned' = FALSE
  /\ pc' = "accept"
  /\ UNCHANGED <<radio, g_is_running, reader, g_current_uri, led, misses>>

\* search_and_read_tag copies the serial number and the loop marks the tag.
AcceptTag ==
  /\ pc = "accept"
  /\ prev_serial' = id
  /\ tag_present' = TRUE
  /\ retry' = 0
  /\ misses' = 0
  /\ pc' = "loop"
  /\ UNCHANGED <<radio, g_is_running, id, g_current_uri, led, sent, orphaned>>

-----------------------------------------------------------------------------
(***************************************************************************)
(* Polling a tag that is present, and tag_removed_cb.  Any tag in the      *)
(* field may answer the poll: the code compares what it gets.              *)
(***************************************************************************)
Polling == pc = "loop" /\ g_is_running /\ tag_present

\* What the loop forgets before it calls tag_removed_cb.
ForgetTag == prev_serial' = NoTag /\ tag_present' = FALSE /\ pc' = "removed"

\* Faulty PollSame: a good poll does not reset the retries.
PollSameKeepsRetry ==
  /\ Polling
  /\ field = prev_serial
  /\ misses' = 0
  /\ UNCHANGED <<radio, pc, g_is_running, reader, g_current_uri, led, sent,
                 orphaned>>

\* Faulty PollSame: any tag that answers passes for the one that was there.
PollSameAnySerial ==
  /\ Polling
  /\ field # NoTag
  /\ retry' = 0
  /\ misses' = 0
  /\ UNCHANGED <<radio, pc, g_is_running, tag_present, prev_serial, id,
                 g_current_uri, led, sent, orphaned>>

PollSame ==
  /\ Polling
  /\ field = prev_serial
  /\ retry' = 0
  /\ misses' = 0
  /\ UNCHANGED <<radio, pc, g_is_running, tag_present, prev_serial, id,
                 g_current_uri, led, sent, orphaned>>

\* Faulty PollChanged: the old tag is forgotten and its callback is not called.
PollChangedWithoutCallback ==
  /\ Polling
  /\ field \notin {prev_serial, NoTag}
  /\ retry' = 0
  /\ misses' = 0
  /\ prev_serial' = NoTag
  /\ tag_present' = FALSE
  /\ UNCHANGED <<radio, pc, g_is_running, id, g_current_uri, led, sent, orphaned>>

PollChanged ==
  /\ Polling
  /\ field \notin {prev_serial, NoTag}
  /\ retry' = 0
  /\ misses' = 0
  /\ ForgetTag
  /\ UNCHANGED <<radio, g_is_running, id, g_current_uri, led, sent, orphaned>>

\* Faulty PollRetry: the failure is not counted.
PollRetryNotCounted ==
  /\ Polling
  /\ retry < MAX_RETRY
  /\ misses' = misses
  /\ UNCHANGED <<radio, pc, g_is_running, reader, g_current_uri, led, sent,
                 orphaned>>

PollRetry ==
  /\ Polling
  /\ retry < MAX_RETRY
  /\ retry' = retry + 1
  /\ misses' = misses + 1
  /\ UNCHANGED <<radio, pc, g_is_running, tag_present, prev_serial, id,
                 g_current_uri, led, sent, orphaned>>

PollGivesUp ==
  /\ Polling
  /\ retry >= MAX_RETRY
  /\ retry' = 0
  /\ misses' = misses + 1
  /\ ForgetTag
  /\ UNCHANGED <<radio, g_is_running, id, g_current_uri, led, sent, orphaned>>

\* Faulty LedOff: the current address is not cleared.
LedOffKeepsUri ==
  /\ pc = "removed"
  /\ led' = FALSE
  /\ pc' = "pause"
  /\ UNCHANGED <<radio, g_is_running, reader, g_current_uri, sent, history>>

\* Faulty LedOff: the LED stays lit.
LedOffForgotten ==
  /\ pc = "removed"
  /\ g_current_uri' = NoUri
  /\ pc' = "pause"
  /\ UNCHANGED <<radio, g_is_running, reader, led, sent, history>>

LedOff ==
  /\ pc = "removed"
  /\ led' = FALSE
  /\ g_current_uri' = NoUri
  /\ pc' = "pause"
  /\ UNCHANGED <<radio, g_is_running, reader, sent, history>>

\* Faulty SendPause: the callback returns without the command.
SendPauseForgotten ==
  /\ pc = "pause"
  /\ pc' = "loop"
  /\ UNCHANGED <<radio, g_is_running, reader, g_current_uri, led, sent, history>>

SendPause ==
  /\ pc = "pause"
  /\ sent' = NoUri
  /\ orphaned' = FALSE
  /\ pc' = "loop"
  /\ UNCHANGED <<radio, g_is_running, reader, g_current_uri, led, misses>>

-----------------------------------------------------------------------------
(***************************************************************************)
(* The life of the process: tag_reader_deinit clears the flag and joins    *)
(* the thread; anything else may kill the process; systemd starts it again *)
(* in both cases (Restart=always).                                         *)
(***************************************************************************)
Deinit ==
  /\ Running
  /\ g_is_running
  /\ g_is_running' = FALSE
  /\ UNCHANGED <<radio, pc, reader, g_current_uri, led, sent, history>>

\* Faulty ThreadExit: the flag is seen only while no tag is present.
ThreadExitWithoutTag ==
  /\ pc = "loop"
  /\ ~g_is_running
  /\ ~tag_present
  /\ pc' = "done"
  /\ orphaned' = (orphaned \/ sent # NoUri)
  /\ UNCHANGED <<radio, g_is_running, reader, g_current_uri, led, sent, misses>>

ThreadExit ==
  /\ pc = "loop"
  /\ ~g_is_running
  /\ pc' = "done"
  /\ orphaned' = (orphaned \/ sent # NoUri)
  /\ UNCHANGED <<radio, g_is_running, reader, g_current_uri, led, sent, misses>>

Crash ==
  /\ CanCrash
  /\ Running
  /\ pc' = "dead"
  /\ orphaned' = (orphaned \/ sent # NoUri)
  /\ UNCHANGED <<radio, g_is_running, reader, g_current_uri, led, sent, misses>>

Restart ==
  /\ ~Running
  /\ pc' = "loop"
  /\ g_is_running' = TRUE
  /\ tag_present' = FALSE
  /\ retry' = 0
  /\ prev_serial' = NoTag
  /\ id' = NoTag
  /\ g_current_uri' = NoUri
  /\ led' = FALSE
  /\ misses' = 0
  /\ UNCHANGED <<radio, sent, orphaned>>

-----------------------------------------------------------------------------
User == Place \/ Remove

\* The steps of the thread that send nothing to librespot.
LocalStep ==
  \/ SearchOk \/ SearchFail \/ ReadOk \/ ReadFail
  \/ LoadUri \/ IgnoreMsg \/ SmartPosterThrows \/ LedOn \/ AcceptTag
  \/ PollSame \/ PollChanged \/ PollRetry \/ PollGivesUp \/ LedOff
  \/ ThreadExit

TagThread == LocalStep \/ SendLoad \/ SendPause

Next == User \/ TagThread \/ Deinit \/ Crash \/ Restart

Spec == Init /\ [][Next]_vars

(***************************************************************************)
(* The thread sleeps 200 ms and goes on, systemd restarts what ended, and  *)
(* a tag that rests on the reader is at last found and read: no exchange   *)
(* fails for ever.  Nothing is assumed of the user, of crashes, nor that   *)
(* the polls of a present tag succeed.                                     *)
(***************************************************************************)
Fairness ==
  /\ WF_vars(TagThread)
  /\ WF_vars(Restart)
  /\ SF_vars(SearchOk)
  /\ SF_vars(ReadOk)

FairSpec == Spec /\ Fairness
-----------------------------------------------------------------------------
(***************************************************************************)
(* Properties.                                                             *)
(***************************************************************************)

\* When a message reaches load_uri, nothing is left of the tag before it:
\* the test uri == g_current_uri never drops the load of a tag just found.
FreshTagIsLoaded == pc = "msg" => g_current_uri = NoUri /\ ~led

\* Between two iterations of the loop the current address is that of the tag
\* whose serial number the loop polls, and the LED is lit for it alone.
LampMatchesTag ==
  pc = "loop" =>
    /\ g_current_uri = IF tag_present THEN UriOf(prev_serial) ELSE NoUri
    /\ led <=> g_current_uri # NoUri

\* Between two iterations the last command that librespot was sent is that of
\* the tag the loop polls, unless a process died before it could send pause.
CommandMatchesTag == pc = "loop" /\ ~orphaned => sent = g_current_uri

\* What holds between any two steps of the thread, and makes the invariants
\* above inductive: every step of the callbacks knows which of the address, the
\* LED and the command already belong to the tag in hand, and which do not yet.
NoLampYet == ~led /\ ~tag_present

InHand == id \in Tags /\ ~tag_present

StepInvariant ==
  /\ Running /\ tag_present => misses = retry
  /\ pc \in {"found", "msg"} => NoLampYet /\ InHand /\ g_current_uri = NoUri
  /\ pc = "led"     => NoLampYet /\ InHand /\ g_current_uri \in Spotify
  /\ pc = "load"    => led /\ InHand /\ g_current_uri \in Spotify
  /\ pc = "accept"  => InHand /\ (led <=> g_current_uri # NoUri)
  /\ pc \in {"led", "load", "accept"} => g_current_uri = UriOf(id)
  /\ pc = "removed" => ~tag_present
  /\ pc = "pause"   => NoLampYet /\ g_current_uri = NoUri
  /\ pc \in {"found", "msg", "led", "load", "dead", "done"} /\ ~orphaned
       => sent = NoUri
  /\ pc = "accept" /\ ~orphaned => sent = g_current_uri
  /\ tag_present => prev_serial \in Tags

IInv == TypeOK /\ LampMatchesTag /\ CommandMatchesTag /\ StepInvariant

\* A tag is given up only after MAX_RETRY + 1 failed polls with none that
\* succeeded in between, or because another tag answered.
DebouncedStep ==
  pc' = "removed" /\ pc # "removed"
    => misses' = MAX_RETRY + 1 \/ field \notin {prev_serial, NoTag}

RemovalIsDebounced == [][DebouncedStep]_vars

\* The thread implements the sessions of TagSession: lamp before load, one load
\* in a session, and a pause between two sessions of the same process.
Session == INSTANCE TagSession WITH
  Uris  <- Spotify,
  Pause <- NoUri,
  sent  <- sent,
  phase <- IF ~Running THEN "idle"
           ELSE IF led THEN (IF pc = "load" THEN "lit" ELSE "following")
           ELSE IF pc = "pause" THEN "leaving" ELSE "idle"

ImplementsSession == Session!Spec

\* A tag that is taken away and not put back has its LED switched off.
RemovalIsNoticed == field = NoTag /\ led ~> ~led \/ field # NoTag

\* A tag that rests on the reader becomes the tag of the loop, whatever tag was
\* there before, or the process is on its way down.
TagIsPickedUp ==
  \A t \in Tags :
    field = t /\ Content[t] # Blank
      ~> \/ tag_present /\ prev_serial = t
         \/ field # t
         \/ ~g_is_running \/ ~Running

\* tag_reader_deinit returns: the thread it joins leaves its loop.
DeinitReturns == ~g_is_running ~> ~Running
=============================================================================
