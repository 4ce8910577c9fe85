------------------------------ MODULE NdefRead ------------------------------
(***************************************************************************)
(* How search_and_read_tag (tagreader.c) fetches the NDEF message of a tag *)
(* it has selected: the first four pages, the place of the length byte,    *)
(* the page arithmetic in uint8_t, and the loop of read_pages.             *)
(***************************************************************************)
EXTENDS Integers

CONSTANTS Lengths,   \* values of the length byte
          Layouts,   \* what the first page holds: "ndef", "lock", "other"
          Chips      \* numbers of pages of the chips: 45, 135, 231

ASSUME LengthsAssumption == Lengths \subseteq 0..255
ASSUME LayoutsAssumption == Layouts \subseteq {"ndef", "lock", "other"}
ASSUME ChipsAssumption == Chips \subseteq 0..255

VARIABLES len, layout, chip,  \* the tag
          pc,                 \* "header", "pages", "delivered" or "failed"
          i,                  \* the loop counter of read_pages, a uint8_t
          filled              \* bytes of data[] written so far, from the start

tag  == <<len, layout, chip>>
vars == <<tag, pc, i, filled>>

NDEF_START_PAGE == 4
PAGE_SIZE == 4
DATA_SIZE == 496

uint8(n) == n % 256

\* The index of the length byte: a lock control TLV takes the first five bytes.
LengthIndex == IF layout = "lock" THEN PAGE_SIZE + 2 ELSE 1

\* The bytes from page 4 to the end of the message, and the pages they take.
MessageEnd == len + LengthIndex + 1

\* Faulty page_count: rounded down.
PageCountRoundedDown == uint8(MessageEnd \div PAGE_SIZE)

page_count == uint8(MessageEnd \div PAGE_SIZE
                    + (IF MessageEnd % PAGE_SIZE # 0 THEN 1 ELSE 0))

\* Faulty PagesLeft: one page of the first four is read again.
PagesLeftOffByOne == uint8(page_count - 3)

\* Faulty PagesLeft: bytes instead of pages.
PagesLeftInBytes == uint8(MessageEnd - 4 * PAGE_SIZE)

\* The page_count of read_pages: four pages have been read already.
PagesLeft == uint8(page_count - 4)

\* The page that the next turn of the loop asks for.
NextPage == uint8(NDEF_START_PAGE + 4 + i)

TypeOK ==
  /\ len \in Lengths /\ layout \in Layouts /\ chip \in Chips
  /\ pc \in {"header", "pages", "delivered", "failed"}
  /\ i \in 0..255
  /\ filled \in Nat

Init ==
  /\ len \in Lengths /\ layout \in Layouts /\ chip \in Chips
  /\ pc = "header"
  /\ i = 0
  /\ filled = 0

ReadHeader ==
  /\ pc = "header"
  /\ filled' = 4 * PAGE_SIZE
  /\ pc' = IF layout = "other" THEN "failed" ELSE "pages"
  /\ UNCHANGED <<tag, i>>

\* One turn of the loop.  A chip answers any page it has, with four pages.
ReadFourPages ==
  /\ pc = "pages"
  /\ i < PagesLeft
  /\ NextPage < chip
  /\ LET end == 4 * PAGE_SIZE + i * PAGE_SIZE + 4 * PAGE_SIZE
     IN  filled' = IF end > filled THEN end ELSE filled
  /\ i' = uint8(i + 4)
  /\ UNCHANGED <<tag, pc>>

\* Faulty ReadFails: a failed read starts the whole message again.
ReadFailsStartsAgain ==
  /\ \/ pc = "header"
     \/ pc = "pages" /\ i < PagesLeft
  /\ pc' = "header"
  /\ i' = 0
  /\ UNCHANGED <<tag, filled>>

\* The chip refuses a page it does not have; the radio may fail at any read.
ReadFails ==
  /\ \/ pc = "header"
     \/ pc = "pages" /\ i < PagesLeft
  /\ pc' = "failed"
  /\ UNCHANGED <<tag, i, filled>>

Deliver ==
  /\ pc = "pages"
  /\ i >= PagesLeft
  /\ pc' = "delivered"
  /\ UNCHANGED <<tag, i, filled>>

Returned == pc \in {"delivered", "failed"} /\ UNCHANGED vars

Next == ReadHeader \/ ReadFourPages \/ ReadFails \/ Deliver \/ Returned

Spec == Init /\ [][Next]_vars

\* The loop goes on as long as it may: the function has no wait of its own.
FairSpec == Spec /\ WF_vars(ReadHeader \/ ReadFourPages \/ ReadFails \/ Deliver)

-----------------------------------------------------------------------------
\* Every byte handed to g_ndef_msg_cb has been read from the tag.
MessageIsRead == pc = "delivered" => MessageEnd <= filled

\* read_pages asks only for pages that hold a part of the message.
OnlyMessagePages ==
  pc = "pages" /\ i < PagesLeft
    => (NextPage - NDEF_START_PAGE) * PAGE_SIZE < MessageEnd

\* The pages land inside data[496].
StaysInBuffer == filled <= DATA_SIZE

\* The loop ends.
ReadReturns == <>(pc \in {"delivered", "failed"})
=============================================================================
