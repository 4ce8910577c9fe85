--------------------------- MODULE NdefReadProofs ---------------------------
(***************************************************************************)
(* The page arithmetic of NdefRead, for every set of length bytes of four  *)
(* pages or more and every set of chip sizes.                              *)
(***************************************************************************)
EXTENDS NdefRead, TLAPS

\* The messages for which page_count - 4 does not wrap, in both layouts.
FourPagesOrMore == Lengths \subseteq 11..255

\* page_count - 4 is computed without a wrap: the pages after the first four.
LEMMA PagesLeftBounds ==
  ASSUME len \in 11..255, layout \in {"ndef", "lock", "other"}
  PROVE  /\ PagesLeft \in 0..62
         /\ MessageEnd \in Nat
         /\ MessageEnd <= 4 * (PagesLeft + 4)
         /\ 4 * (PagesLeft + 3) < MessageEnd
  <1> DEFINE r == MessageEnd % 4
             q == MessageEnd \div 4
  <1>1. MessageEnd \in 13..262
    BY DEF MessageEnd, LengthIndex, PAGE_SIZE
  <1>2. q \in 3..65 /\ r \in 0..3 /\ MessageEnd = 4 * q + r
    BY <1>1
  <1> HIDE DEF q, r
  <1>3. page_count = uint8(q + (IF r # 0 THEN 1 ELSE 0))
    BY DEF page_count, PAGE_SIZE, q, r
  <1>4. page_count = q + (IF r # 0 THEN 1 ELSE 0)
    BY <1>2, <1>3 DEF uint8
  <1>5. PagesLeft = page_count - 4
    BY <1>1, <1>2, <1>4 DEF PagesLeft, uint8
  <1>6. QED
    BY <1>1, <1>2, <1>4, <1>5

\* The pages read so far are the first four and as many as the loop has counted,
\* and it has not counted more than one turn beyond the pages left.
PagesRead ==
  /\ TypeOK
  /\ pc = "header" => i = 0 /\ filled = 0
  /\ pc \in {"pages", "delivered"} => filled = 16 + 4 * i
  /\ pc = "failed" => filled \in {0, 16 + 4 * i}
  /\ i <= PagesLeft + 3
  /\ pc = "delivered" => i >= PagesLeft

\* Every step of search_and_read_tag keeps PagesRead.
LEMMA StepKeepsPagesRead ==
  ASSUME FourPagesOrMore, PagesRead, [Next]_vars
  PROVE  PagesRead'
  <1> USE DEF PagesRead, TypeOK, tag
  <1>1. /\ PagesLeft \in 0..62
        /\ MessageEnd <= 4 * (PagesLeft + 4)
    BY PagesLeftBounds, LayoutsAssumption DEF FourPagesOrMore
  <1>2. ASSUME UNCHANGED tag PROVE PagesLeft' = PagesLeft
    BY <1>2 DEF PagesLeft, page_count, MessageEnd, LengthIndex
  <1>3. CASE ReadHeader
    BY <1>1, <1>2, <1>3 DEF ReadHeader, PAGE_SIZE
  <1>4. CASE ReadFourPages
    <2>1. uint8(i + 4) = i + 4
      BY <1>1, <1>4 DEF ReadFourPages, uint8
    <2>2. /\ i' = i + 4
          /\ filled' = 16 + 4 * (i + 4)
      BY <1>1, <1>4, <2>1 DEF ReadFourPages, PAGE_SIZE
    <2>3. QED
      BY <1>1, <1>2, <1>4, <2>2 DEF ReadFourPages
  <1>5. CASE ReadFails
    BY <1>2, <1>5 DEF ReadFails
  <1>6. CASE Deliver
    BY <1>1, <1>2, <1>6 DEF Deliver
  <1>7. CASE Returned \/ UNCHANGED vars
    BY <1>2, <1>7 DEF Returned, vars
  <1>8. QED
    BY <1>3, <1>4, <1>5, <1>6, <1>7 DEF Next

\* The reading of any message of four pages or more follows the page count.
LEMMA PagesReadHolds == ASSUME FourPagesOrMore PROVE Spec => []PagesRead
  <1>1. Init => PagesRead
    <2> SUFFICES ASSUME Init PROVE PagesRead
      OBVIOUS
    <2>1. PagesLeft \in 0..62
      BY PagesLeftBounds, LayoutsAssumption DEF Init, FourPagesOrMore
    <2>2. QED
      BY <2>1 DEF Init, PagesRead, TypeOK
  <1>2. PagesRead /\ [Next]_vars => PagesRead'
    BY StepKeepsPagesRead
  <1>3. QED
    BY <1>1, <1>2, PTL DEF Spec

\* Every byte that g_ndef_msg_cb is given has been read from the tag.
THEOREM WholeMessageRead ==
  ASSUME FourPagesOrMore PROVE Spec => []MessageIsRead
  <1>1. PagesRead => MessageIsRead
    <2> SUFFICES ASSUME PagesRead, pc = "delivered" PROVE MessageEnd <= filled
      BY DEF MessageIsRead
    <2>1. /\ PagesLeft \in 0..62
          /\ MessageEnd \in Nat
          /\ MessageEnd <= 4 * (PagesLeft + 4)
      BY PagesLeftBounds, LayoutsAssumption DEF PagesRead, TypeOK, FourPagesOrMore
    <2>2. QED
      BY <2>1 DEF PagesRead, TypeOK
  <1>2. QED
    BY <1>1, PagesReadHolds, PTL

\* read_pages asks for no page beyond the message.
THEOREM NoPageBeyondMessage ==
  ASSUME FourPagesOrMore PROVE Spec => []OnlyMessagePages
  <1>1. PagesRead => OnlyMessagePages
    <2> SUFFICES ASSUME PagesRead, pc = "pages", i < PagesLeft
                 PROVE  (NextPage - NDEF_START_PAGE) * PAGE_SIZE < MessageEnd
      BY DEF OnlyMessagePages
    <2>1. /\ PagesLeft \in 0..62
          /\ MessageEnd \in Nat
          /\ 4 * (PagesLeft + 3) < MessageEnd
      BY PagesLeftBounds, LayoutsAssumption DEF PagesRead, TypeOK, FourPagesOrMore
    <2>2. NextPage = 8 + i
      BY <2>1 DEF PagesRead, TypeOK, NextPage, uint8, NDEF_START_PAGE
    <2>3. QED
      BY <2>1, <2>2 DEF PagesRead, TypeOK, NDEF_START_PAGE, PAGE_SIZE
  <1>2. QED
    BY <1>1, PagesReadHolds, PTL

\* The pages of read_pages land inside data[496].
THEOREM InsideTheBuffer ==
  ASSUME FourPagesOrMore PROVE Spec => []StaysInBuffer
  <1>1. PagesRead => StaysInBuffer
    <2> SUFFICES ASSUME PagesRead PROVE StaysInBuffer
      OBVIOUS
    <2>1. PagesLeft \in 0..62
      BY PagesLeftBounds, LayoutsAssumption DEF PagesRead, TypeOK, FourPagesOrMore
    <2>2. QED
      BY <2>1 DEF PagesRead, TypeOK, StaysInBuffer, DATA_SIZE
  <1>2. QED
    BY <1>1, PagesReadHolds, PTL

\* How many steps search_and_read_tag may still take: a bound that each of them lowers.
StepsLeft ==
  CASE pc = "header" -> 67
    [] pc = "pages" -> PagesLeft + 4 - i
    [] OTHER -> 0

\* The loop cannot go round for ever, on any chip and with any answers: each step brings
\* the return nearer, and there are 67 at most.  (What is left of ReadReturns is that
\* the function is not stopped.)
THEOREM EveryStepCounts ==
  ASSUME FourPagesOrMore
  PROVE  Spec => [](StepsLeft \in 0..67) /\ [][StepsLeft' < StepsLeft]_vars
  <1>1. ASSUME PagesRead PROVE PagesLeft \in 0..62
    BY <1>1, PagesLeftBounds, LayoutsAssumption DEF PagesRead, TypeOK, FourPagesOrMore
  <1>2. PagesRead => StepsLeft \in 0..67
    BY <1>1 DEF PagesRead, TypeOK, StepsLeft
  <1>3. ASSUME PagesRead, PagesRead', [Next]_vars, vars' # vars
        PROVE  StepsLeft' < StepsLeft
    <2> USE DEF PagesRead, TypeOK, StepsLeft, tag
    <2>1. PagesLeft \in 0..62 /\ PagesLeft' = PagesLeft
      BY <1>1, <1>3 DEF Next, ReadHeader, ReadFourPages, ReadFails, Deliver, Returned, vars,
                        PagesLeft, page_count, MessageEnd, LengthIndex
    <2>2. CASE ReadHeader
      BY <1>3, <2>1, <2>2 DEF ReadHeader
    <2>3. CASE ReadFourPages
      <3>1. i' = i + 4
        BY <1>3, <2>1, <2>3 DEF ReadFourPages, uint8
      <3>2. QED
        BY <1>3, <2>1, <2>3, <3>1 DEF ReadFourPages
    <2>4. CASE ReadFails
      BY <1>3, <2>1, <2>4 DEF ReadFails
    <2>5. CASE Deliver
      BY <1>3, <2>1, <2>5 DEF Deliver
    <2>6. QED
      BY <1>3, <2>2, <2>3, <2>4, <2>5 DEF Next, Returned
  <1>4. PagesRead /\ PagesRead' /\ [Next]_vars => [StepsLeft' < StepsLeft]_vars
    BY <1>3
  <1>5. QED
    BY PagesReadHolds, <1>2, <1>4, PTL DEF Spec
=============================================================================
