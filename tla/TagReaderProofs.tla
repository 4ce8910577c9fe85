-------------------------- MODULE TagReaderProofs ---------------------------
(***************************************************************************)
(* What TLC shows of TagReader for a few tags, proved for every set of     *)
(* tags and every content of them: the types, the inductive invariant      *)
(* IInv, the invariants it contains or implies, the debouncing of          *)
(* removals, and that the thread implements the sessions of TagSession.    *)
(***************************************************************************)
EXTENDS TagReader, TLAPS

USE TagsAssumption, UriAssumption, ContentAssumption, CrashAssumption

-----------------------------------------------------------------------------
\* The counters are apart from the rest of the types: the arithmetic of retry
\* and misses is all that is needed for them.
LEMMA CountersKept == ASSUME IInv, [Next]_vars PROVE CountersOK'
  <1> USE DEF IInv, TypeOK, CountersOK, MAX_RETRY, history, reader, radio
  <1>1. CASE Place
    BY <1>1 DEF Place
  <1>2. CASE Remove
    BY <1>2 DEF Remove
  <1>3. CASE SearchOk
    BY <1>3 DEF SearchOk, Searching
  <1>4. CASE SearchFail
    BY <1>4 DEF SearchFail, Searching
  <1>5. CASE ReadOk
    BY <1>5 DEF ReadOk
  <1>6. CASE ReadFail
    BY <1>6 DEF ReadFail
  <1>7. CASE LoadUri
    BY <1>7 DEF LoadUri, TakesUri
  <1>8. CASE IgnoreMsg
    BY <1>8 DEF IgnoreMsg, TakesUri
  <1>9. CASE SmartPosterThrows
    BY <1>9 DEF SmartPosterThrows
  <1>10. CASE LedOn
    BY <1>10 DEF LedOn
  <1>11. CASE SendLoad
    BY <1>11 DEF SendLoad
  <1>12. CASE AcceptTag
    BY <1>12 DEF AcceptTag
  <1>13. CASE PollSame
    BY <1>13 DEF PollSame, Polling
  <1>14. CASE PollChanged
    BY <1>14 DEF PollChanged, Polling, ForgetTag
  <1>15. CASE PollRetry
    BY <1>15 DEF PollRetry, Polling
  <1>16. CASE PollGivesUp
    BY <1>16 DEF PollGivesUp, Polling, ForgetTag
  <1>17. CASE LedOff
    BY <1>17 DEF LedOff
  <1>18. CASE SendPause
    BY <1>18 DEF SendPause
  <1>19. CASE ThreadExit
    BY <1>19 DEF ThreadExit
  <1>20. CASE Deinit
    BY <1>20 DEF Deinit
  <1>21. CASE Crash
    BY <1>21 DEF Crash
  <1>22. CASE Restart
    BY <1>22 DEF Restart
  <1>23. CASE UNCHANGED vars
    BY <1>23 DEF vars
  <1>24. QED
    BY <1>1, <1>2, <1>3, <1>4, <1>5, <1>6, <1>7, <1>8, <1>9, <1>10, <1>11,
       <1>12, <1>13, <1>14, <1>15, <1>16, <1>17, <1>18, <1>19, <1>20,
       <1>21, <1>22, <1>23
    DEF Next, User, TagThread, LocalStep

\* A new process satisfies the invariant.
LEMMA InitInvariant == Init => IInv
  <1> SUFFICES ASSUME Init PROVE IInv
    OBVIOUS
  <1>1. CountersOK
    BY DEF Init, CountersOK, MAX_RETRY
  <1>2. TypeOK
    BY <1>1, Zenon DEF Init, TypeOK
  <1>3. LampMatchesTag /\ CommandMatchesTag /\ StepInvariant
    BY <1>2 DEF Init, LampMatchesTag, CommandMatchesTag, StepInvariant, NoLampYet
  <1>4. QED
    BY <1>2, <1>3 DEF IInv

\* Every step of the thread, the user and the process keeps the invariant.
LEMMA StepKeepsInvariant == ASSUME IInv, [Next]_vars PROVE IInv'
  <1>1. CountersOK'
    BY CountersKept
  <1> USE <1>1 DEF IInv, TypeOK, LampMatchesTag, CommandMatchesTag, StepInvariant,
                   InHand, NoLampYet, UriOf, Running, radio, reader, history
  <1>2. CASE Place
    BY <1>2 DEF Place
  <1>3. CASE Remove
    BY <1>3 DEF Remove
  <1>4. CASE SearchOk
    BY <1>4 DEF SearchOk, Searching
  <1>5. CASE SearchFail
    BY <1>5 DEF SearchFail, Searching
  <1>6. CASE ReadOk
    BY <1>6 DEF ReadOk
  <1>7. CASE ReadFail
    BY <1>7 DEF ReadFail
  <1>8. CASE LoadUri
    BY <1>8 DEF LoadUri, TakesUri
  <1>9. CASE IgnoreMsg
    BY <1>9 DEF IgnoreMsg, TakesUri
  <1>10. CASE SmartPosterThrows
    BY <1>10 DEF SmartPosterThrows
  <1>11. CASE LedOn
    BY <1>11 DEF LedOn
  <1>12. CASE SendLoad
    BY <1>12 DEF SendLoad
  <1>13. CASE AcceptTag
    BY <1>13 DEF AcceptTag
  <1>14. CASE PollSame
    BY <1>14 DEF PollSame, Polling
  <1>15. CASE PollChanged
    BY <1>15 DEF PollChanged, Polling, ForgetTag
  <1>16. CASE PollRetry
    BY <1>16 DEF PollRetry, Polling
  <1>17. CASE PollGivesUp
    BY <1>17 DEF PollGivesUp, Polling, ForgetTag
  <1>18. CASE LedOff
    BY <1>18 DEF LedOff
  <1>19. CASE SendPause
    BY <1>19 DEF SendPause
  <1>20. CASE ThreadExit
    BY <1>20 DEF ThreadExit
  <1>21. CASE Deinit
    <2>1. TypeOK'
      BY <1>21, Zenon DEF Deinit
    <2>2. LampMatchesTag' /\ CommandMatchesTag'
      BY <1>21 DEF Deinit
    <2>3. StepInvariant'
      BY <1>21 DEF Deinit
    <2>4. QED
      BY <2>1, <2>2, <2>3
  <1>22. CASE Crash
    BY <1>22 DEF Crash
  <1>23. CASE Restart
    <2>1. TypeOK'
      BY <1>23, Zenon DEF Restart
    <2>2. LampMatchesTag' /\ CommandMatchesTag'
      BY <1>23 DEF Restart
    <2>3. StepInvariant'
      BY <1>23 DEF Restart
    <2>4. QED
      BY <2>1, <2>2, <2>3
  <1>24. CASE UNCHANGED vars
    BY <1>24 DEF vars
  <1>25. QED
    BY <1>2, <1>3, <1>4, <1>5, <1>6, <1>7, <1>8, <1>9, <1>10, <1>11, <1>12,
       <1>13, <1>14, <1>15, <1>16, <1>17, <1>18, <1>19, <1>20, <1>21,
       <1>22, <1>23, <1>24
    DEF Next, User, TagThread, LocalStep

\* IInv holds in every state the program can reach: it says, for each point of
\* the callbacks, which of address, LED and last command belong to the tag.
THEOREM Invariant == Spec => []IInv
<1>1. IInv /\ [Next]_vars => IInv'
  BY StepKeepsInvariant
<1>2. QED
  BY InitInvariant, <1>1, PTL DEF Spec

-----------------------------------------------------------------------------
\* Every variable keeps its type.
THEOREM TypeCorrect == Spec => []TypeOK
<1>1. IInv => TypeOK
  BY DEF IInv
<1>2. QED
  BY Invariant, <1>1, PTL

\* No load is ever dropped because an address was left from an earlier tag.
THEOREM FreshTagLoaded == Spec => []FreshTagIsLoaded
<1>1. IInv => FreshTagIsLoaded
  BY DEF IInv, StepInvariant, NoLampYet, FreshTagIsLoaded
<1>2. QED
  BY Invariant, <1>1, PTL

\* Between two iterations the address and the LED are those of the polled tag.
THEOREM LampCorrect == Spec => []LampMatchesTag
<1>1. IInv => LampMatchesTag
  BY DEF IInv
<1>2. QED
  BY Invariant, <1>1, PTL

\* Between two iterations librespot was last sent what the polled tag asks for.
THEOREM CommandCorrect == Spec => []CommandMatchesTag
<1>1. IInv => CommandMatchesTag
  BY DEF IInv
<1>2. QED
  BY Invariant, <1>1, PTL

\* The loop gives a tag up after MAX_RETRY + 1 failed polls in a row, or when
\* another tag answers, and never otherwise.
THEOREM RemovalDebounced == Spec => RemovalIsDebounced
<1>1. IInv /\ [Next]_vars => [DebouncedStep]_vars
  <2> SUFFICES ASSUME IInv, [Next]_vars, pc' = "removed", pc # "removed"
               PROVE  misses' = MAX_RETRY + 1 \/ field \notin {prev_serial, NoTag}
    BY DEF DebouncedStep
  <2>1. PollChanged \/ PollGivesUp
    BY DEF Next, User, TagThread, LocalStep,
           vars, Place, Remove, SearchOk, SearchFail, ReadOk,
           ReadFail, LoadUri, IgnoreMsg, SmartPosterThrows, LedOn, SendLoad,
           AcceptTag, PollSame, PollRetry, LedOff, SendPause, ThreadExit, Deinit,
           Crash, Restart
  <2>2. CASE PollChanged
    BY <2>2 DEF PollChanged
  <2>3. CASE PollGivesUp
    <3>1. misses = retry
      BY <2>3 DEF PollGivesUp, Polling, IInv, StepInvariant, Running
    <3>2. retry = MAX_RETRY
      BY <2>3 DEF PollGivesUp, IInv, TypeOK, CountersOK, MAX_RETRY
    <3>3. QED
      BY <2>3, <3>1, <3>2 DEF PollGivesUp
  <2>4. QED
    BY <2>1, <2>2, <2>3
<1>2. QED
  BY Invariant, <1>1, PTL DEF Spec, RemovalIsDebounced

-----------------------------------------------------------------------------
\* The thread starts as a session that is idle, and each of its steps is a step
\* of the session or leaves it as it is: one load for each time the lamp is lit,
\* and no second load by the same process before a pause.
THEOREM Refinement == Spec => ImplementsSession
<1>1. Init => Session!Init
  BY DEF Init, Session!Init, Running
<1>2. IInv /\ [Next]_vars => [Session!Next]_Session!vars
  <2> SUFFICES ASSUME IInv, [Next]_vars PROVE [Session!Next]_Session!vars
    OBVIOUS
  <2> USE DEF IInv, TypeOK, LampMatchesTag, StepInvariant, InHand, NoLampYet,
              UriOf, Running, radio, reader, history, Session!vars,
              Session!Next, Session!LightUp, Session!Follow, Session!Leave,
              Session!SendPause, Session!Die
  <2>1. CASE Place
    BY <2>1 DEF Place
  <2>2. CASE Remove
    BY <2>2 DEF Remove
  <2>3. CASE SearchOk
    BY <2>3 DEF SearchOk, Searching
  <2>4. CASE SearchFail
    BY <2>4 DEF SearchFail, Searching
  <2>5. CASE ReadOk
    BY <2>5 DEF ReadOk
  <2>6. CASE ReadFail
    BY <2>6 DEF ReadFail
  <2>7. CASE LoadUri
    BY <2>7 DEF LoadUri, TakesUri
  <2>8. CASE IgnoreMsg
    BY <2>8 DEF IgnoreMsg, TakesUri
  <2>9. CASE SmartPosterThrows
    BY <2>9 DEF SmartPosterThrows
  <2>10. CASE LedOn
    BY <2>10 DEF LedOn
  <2>11. CASE SendLoad
    BY <2>11 DEF SendLoad
  <2>12. CASE AcceptTag
    BY <2>12 DEF AcceptTag
  <2>13. CASE PollSame
    BY <2>13 DEF PollSame, Polling
  <2>14. CASE PollChanged
    BY <2>14 DEF PollChanged, Polling, ForgetTag
  <2>15. CASE PollRetry
    BY <2>15 DEF PollRetry, Polling
  <2>16. CASE PollGivesUp
    BY <2>16 DEF PollGivesUp, Polling, ForgetTag
  <2>17. CASE LedOff
    BY <2>17 DEF LedOff
  <2>18. CASE SendPause
    BY <2>18 DEF SendPause
  <2>19. CASE ThreadExit
    BY <2>19 DEF ThreadExit
  <2>20. CASE Deinit
    BY <2>20 DEF Deinit
  <2>21. CASE Crash
    BY <2>21 DEF Crash
  <2>22. CASE Restart
    BY <2>22 DEF Restart
  <2>23. CASE UNCHANGED vars
    BY <2>23 DEF vars
  <2>24. QED
    BY <2>1, <2>2, <2>3, <2>4, <2>5, <2>6, <2>7, <2>8, <2>9, <2>10, <2>11,
       <2>12, <2>13, <2>14, <2>15, <2>16, <2>17, <2>18, <2>19, <2>20,
       <2>21, <2>22, <2>23
    DEF Next, User, TagThread, LocalStep
<1>3. QED
  BY Invariant, <1>1, <1>2, PTL DEF Spec, Session!Spec, ImplementsSession
=============================================================================
