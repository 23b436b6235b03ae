------------------------ MODULE EphemeralQuery_proofs ------------------------
(***************************************************************************)
(* Theorems about EphemeralQuery for every limit, result size and row cap: *)
(* the end record is true, QUERY_TIMEOUT is told only after the limit, and *)
(* the watchdog always finds its connection.                               *)
(***************************************************************************)
EXTENDS EphemeralQuery, TLAPS

\* The mark is what ties everything together: an interrupt has a mark before
\* it, a mark has a limit that has passed, and a cut has an interrupt.
MarkComesFirst ==
    /\ interrupted => timedOut
    /\ dog = "marked" => timedOut
    /\ seen = "cut" => timedOut
    /\ answer = "timeout" => timedOut
    /\ timedOut => deadline # 0 /\ clock >= deadline

\* The watchdog exists exactly while a limited query does.
WatchdogIsScoped ==
    /\ dog = "off" <=> deadline = 0
    /\ pc = "idle" => dog = "off"

\* What the handler knows at each place.
HandlerKnows ==
    /\ pc \in {"idle", "ready", "executing", "fetching", "classify"} => answer = "none"
    /\ pc = "failed" => answer \in {"error", "conflict"}
    /\ pc = "classify" => seen # "none"
    /\ pc = "classify" /\ kind = "ndjson" /\ seen = "end" => rowCount = size

IInv == TypeOK /\ MarkComesFirst /\ WatchdogIsScoped /\ HandlerKnows /\ EndRecordIsTrue

\* Every action keeps the type invariant.
LEMMA TypeStep == TypeOK /\ [Next]_vars => TypeOK'
<1> SUFFICES ASSUME TypeOK, [Next]_vars PROVE TypeOK'
  OBVIOUS
<1> USE EphemeralAssumption DEF EphemeralAssumption, TypeOK, Kinds, Catalog, Seen, Answers, PC, Step, handlerVars, watchdogVars
<1>1. ASSUME NEW k \in Kinds, NEW t \in Timeouts, NEW n \in Sizes,
              NEW m \in RowCaps, Begin(k, t, n, m)
      PROVE TypeOK'
  BY <1>1 DEF Begin
<1>2. CASE Start
  <2>1. interrupted' \in BOOLEAN /\ forgotten' \in BOOLEAN
    BY <1>2, Zenon DEF Start
  <2>2. /\ pc' = "executing"
        /\ UNCHANGED <<clock, kind, prepared, size, maxRows, rowCount, seen,
                       answer, deadline, dog, timedOut, done>>
    BY <1>2, Zenon DEF Start
  <2> QED
    BY <2>1, <2>2
<1>3. CASE Fail
  BY <1>3 DEF Fail
<1>4. CASE Prepared
  BY <1>4 DEF Prepared
<1>5. CASE Materialised
  BY <1>5 DEF Materialised
<1>6. CASE Streaming
  BY <1>6 DEF Streaming
<1>7. CASE AnswerFailed
  BY <1>7 DEF AnswerFailed
<1>8. CASE FetchChunk
  BY <1>8 DEF FetchChunk, OverCap, AtMost
<1>9. CASE FetchEnds
  BY <1>9 DEF FetchEnds
<1>10. CASE ClientGone
  BY <1>10 DEF ClientGone
<1>11. CASE Classify
  BY <1>11 DEF Classify
<1>12. CASE TellWatchdog
  BY <1>12 DEF TellWatchdog
<1>13. CASE Close
  <2>1. /\ prepared' \in BOOLEAN /\ interrupted' \in BOOLEAN
        /\ timedOut' \in BOOLEAN /\ done' \in BOOLEAN /\ forgotten' \in BOOLEAN
    BY <1>13, Zenon DEF Close, Release
  <2> QED
    BY <1>13, <2>1 DEF Close, Release
<1>14. CASE Woken
  BY <1>14 DEF Woken
<1>15. CASE Mark
  BY <1>15 DEF Mark
<1>16. CASE Interrupt
  BY <1>16 DEF Interrupt
<1>17. CASE Tick
  BY <1>17 DEF Tick
<1>18. CASE UNCHANGED vars
  BY <1>18 DEF vars, handlerVars, watchdogVars
<1> QED
  BY <1>1, <1>2, <1>3, <1>4, <1>5, <1>6, <1>7, <1>8, <1>9, <1>10, <1>11, <1>12, <1>13, <1>14, <1>15, <1>16, <1>17, <1>18 DEF Next, Handler, QuerySteps, Watchdog

\* Mark stores timed_out before Interrupt, and only Release clears either.
LEMMA MarkStep == IInv /\ [Next]_vars => MarkComesFirst'
<1> SUFFICES ASSUME IInv, [Next]_vars PROVE MarkComesFirst'
  OBVIOUS
<1> USE EphemeralAssumption DEF EphemeralAssumption, IInv, MarkComesFirst, WatchdogIsScoped, HandlerKnows, TypeOK, Step, handlerVars, watchdogVars
<1>1. ASSUME NEW k \in Kinds, NEW t \in Timeouts, NEW n \in Sizes,
              NEW m \in RowCaps, Begin(k, t, n, m)
      PROVE MarkComesFirst'
  BY <1>1 DEF Begin
<1>2. CASE Start
  BY <1>2 DEF Start
<1>3. CASE Fail
  BY <1>3 DEF Fail
<1>4. CASE Prepared
  BY <1>4 DEF Prepared
<1>5. CASE Materialised
  BY <1>5 DEF Materialised
<1>6. CASE Streaming
  BY <1>6 DEF Streaming
<1>7. CASE AnswerFailed
  BY <1>7 DEF AnswerFailed
<1>8. CASE FetchChunk
  BY <1>8 DEF FetchChunk, OverCap, AtMost
<1>9. CASE FetchEnds
  BY <1>9 DEF FetchEnds
<1>10. CASE ClientGone
  BY <1>10 DEF ClientGone
<1>11. CASE Classify
  BY <1>11 DEF Classify
<1>12. CASE TellWatchdog
  BY <1>12 DEF TellWatchdog
<1>13. CASE Close
  BY <1>13 DEF Close, Release
<1>14. CASE Woken
  BY <1>14 DEF Woken
<1>15. CASE Mark
  BY <1>15 DEF Mark
<1>16. CASE Interrupt
  BY <1>16 DEF Interrupt
<1>17. CASE Tick
  BY <1>17 DEF Tick
<1>18. CASE UNCHANGED vars
  BY <1>18 DEF vars, handlerVars, watchdogVars
<1> QED
  BY <1>1, <1>2, <1>3, <1>4, <1>5, <1>6, <1>7, <1>8, <1>9, <1>10, <1>11, <1>12, <1>13, <1>14, <1>15, <1>16, <1>17, <1>18 DEF Next, Handler, QuerySteps, Watchdog

\* The destructor joins the thread before the connection goes.
LEMMA ScopeStep == IInv /\ [Next]_vars => WatchdogIsScoped'
<1> SUFFICES ASSUME IInv, [Next]_vars PROVE WatchdogIsScoped'
  OBVIOUS
<1> USE EphemeralAssumption DEF EphemeralAssumption, IInv, WatchdogIsScoped, TypeOK, Step, handlerVars, watchdogVars
<1>1. ASSUME NEW k \in Kinds, NEW t \in Timeouts, NEW n \in Sizes,
              NEW m \in RowCaps, Begin(k, t, n, m)
      PROVE WatchdogIsScoped'
  BY <1>1 DEF Begin
<1>2. CASE Start
  BY <1>2 DEF Start
<1>3. CASE Fail
  BY <1>3 DEF Fail
<1>4. CASE Prepared
  BY <1>4 DEF Prepared
<1>5. CASE Materialised
  BY <1>5 DEF Materialised
<1>6. CASE Streaming
  BY <1>6 DEF Streaming
<1>7. CASE AnswerFailed
  BY <1>7 DEF AnswerFailed
<1>8. CASE FetchChunk
  BY <1>8 DEF FetchChunk, OverCap, AtMost
<1>9. CASE FetchEnds
  BY <1>9 DEF FetchEnds
<1>10. CASE ClientGone
  BY <1>10 DEF ClientGone
<1>11. CASE Classify
  BY <1>11 DEF Classify
<1>12. CASE TellWatchdog
  BY <1>12 DEF TellWatchdog
<1>13. CASE Close
  BY <1>13 DEF Close, Release
<1>14. CASE Woken
  BY <1>14 DEF Woken
<1>15. CASE Mark
  BY <1>15 DEF Mark
<1>16. CASE Interrupt
  BY <1>16 DEF Interrupt
<1>17. CASE Tick
  BY <1>17 DEF Tick
<1>18. CASE UNCHANGED vars
  BY <1>18 DEF vars, handlerVars, watchdogVars
<1> QED
  BY <1>1, <1>2, <1>3, <1>4, <1>5, <1>6, <1>7, <1>8, <1>9, <1>10, <1>11, <1>12, <1>13, <1>14, <1>15, <1>16, <1>17, <1>18 DEF Next, Handler, QuerySteps, Watchdog

\* The handler answers once, and classifies what it has seen.
LEMMA HandlerStep == IInv /\ [Next]_vars => HandlerKnows'
<1> SUFFICES ASSUME IInv, [Next]_vars PROVE HandlerKnows'
  OBVIOUS
<1> USE EphemeralAssumption DEF EphemeralAssumption, IInv, HandlerKnows, TypeOK, Seen, Step, handlerVars, watchdogVars
<1>1. ASSUME NEW k \in Kinds, NEW t \in Timeouts, NEW n \in Sizes,
              NEW m \in RowCaps, Begin(k, t, n, m)
      PROVE HandlerKnows'
  BY <1>1 DEF Begin
<1>2. CASE Start
  BY <1>2 DEF Start
<1>3. CASE Fail
  BY <1>3 DEF Fail
<1>4. CASE Prepared
  BY <1>4 DEF Prepared
<1>5. CASE Materialised
  BY <1>5 DEF Materialised
<1>6. CASE Streaming
  BY <1>6 DEF Streaming
<1>7. CASE AnswerFailed
  BY <1>7 DEF AnswerFailed
<1>8. CASE FetchChunk
  BY <1>8 DEF FetchChunk, OverCap, AtMost
<1>9. CASE FetchEnds
  BY <1>9 DEF FetchEnds
<1>10. CASE ClientGone
  BY <1>10 DEF ClientGone
<1>11. CASE Classify
  BY <1>11 DEF Classify
<1>12. CASE TellWatchdog
  BY <1>12 DEF TellWatchdog
<1>13. CASE Close
  BY <1>13 DEF Close, Release
<1>14. CASE Woken
  BY <1>14 DEF Woken
<1>15. CASE Mark
  BY <1>15 DEF Mark
<1>16. CASE Interrupt
  BY <1>16 DEF Interrupt
<1>17. CASE Tick
  BY <1>17 DEF Tick
<1>18. CASE UNCHANGED vars
  BY <1>18 DEF vars, handlerVars, watchdogVars
<1> QED
  BY <1>1, <1>2, <1>3, <1>4, <1>5, <1>6, <1>7, <1>8, <1>9, <1>10, <1>11, <1>12, <1>13, <1>14, <1>15, <1>16, <1>17, <1>18 DEF Next, Handler, QuerySteps, Watchdog

\* A cut stream is a marked one, so its empty chunk is not taken for the end.
LEMMA EndStep == IInv /\ [Next]_vars => EndRecordIsTrue'
<1> SUFFICES ASSUME IInv, [Next]_vars PROVE EndRecordIsTrue'
  OBVIOUS
<1> USE EphemeralAssumption DEF EphemeralAssumption, IInv, EndRecordIsTrue, MarkComesFirst, HandlerKnows, TypeOK, Seen, Step, handlerVars, watchdogVars
<1>1. ASSUME NEW k \in Kinds, NEW t \in Timeouts, NEW n \in Sizes,
              NEW m \in RowCaps, Begin(k, t, n, m)
      PROVE EndRecordIsTrue'
  BY <1>1 DEF Begin
<1>2. CASE Start
  BY <1>2 DEF Start
<1>3. CASE Fail
  BY <1>3 DEF Fail
<1>4. CASE Prepared
  BY <1>4 DEF Prepared
<1>5. CASE Materialised
  BY <1>5 DEF Materialised
<1>6. CASE Streaming
  BY <1>6 DEF Streaming
<1>7. CASE AnswerFailed
  BY <1>7 DEF AnswerFailed
<1>8. CASE FetchChunk
  BY <1>8 DEF FetchChunk, OverCap, AtMost
<1>9. CASE FetchEnds
  BY <1>9 DEF FetchEnds
<1>10. CASE ClientGone
  BY <1>10 DEF ClientGone
<1>11. CASE Classify
  BY <1>11 DEF Classify
<1>12. CASE TellWatchdog
  BY <1>12 DEF TellWatchdog
<1>13. CASE Close
  BY <1>13 DEF Close, Release
<1>14. CASE Woken
  BY <1>14 DEF Woken
<1>15. CASE Mark
  BY <1>15 DEF Mark
<1>16. CASE Interrupt
  BY <1>16 DEF Interrupt
<1>17. CASE Tick
  BY <1>17 DEF Tick
<1>18. CASE UNCHANGED vars
  BY <1>18 DEF vars, handlerVars, watchdogVars
<1> QED
  BY <1>1, <1>2, <1>3, <1>4, <1>5, <1>6, <1>7, <1>8, <1>9, <1>10, <1>11, <1>12, <1>13, <1>14, <1>15, <1>16, <1>17, <1>18 DEF Next, Handler, QuerySteps, Watchdog

\* The invariant holds in every behaviour.
THEOREM Invariance == Spec => []IInv
<1>1. Init => IInv
  <2> SUFFICES ASSUME Init PROVE IInv
    OBVIOUS
  <2>1. /\ prepared \in BOOLEAN /\ interrupted \in BOOLEAN
        /\ timedOut \in BOOLEAN /\ done \in BOOLEAN /\ forgotten \in BOOLEAN
    BY Zenon DEF Init
  <2>2. TypeOK
    BY <2>1, EphemeralAssumption
    DEF EphemeralAssumption, Init, TypeOK, Kinds, Catalog, Seen, Answers, PC
  <2>3. MarkComesFirst /\ WatchdogIsScoped /\ HandlerKnows /\ EndRecordIsTrue
    BY DEF Init, MarkComesFirst, WatchdogIsScoped, HandlerKnows, EndRecordIsTrue
  <2> QED
    BY <2>2, <2>3 DEF IInv
<1>2. IInv /\ [Next]_vars => IInv'
  <2> SUFFICES ASSUME IInv, [Next]_vars PROVE IInv'
    OBVIOUS
  <2>1. TypeOK'
    BY TypeStep DEF IInv
  <2>2. MarkComesFirst'
    BY MarkStep
  <2>3. WatchdogIsScoped'
    BY ScopeStep
  <2>4. HandlerKnows'
    BY HandlerStep
  <2>5. EndRecordIsTrue'
    BY EndStep
  <2> QED
    BY <2>1, <2>2, <2>3, <2>4, <2>5 DEF IInv
<1> QED
  BY <1>1, <1>2, PTL DEF Spec

\* Every variable of the handler and its watchdog keeps its type.
THEOREM TypeCorrect == Spec => []TypeOK
<1>1. IInv => TypeOK
  BY DEF IInv
<1> QED
  BY <1>1, Invariance, PTL

\* The end record of an ephemeral stream is true (sql_handlers.cpp, the empty
\* chunk and the row cap).
THEOREM EndRecordCorrect == Spec => []EndRecordIsTrue
<1>1. IInv => EndRecordIsTrue
  BY DEF IInv
<1> QED
  BY <1>1, Invariance, PTL

\* A 504 or an error record QUERY_TIMEOUT means that the limit has passed.
THEOREM TimeoutCorrect == Spec => []TimeoutIsLate
<1>1. IInv => TimeoutIsLate
  BY DEF IInv, MarkComesFirst, TimeoutIsLate
<1> QED
  BY <1>1, Invariance, PTL

\* The watchdog thread never outlives the connection it interrupts
\* (QueryTimeoutWatchdog::~QueryTimeoutWatchdog joins it).
THEOREM InterruptCorrect == Spec => []InterruptFindsConnection
<1>1. IInv => InterruptFindsConnection
  BY DEF IInv, WatchdogIsScoped, InterruptFindsConnection
<1> QED
  BY <1>1, Invariance, PTL

=============================================================================
