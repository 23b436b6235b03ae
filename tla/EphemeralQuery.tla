--------------------------- MODULE EphemeralQuery ---------------------------
(***************************************************************************)
(* A query on a connection of its own, and the QueryTimeoutWatchdog thread *)
(* that interrupts it at the limit: POST /sql without a session and the    *)
(* catalog queries of /tables, /schema and /checkpoint.  Such queries      *)
(* share nothing with each other, so the module follows one handler and    *)
(* its watchdog through one query after another.                           *)
(***************************************************************************)
EXTENDS Integers

CONSTANTS
    Timeouts,   \* values harbor_query_timeout_s may have when a query starts
    Sizes,      \* rows a result may have
    RowCaps,    \* values of harbor_max_response_rows, 0 for none
    ChunkRows,  \* rows of a full chunk (STANDARD_VECTOR_SIZE)
    MaxClock    \* bound: last tick of the steady clock

ASSUME EphemeralAssumption ==
    /\ Timeouts \subseteq Nat
    /\ Sizes \subseteq Nat
    /\ RowCaps \subseteq Nat
    /\ ChunkRows \in Nat \ {0}
    /\ MaxClock \in Nat

VARIABLES
    clock,        \* steady_clock
    kind, pc,     \* the handler
    prepared,     \* /schema: its Prepare is done, its Execute is next
    size, maxRows, rowCount, \* rows of the result, row cap, rows sent
    seen, answer,
    interrupted,  \* the connection's interrupt flag (DuckDB)
    deadline, dog, timedOut, done, \* QueryTimeoutWatchdog
    forgotten     \* history: a statement was started after the interrupt

handlerVars  == <<kind, pc, prepared, size, maxRows, rowCount, seen, answer>>
watchdogVars == <<deadline, dog, timedOut, done>>
vars == <<clock, handlerVars, interrupted, watchdogVars, forgotten>>

\* "query" is /tables and /checkpoint, one materialised statement; "schema"
\* prepares a statement and then streams its result; the others are the
\* shapes of /sql.
Catalog == {"query", "schema"}
Kinds   == Catalog \union {"write", "json", "ndjson"}
Seen    == {"none", "end", "cut", "error"}
Answers == {"none", "ok", "truncated", "timeout", "error", "conflict",
            "notFound", "gone"}
PC      == {"idle", "ready", "executing", "fetching", "failed", "classify",
            "answered", "closing"}

Init ==
    /\ clock = 0
    /\ kind = "query" /\ pc = "idle" /\ prepared = FALSE
    /\ size = 0 /\ maxRows = 0 /\ rowCount = 0
    /\ seen = "none" /\ answer = "none"
    /\ interrupted = FALSE
    /\ deadline = 0 /\ dog = "off" /\ timedOut = FALSE /\ done = FALSE
    /\ forgotten = FALSE

-----------------------------------------------------------------------------
(* The handler.                                                            *)

Step(from, to) == pc = from /\ pc' = to

\* A connection, and the watchdog around it; without a limit no thread.
Begin(k, t, n, m) ==
    /\ Step("idle", "ready")
    /\ clock + t <= MaxClock
    /\ kind' = k
    /\ size' = n /\ rowCount' = 0
    /\ maxRows' = IF k \in {"json", "ndjson"} THEN m ELSE 0
    /\ deadline' = IF t = 0 THEN 0 ELSE clock + t
    /\ dog' = IF t = 0 THEN "off" ELSE "waiting"
    /\ UNCHANGED <<clock, prepared, seen, answer, interrupted, timedOut,
                   done, forgotten>>

\* DuckDB drops a pending interrupt when it starts a statement; the watchdog
\* interrupts only once.
Start ==
    /\ Step("ready", "executing")
    /\ interrupted' = FALSE
    /\ forgotten' = (forgotten \/ interrupted)
    /\ UNCHANGED <<clock, kind, prepared, size, maxRows, rowCount, seen,
                   answer, watchdogVars>>

\* The statement fails, of its own accord or because it was interrupted; a
\* checkpoint may find other writers.
Fail ==
    /\ Step("executing", "failed")
    /\ \E e \in {"error", "conflict"} :
         /\ e = "conflict" => kind = "query"
         /\ answer' = e
    /\ UNCHANGED <<clock, kind, prepared, size, maxRows, rowCount, seen,
                   interrupted, watchdogVars, forgotten>>

Prepared ==
    /\ kind = "schema" /\ ~prepared
    /\ Step("executing", "ready")
    /\ prepared' = TRUE
    /\ UNCHANGED <<clock, kind, size, maxRows, rowCount, seen, answer,
                   interrupted, watchdogVars, forgotten>>

Materialised ==
    /\ kind = "query"
    /\ Step("executing", "answered")
    /\ rowCount' = size
    /\ answer' = "ok"
    /\ UNCHANGED <<clock, kind, prepared, size, maxRows, seen, interrupted,
                   watchdogVars, forgotten>>

Streaming ==
    /\ kind # "query" /\ (kind = "schema" => prepared)
    /\ Step("executing", "fetching")
    /\ UNCHANGED <<clock, kind, prepared, size, maxRows, rowCount, seen,
                   answer, interrupted, watchdogVars, forgotten>>

\* 504 when the watchdog marked the query, the error of the query otherwise.
AnswerFailed ==
    /\ Step("failed", "answered")
    /\ answer' = IF timedOut THEN "timeout" ELSE answer
    /\ UNCHANGED <<clock, kind, prepared, size, maxRows, rowCount, seen,
                   interrupted, watchdogVars, forgotten>>

AtMost(a, b) == IF a <= b THEN a ELSE b

\* The stream stops at the chunk that does not fit, so that it knows that rows
\* are missing when it says so.
OverCap(n) == maxRows > 0 /\ n > maxRows

\* A chunk arrives.  The one-shot loop stops as soon as the cap is met, and
\* its envelope does not tell whether rows are missing.
FetchChunk ==
    LET n == rowCount + AtMost(ChunkRows, size - rowCount) IN
    /\ pc = "fetching"
    /\ kind \in {"schema", "json", "ndjson"}
    /\ rowCount < size
    /\ rowCount' = IF maxRows > 0 THEN AtMost(n, maxRows) ELSE n
    /\ \/ /\ kind = "ndjson" /\ OverCap(n)
          /\ pc' = "answered" /\ answer' = "truncated"
       \/ /\ kind = "json" /\ maxRows > 0 /\ n >= maxRows
          /\ pc' = "answered" /\ answer' = "ok"
       \/ /\ kind = "schema" \/ maxRows = 0 \/ n < maxRows
             \/ (kind = "ndjson" /\ ~OverCap(n))
          /\ UNCHANGED <<pc, answer>>
    /\ UNCHANGED <<clock, kind, prepared, size, maxRows, seen, interrupted,
                   watchdogVars, forgotten>>

\* The fetch loop ends: no rows are left, an interrupt cut the stream (an
\* empty chunk), or an exception.
FetchEnds ==
    /\ Step("fetching", "classify")
    /\ \E e \in Seen \ {"none"} :
         /\ e = "end" => rowCount = size \/ kind = "write"
         /\ e = "cut" => interrupted
         /\ seen' = e
    /\ UNCHANGED <<clock, kind, prepared, size, maxRows, rowCount, answer,
                   interrupted, watchdogVars, forgotten>>

\* A stream whose client is gone stops without a record.
ClientGone ==
    /\ kind = "ndjson"
    /\ Step("fetching", "answered")
    /\ answer' = "gone"
    /\ UNCHANGED <<clock, kind, prepared, size, maxRows, rowCount, seen,
                   interrupted, watchdogVars, forgotten>>

\* Cause() of a stream asks the watchdog at an empty chunk and at an
\* exception.  The one-shot shape asks it only after an exception, a write
\* swallows the exception, /schema lets it out (500) and calls an empty answer
\* 404.
Classify ==
    /\ Step("classify", "answered")
    /\ answer' =
         CASE kind = "write" -> "ok"
           [] kind = "schema" /\ seen = "error" -> "error"
           [] kind = "schema" /\ seen # "error" ->
                IF rowCount = 0 THEN "notFound" ELSE "ok"
           [] kind = "json" /\ seen # "error" -> "ok"
           [] OTHER -> IF timedOut THEN "timeout"
                       ELSE IF seen = "error" THEN "error" ELSE "ok"
    /\ UNCHANGED <<clock, kind, prepared, size, maxRows, rowCount, seen,
                   interrupted, watchdogVars, forgotten>>

\* The watchdog's destructor: tell the thread ...
TellWatchdog ==
    /\ Step("answered", "closing")
    /\ done' = (dog # "off")
    /\ UNCHANGED <<clock, kind, prepared, size, maxRows, rowCount, seen,
                   answer, interrupted, deadline, dog, timedOut, forgotten>>

\* The watchdog and its connection are gone, and the handler is free.
Release ==
    /\ Step("closing", "idle")
    /\ kind' = "query" /\ prepared' = FALSE
    /\ size' = 0 /\ maxRows' = 0 /\ rowCount' = 0
    /\ seen' = "none" /\ answer' = "none"
    /\ interrupted' = FALSE
    /\ deadline' = 0 /\ timedOut' = FALSE /\ done' = FALSE
    /\ forgotten' = FALSE
    /\ UNCHANGED clock

\* Slip: the thread is detached.
CloseAtOnce == Release /\ UNCHANGED dog

\* ... and join it; then the connection is closed.
Close == dog \in {"off", "ended"} /\ Release /\ dog' = "off"

-----------------------------------------------------------------------------
(* The watchdog thread.                                                    *)

Woken ==
    /\ dog = "waiting" /\ done
    /\ dog' = "ended"
    /\ UNCHANGED <<clock, handlerVars, interrupted, deadline, timedOut, done,
                   forgotten>>

\* Slip: wait_until without its predicate takes a spurious wake for the limit.
MarkAtAnyWake ==
    /\ dog = "waiting" /\ ~done
    /\ dog' = "marked"
    /\ timedOut' = TRUE
    /\ UNCHANGED <<clock, handlerVars, interrupted, deadline, done, forgotten>>

\* Slip: the interrupt goes out before the mark.
MarkLast ==
    /\ dog = "waiting" /\ ~done /\ clock >= deadline
    /\ dog' = "marked"
    /\ interrupted' = TRUE
    /\ UNCHANGED <<clock, handlerVars, deadline, timedOut, done, forgotten>>

\* The limit has passed and the query is not done: the mark comes first ...
Mark ==
    /\ dog = "waiting" /\ ~done /\ clock >= deadline
    /\ dog' = "marked"
    /\ timedOut' = TRUE
    /\ UNCHANGED <<clock, handlerVars, interrupted, deadline, done, forgotten>>

\* Slip: the thread marks the query and leaves it running.
MarkOnly ==
    /\ dog = "marked"
    /\ dog' = "ended"
    /\ UNCHANGED <<clock, handlerVars, interrupted, deadline, timedOut, done,
                   forgotten>>

\* ... then, with the mutex released, the interrupt; done may be set by now.
Interrupt ==
    /\ dog = "marked"
    /\ dog' = "ended"
    /\ interrupted' = TRUE
    /\ UNCHANGED <<clock, handlerVars, deadline, timedOut, done, forgotten>>

Tick ==
    /\ clock < MaxClock
    /\ clock' = clock + 1
    /\ UNCHANGED <<handlerVars, interrupted, watchdogVars, forgotten>>

-----------------------------------------------------------------------------

Handler ==
    \/ Start \/ Prepared \/ AnswerFailed \/ Classify \/ TellWatchdog \/ Close

QuerySteps ==
    Fail \/ Materialised \/ Streaming \/ FetchChunk \/ FetchEnds

Watchdog == Woken \/ Mark \/ Interrupt

Next ==
    \/ \E k \in Kinds, t \in Timeouts, n \in Sizes, m \in RowCaps :
         Begin(k, t, n, m)
    \/ Handler \/ QuerySteps \/ ClientGone \/ Watchdog \/ Tick

Spec == Init /\ [][Next]_vars

\* Both threads keep running, time passes, and DuckDB polls its interrupt
\* flag: an interrupted statement or fetch comes to an end.  One that nobody
\* interrupts may run for ever.
InterruptedEnds == interrupted /\ (Fail \/ FetchEnds)

Fairness ==
    /\ WF_vars(Handler)
    /\ WF_vars(Watchdog)
    /\ WF_vars(Tick)
    /\ WF_vars(InterruptedEnds)

FairSpec == Spec /\ Fairness

-----------------------------------------------------------------------------
(* Properties.                                                             *)

TypeOK ==
    /\ clock \in 0..MaxClock
    /\ kind \in Kinds /\ pc \in PC
    /\ prepared \in BOOLEAN
    /\ size \in Nat /\ maxRows \in Nat /\ rowCount \in 0..size
    /\ seen \in Seen /\ answer \in Answers
    /\ interrupted \in BOOLEAN
    /\ deadline \in 0..MaxClock
    /\ dog \in {"off", "waiting", "marked", "ended"}
    /\ timedOut \in BOOLEAN /\ done \in BOOLEAN
    /\ forgotten \in BOOLEAN

\* The end record of a stream on a connection of its own is true: without the
\* truncated flag every row was sent although an interrupt may have cut the
\* stream, with it the row cap was reached and rows are missing.
EndRecordIsTrue ==
    kind = "ndjson" =>
      /\ answer = "ok" => rowCount = size
      /\ answer = "truncated" => maxRows > 0 /\ rowCount = maxRows /\ rowCount < size

\* QUERY_TIMEOUT is told only to a query that had a limit and is over it,
\* whoever made it fail.
TimeoutIsLate ==
    answer = "timeout" => deadline # 0 /\ clock >= deadline

\* The thread that will call Connection::Interrupt() has a connection to call
\* it on: the watchdog is joined before its connection is closed.
InterruptFindsConnection ==
    dog \in {"waiting", "marked"} => pc # "idle" /\ deadline # 0

\* A query with a limit is answered and released, unless the one interrupt it
\* gets falls between two statements and is dropped by the second.
LimitedQueryEnds ==
    pc # "idle" /\ deadline # 0 ~> pc = "idle" \/ forgotten

=============================================================================
