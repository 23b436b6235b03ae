------------------------------- MODULE UiRun -------------------------------
(***************************************************************************)
(* POST /ddb/run and /ddb/interrupt on the pool of named connections the   *)
(* UI keeps (UIStorageExtensionInfo).  The requests that name the same     *)
(* connection share it, with nothing to keep them apart: its search path,  *)
(* the one result it can have open and its interrupt flag are whatever the *)
(* last of them left.  Each request brings a QueryTimeoutWatchdog thread.  *)
(***************************************************************************)
EXTENDS Integers

CONSTANTS
    Requests,  \* requests, each sent once
    Jobs,      \* what a request may ask for
    JobsOf,    \* [Requests -> SUBSET Jobs]
    ChunkRows, \* rows of a full chunk (STANDARD_VECTOR_SIZE)
    NoConn, NoRequest, NoPath, NoTable

\* A job is a record: kind ("run" or "interrupt"), principal and name, and for a
\* run its search path, its number of statements, whether the last of them has
\* parameters, the rows of the last one's result, the limits and the table for
\* them, and whether harbor_query_timeout_s is set.
ASSUME UiAssumption ==
    /\ JobsOf \in [Requests -> SUBSET Jobs]
    /\ \A j \in Jobs :
         /\ j.kind \in {"run", "interrupt"}
         /\ j.statements \in Nat \ {0} /\ j.rows \in Nat
         /\ j.limit \in Nat /\ j.tableLimit \in Nat
         /\ j.params \in BOOLEAN /\ j.timed \in BOOLEAN
         /\ j.table = NoTable => j.tableLimit = 0
    /\ ChunkRows \in Nat \ {0}
    /\ NoConn \notin Requests /\ NoRequest \notin Requests

VARIABLES
    pc, job,           \* the handler of each request
    con,               \* the connection it works on
    todo,              \* statements it has still to run
    fetched, appended, inResult, \* rows_fetched, rows_appended, rows_in_result
    answer,
    pool,              \* connections: from keys to connections
    path,              \* of each connection: its search path,
    open,              \* the request whose statement or result it has open,
    interrupted,       \* and its interrupt flag
    tables,            \* rows of each result table
    dog,               \* the watchdog thread of the request
    ranUnder,          \* history: the search paths its statements ran under
    met,               \* history: it shared its connection with another request
    cut,               \* history: what ended its statement or result early
    dropped,           \* history: its watchdog's interrupt was forgotten
    raced              \* history: keys two requests made a connection for

progress == <<todo, fetched, appended, inResult>>
connVars == <<path, open, interrupted>>
vars == <<pc, job, con, progress, answer, pool, connVars, tables, dog,
          ranUnder, met, cut, dropped, raced>>

\* Slip: the name alone is the key.
ScopedConnectionKeyName(j) == j.name

\* No principal is empty, and so no key is: requests that send no name share a
\* connection too.
ScopedConnectionKey(j) == <<j.principal, j.name>>

Key(r) == ScopedConnectionKey(job[r])
Keys   == {ScopedConnectionKey(j) : j \in Jobs}
Tables == {j.table : j \in Jobs} \ {NoTable}
Absent == -1

\* A connection bears the name of the request that makes it.
Connections == Requests

Init ==
    /\ pc = [r \in Requests |-> "find"]
    /\ job \in {f \in [Requests -> Jobs] : \A r \in Requests : f[r] \in JobsOf[r]}
    /\ con = [r \in Requests |-> NoConn]
    /\ todo = [r \in Requests |-> job[r].statements]
    /\ fetched = [r \in Requests |-> 0]
    /\ appended = [r \in Requests |-> 0]
    /\ inResult = [r \in Requests |-> 0]
    /\ answer = [r \in Requests |-> "none"]
    /\ pool = [k \in Keys |-> NoConn]
    /\ path = [c \in Connections |-> NoPath]
    /\ open = [c \in Connections |-> NoRequest]
    /\ interrupted = [c \in Connections |-> FALSE]
    /\ tables = [t \in Tables |-> Absent]
    /\ dog = [r \in Requests |-> "off"]
    /\ ranUnder = [r \in Requests |-> {}]
    /\ met = [r \in Requests |-> FALSE]
    /\ cut = [r \in Requests |-> "none"]
    /\ dropped = [r \in Requests |-> FALSE]
    /\ raced = {}

-----------------------------------------------------------------------------
(* The pool of connections.                                                *)

Step(r, from, to) == pc[r] = from /\ pc' = [pc EXCEPT ![r] = to]
Answer(r, a) == answer' = [answer EXCEPT ![r] = a]

\* Requests at work on connection c.
UsersOf(c) == {q \in Requests : con[q] = c /\ pc[q] # "gone"}

\* r goes to work on c.
TakeUp(r, c) ==
    /\ con' = [con EXCEPT ![r] = c]
    /\ met' = [q \in Requests |->
                 met[q] \/ (q = r /\ UsersOf(c) # {}) \/ q \in UsersOf(c)]

\* FindConnection, under the lock.
Find(r) ==
    /\ pool[Key(r)] # NoConn
    /\ Step(r, "find", "set")
    /\ TakeUp(r, pool[Key(r)])
    /\ UNCHANGED <<job, progress, answer, pool, connVars, tables, dog, ranUnder,
                   cut, dropped, raced>>

\* A request to interrupt goes no further without one.
FindNone(r) ==
    /\ pool[Key(r)] = NoConn
    /\ \/ job[r].kind = "run" /\ Step(r, "find", "insert") /\ UNCHANGED answer
       \/ job[r].kind = "interrupt" /\ Step(r, "find", "leaving") /\ Answer(r, "notFound")
    /\ UNCHANGED <<job, con, progress, pool, connVars, tables, dog, ranUnder, met,
                   cut, dropped, raced>>

\* FindOrCreateConnection locks again to remember the new connection, and does
\* not look whether another request was faster.
Insert(r) ==
    /\ Step(r, "insert", "set")
    /\ TakeUp(r, r)
    /\ pool' = [pool EXCEPT ![Key(r)] = r]
    /\ raced' = IF pool[Key(r)] = NoConn THEN raced ELSE raced \union {Key(r)}
    /\ UNCHANGED <<job, progress, answer, connVars, tables, dog, ranUnder, cut, dropped>>

\* HandleInterrupt
Interrupt(r) ==
    /\ job[r].kind = "interrupt"
    /\ Step(r, "set", "leaving")
    /\ Answer(r, "success")
    /\ interrupted' = [interrupted EXCEPT ![con[r]] = TRUE]
    /\ UNCHANGED <<job, con, progress, pool, path, open, tables, dog, ranUnder, met,
                   cut, dropped, raced>>

-----------------------------------------------------------------------------
(* DoHandleRun: the statements.                                            *)

\* The watchdog starts, the search path is set, and the text is parsed.
SetUp(r) ==
    /\ job[r].kind = "run"
    /\ \/ Step(r, "set", "ready") /\ UNCHANGED answer
       \/ Step(r, "set", "leaving") /\ Answer(r, "error")
    /\ dog' = [dog EXCEPT ![r] = IF job[r].timed THEN "armed" ELSE "off"]
    /\ path' = [path EXCEPT ![con[r]] = IF job[r].path = NoPath THEN @ ELSE job[r].path]
    /\ UNCHANGED <<job, con, progress, pool, open, interrupted, tables, ranUnder, met,
                   cut, dropped, raced>>

\* DuckDB begins a statement: what the connection had open is closed, an
\* interrupt that is pending is forgotten, and names mean what the search path
\* makes of them.
Begin(r, leftOpen) ==
    LET c == con[r] IN
    /\ open' = [open EXCEPT ![c] = leftOpen]
    /\ interrupted' = [interrupted EXCEPT ![c] = FALSE]
    /\ ranUnder' = [ranUnder EXCEPT ![r] = @ \union {path[c]}]
    /\ dropped' = [q \in Requests |->
                     dropped[q] \/ (q \in UsersOf(c) /\ dog[q] = "done" /\ open[c] # q)]

WithParams(r) == todo[r] = 1 /\ job[r].params

\* The last statement is prepared first if it has parameters.
Prepare(r) ==
    /\ WithParams(r)
    /\ \/ Step(r, "ready", "prepared") /\ UNCHANGED answer
       \/ Step(r, "ready", "leaving") /\ Answer(r, "error")
    /\ Begin(r, NoRequest)
    /\ UNCHANGED <<job, con, progress, pool, path, tables, dog, met, cut, raced>>

Start(r) ==
    /\ Step(r, IF WithParams(r) THEN "prepared" ELSE "ready", "running")
    /\ Begin(r, r)
    /\ UNCHANGED <<job, con, progress, answer, pool, path, tables, dog, met, cut, raced>>

\* What may end a statement or a result early: an error of its own, an
\* interrupt, another request's statement on the connection.
Ends(r, why) ==
    /\ CASE why = "error"     -> open[con[r]] = r
         [] why = "interrupt" -> open[con[r]] = r /\ interrupted[con[r]]
         [] why = "closed"    -> open[con[r]] # r
    /\ cut' = [cut EXCEPT ![r] = why]
    /\ open' = [open EXCEPT ![con[r]] = IF @ = r THEN NoRequest ELSE @]

Fail(r, why) ==
    /\ Step(r, "running", "leaving")
    /\ Ends(r, why)
    /\ Answer(r, "error")
    /\ UNCHANGED <<job, con, progress, pool, path, interrupted, tables, dog, ranUnder, met,
                   dropped, raced>>

\* A statement is done; the result of the last one stays open.
Finish(r) ==
    /\ Step(r, "running", IF todo[r] > 1 THEN "ready"
                          ELSE IF job[r].table = NoTable THEN "fetching" ELSE "creating")
    /\ open[con[r]] = r
    /\ open' = [open EXCEPT ![con[r]] = IF todo[r] > 1 THEN NoRequest ELSE @]
    /\ todo' = [todo EXCEPT ![r] = @ - 1]
    /\ UNCHANGED <<job, con, fetched, appended, inResult, answer, pool, path, interrupted,
                   tables, dog, ranUnder, met, cut, dropped, raced>>

-----------------------------------------------------------------------------
(* DoHandleRun: the rows.                                                  *)

\* The result table is made in a transaction of its own, over before a row is
\* fetched.
CreateTable(r) ==
    /\ pc[r] = "creating"
    /\ \/ /\ tables[job[r].table] = Absent
          /\ Step(r, "creating", "fetching")
          /\ tables' = [tables EXCEPT ![job[r].table] = 0]
          /\ UNCHANGED answer
       \/ /\ tables[job[r].table] # Absent
          /\ Step(r, "creating", "leaving")
          /\ Answer(r, "error")
          /\ UNCHANGED tables
    /\ UNCHANGED <<job, con, progress, pool, connVars, dog, ranUnder, met, cut, dropped, raced>>

AtMost(a, b) == IF a <= b THEN a ELSE b

\* Slip: the table's limit is forgotten.
RowLimitResult(r) == job[r].limit

RowLimit(r) == IF job[r].limit < job[r].tableLimit THEN job[r].tableLimit ELSE job[r].limit

\* Of a chunk of n rows, those that go where there are have of limit.
Taken(have, limit, n) == IF have < limit THEN AtMost(n, limit - have) ELSE 0

\* The appender may flush what it has.
Fetch(r) ==
    LET n == AtMost(ChunkRows, job[r].rows - fetched[r])
        more == Taken(appended[r], job[r].tableLimit, n)
    IN /\ pc[r] = "fetching" /\ open[con[r]] = r
       /\ fetched[r] < RowLimit(r) /\ n > 0
       /\ fetched' = [fetched EXCEPT ![r] = @ + n]
       /\ appended' = [appended EXCEPT ![r] = @ + more]
       /\ inResult' = [inResult EXCEPT ![r] = @ + Taken(@, job[r].limit, n)]
       /\ \/ UNCHANGED tables
          \/ /\ more > 0
             /\ tables' = [tables EXCEPT ![job[r].table] = appended[r] + more]
       /\ UNCHANGED <<pc, job, con, todo, answer, pool, connVars, dog, ranUnder, met, cut,
                      dropped, raced>>

\* The loop ends at the limit, or when there is no other chunk.
FetchEnds(r) ==
    /\ Step(r, "fetching", "closing")
    /\ \/ fetched[r] >= RowLimit(r)
       \/ fetched[r] = job[r].rows /\ open[con[r]] = r
    /\ open' = [open EXCEPT ![con[r]] = IF @ = r THEN NoRequest ELSE @]
    /\ UNCHANGED <<job, con, progress, answer, pool, path, interrupted, tables, dog,
                   ranUnder, met, cut, dropped, raced>>

\* A result that fails has no other chunk either.
FetchCut(r, why) ==
    /\ fetched[r] < RowLimit(r)
    /\ why \in {"error", "interrupt"}
    /\ Step(r, "fetching", "closing")
    /\ Ends(r, why)
    /\ UNCHANGED <<job, con, progress, answer, pool, path, interrupted, tables, dog,
                   ranUnder, met, dropped, raced>>

\* To fetch from a result that was closed throws; the appender is not flushed.
FetchClosed(r) ==
    /\ fetched[r] < RowLimit(r)
    /\ Step(r, "fetching", "leaving")
    /\ Ends(r, "closed")
    /\ Answer(r, "error")
    /\ UNCHANGED <<job, con, progress, pool, path, interrupted, tables, dog, ranUnder, met,
                   dropped, raced>>

\* To append what was fetched may throw as well.
AppendFails(r) ==
    /\ fetched[r] < AtMost(RowLimit(r), job[r].rows)
    /\ appended[r] < job[r].tableLimit
    /\ Step(r, "fetching", "leaving")
    /\ Ends(r, "error")
    /\ Answer(r, "error")
    /\ UNCHANGED <<job, con, progress, pool, path, interrupted, tables, dog, ranUnder, met,
                   dropped, raced>>

Succeed(r) ==
    /\ Step(r, "closing", "leaving")
    /\ Answer(r, "success")
    /\ tables' = [t \in Tables |-> IF t = job[r].table THEN appended[r] ELSE tables[t]]
    /\ UNCHANGED <<job, con, progress, pool, connVars, dog, ranUnder, met, cut, dropped, raced>>

\* Slip: the thread is left to itself.
LeaveUnjoined(r) ==
    /\ Step(r, "leaving", "gone")
    /\ dog' = [dog EXCEPT ![r] = IF @ = "armed" THEN "off" ELSE @]
    /\ UNCHANGED <<job, con, progress, answer, pool, connVars, tables, ranUnder, met, cut,
                   dropped, raced>>

\* The watchdog is told to stop and joined, and the answer is sent.
Leave(r) ==
    /\ dog[r] # "marked"
    /\ Step(r, "leaving", "gone")
    /\ dog' = [dog EXCEPT ![r] = IF @ = "armed" THEN "off" ELSE @]
    /\ UNCHANGED <<job, con, progress, answer, pool, connVars, tables, ranUnder, met, cut,
                   dropped, raced>>

-----------------------------------------------------------------------------
(* QueryTimeoutWatchdog.                                                   *)

Mark(r) ==
    /\ dog[r] = "armed"
    /\ dog' = [dog EXCEPT ![r] = "marked"]
    /\ UNCHANGED <<pc, job, con, progress, answer, pool, connVars, tables, ranUnder, met,
                   cut, dropped, raced>>

\* Slip: the watchdog marks, and does not interrupt.
InterruptOverdueMarks(r) ==
    /\ dog[r] = "marked"
    /\ dog' = [dog EXCEPT ![r] = "done"]
    /\ UNCHANGED <<pc, job, con, progress, answer, pool, connVars, tables, ranUnder, met,
                   cut, dropped, raced>>

InterruptOverdue(r) ==
    /\ dog[r] = "marked"
    /\ dog' = [dog EXCEPT ![r] = "done"]
    /\ interrupted' = [interrupted EXCEPT ![con[r]] = TRUE]
    /\ UNCHANGED <<pc, job, con, progress, answer, pool, path, open, tables, ranUnder, met,
                   cut, dropped, raced>>

-----------------------------------------------------------------------------
Causes == {"error", "interrupt", "closed"}

\* The handler itself; how long a statement takes is not up to it.
Handler(r) ==
    \/ Insert(r) \/ Interrupt(r) \/ SetUp(r) \/ Prepare(r) \/ Start(r) \/ CreateTable(r)
    \/ FetchEnds(r) \/ FetchClosed(r) \/ Succeed(r) \/ Leave(r)

\* DuckDB notices an interrupt, or that a statement was closed.
Noticed(r) == \E why \in {"interrupt", "closed"} : Fail(r, why) \/ FetchCut(r, why)

Watchdog(r) == Mark(r) \/ InterruptOverdue(r)

Next ==
    \E r \in Requests :
        \/ Find(r) \/ FindNone(r) \/ Handler(r) \/ Watchdog(r)
        \/ Finish(r) \/ Fetch(r) \/ AppendFails(r)
        \/ \E why \in Causes : Fail(r, why) \/ FetchCut(r, why)

\* Threads run; statements need not end.
Fairness == \A r \in Requests :
    WF_vars(Handler(r)) /\ WF_vars(Noticed(r)) /\ WF_vars(Watchdog(r))

Spec == Init /\ [][Next]_vars /\ Fairness

-----------------------------------------------------------------------------
(* Properties.                                                             *)

TypeOK ==
    /\ pc \in [Requests -> {"find", "insert", "set", "ready", "prepared", "running",
                            "creating", "fetching", "closing", "leaving", "gone"}]
    /\ job \in [Requests -> Jobs]
    /\ con \in [Requests -> Connections \union {NoConn}]
    /\ todo \in [Requests -> Nat]
    /\ fetched \in [Requests -> Nat]
    /\ appended \in [Requests -> Nat]
    /\ inResult \in [Requests -> Nat]
    /\ answer \in [Requests -> {"none", "success", "error", "notFound"}]
    /\ pool \in [Keys -> Connections \union {NoConn}]
    /\ open \in [Connections -> Requests \union {NoRequest}]
    /\ interrupted \in [Connections -> BOOLEAN]
    /\ tables \in [Tables -> Nat \union {Absent}]
    /\ dog \in [Requests -> {"off", "armed", "marked", "done"}]
    /\ met \in [Requests -> BOOLEAN]
    /\ cut \in [Requests -> Causes \union {"none"}]
    /\ dropped \in [Requests -> BOOLEAN]
    /\ raced \in SUBSET Keys

\* Requests work on the same connection if and only if principal and connection
\* name are the same: a name never reaches another principal's connection, and
\* finds its own again, unless two requests made one for it at the same time
\* (FindOrCreateConnection's two critical sections).
KeyHasOneConnection ==
    \A r, q \in {x \in Requests : con[x] # NoConn} :
        LET same == job[r].principal = job[q].principal /\ job[r].name = job[q].name
        IN /\ con[r] = con[q] => same
           /\ same /\ Key(r) \notin raced => con[r] = con[q]

\* A request that has its connection to itself is not disturbed: its statements
\* run along the search path it asked for, nobody closes its result, and no
\* interrupt but its own watchdog's reaches it, late ones of requests before it
\* included (a watchdog is joined, and a statement begins with a clean flag).
UndisturbedRun ==
    \A r \in Requests : ~met[r] =>
        /\ cut[r] # "closed"
        /\ cut[r] = "interrupt" => dog[r] \in {"marked", "done"}
        /\ job[r].path # NoPath => ranUnder[r] \subseteq {job[r].path}

\* The answer and the result table hold the rows there were, each up to its own
\* limit, whatever chunks they came in and whoever else wanted the table; an
\* answer of a result cut short has those that came before.
RowsAsked ==
    \A r \in Requests : job[r].kind = "run" /\ answer[r] = "success" =>
        LET rows == IF cut[r] = "none" THEN job[r].rows ELSE fetched[r]
        IN /\ inResult[r] = AtMost(job[r].limit, rows)
           /\ job[r].table # NoTable => tables[job[r].table] = AtMost(job[r].tableLimit, rows)

\* A run with a limit comes to an end, even if its statements would not, unless
\* another statement began on the connection after its watchdog had fired and
\* before it had hit anything: the interrupt is then forgotten and no other
\* follows.
LimitedRunEnds ==
    \A r \in Requests : dog[r] = "armed" ~> (pc[r] = "gone" \/ dropped[r])

=============================================================================
