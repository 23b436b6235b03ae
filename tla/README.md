# harbor in TLA+

harbor (`src/`, the `duckdb-flock` repository) is a DuckDB extension that turns
the process into a server: one HTTP listener serves SQL over JSON (`/sql`), the
binary Quack protocol (`/quack`), an admin API and the DuckDB UI.  This
directory holds TLA+ models of it, TLC runs that check them on small instances,
and TLAPS proofs.

    tlc -config QueryTimeout.cfg QueryTimeout.tla      # every other run alike, see "Runs"
    tlapm QueryTimeout_proofs.tla                      # and the other *_proofs modules

## The system

| Part | State it keeps | Operations | Made correct by |
|---|---|---|---|
| Server lifecycle (`harbor_http_server.cpp`, `harbor_lifecycle.cpp`, `quack_start_stop.cpp`) | `HarborServerState`: the published server, `generation`, `stopped_generation`, under `state_mu`; per server a state, `active_requests`, the handler objects | `harbor_serve`, `harbor_stop`, `harbor_wait` and their Quack twins; the guard of each request | no handler is destroyed under a worker, no server leaks, waiters and stops return |
| Query timeout (`harbor_query_timeout.cpp`, the sweep in `harbor_session.cpp`) | per session atomics: `query_generation`, `query_deadline_ms`, `query_in_flight`, `timed_out_generation`, `interrupt_cause` | `QueryExecutionGuard`, `TimeoutSweepOnce`, `InterruptSession` | an interrupt and its reason reach the query they were meant for; overdue queries end |
| Watchdog of ephemeral queries (`harbor_query_timeout.cpp`) | a thread, its `done` flag and condition variable, `timed_out` | construct, wait, mark, interrupt, join | the interrupt meets a living connection; a timeout is told only when there was one |
| `/sql` (`sql_handlers.cpp`) | a session's lock, its `Connection`, the streaming context that outlives the handler | try-lock, execute, stream or answer at once, classify the end | one query per session; a cut result never looks like a full one |
| Session pool (`harbor_session.cpp`) | the map of sessions under `active_mutex` | create, look up, destroy, destroy by owner, snapshot | limit, and ownership for `/sql`; one statement at a time; a session in use stays alive |
| Quack server (`quack_server.cpp`) | in the session: `duckdb_query_result`, `result_uuid`, `next_batch_index` | CONNECTION, PREPARE, FETCH, APPEND, DISCONNECT | a FETCH yields the batches of its own PREPARE, each once |
| Quack scan and client (`quack_scan.cpp`, `quack_client.cpp`) | per scan: first results, `needs_more_fetch`; per worker: local results, `current_batch_index` | bind, init, scan, fetch | all rows, once, in the order the batch index gives |
| Quack catalog and transactions (`quack/storage/`) | one connection per attached catalog; per local transaction a state | load, DDL, insert, BEGIN/COMMIT/ROLLBACK sent lazily | local transactions are isolated |
| UI handlers (`ui_handlers.cpp`, `state.cpp`) | named connections, their search path, open result and interrupt flag | `/ddb/run`, `/ddb/interrupt`, tokenise | one connection per principal and name; a request alone on it is not disturbed |
| UI events (`event_dispatcher.cpp`, `watcher.cpp`) | `next_id`, `current_id`, `message`, `wait_count`, `closed`; the watcher thread | wait, send, close; watch, start, stop | a stop ends all waits |
| Authentication (`harbor_auth.cpp`, `auth_handlers.cpp`, the gates of `admin_handlers.cpp` and `sql_handlers.cpp`) | signing key, authorization and authentication functions read at start, settings read at use | login, cookie, origin and authorization checks | each route lets in whom it should, as whom they are |
| Codec (`sql_param_decoder.cpp`, `sql_chunk_encoder.cpp`, `sql_json_writer.cpp`, `harbor_crypto.cpp`) | the JSON writer's frames | decode parameters and type strings, encode rows, sign cookies | what is written can be read back as what it was |

How they meet.  The threads are httplib workers (one per request, and one per
open event stream), the listener, the sweeper (a tick of 250 ms), a watchdog per
ephemeral or UI query, the catalog watcher, and whatever SQL callers the process
has.  `/sql` and `/quack` both work on sessions of the pool; both put a
`QueryExecutionGuard` around a query and the sweeper looks at it without any
lock.  `/sql/cancel`, `/interrupt`, `GET /sessions`, logout and
`DELETE /sql/sessions/:id` reach a session from other requests.  UI requests
that name the same connection share it without a lock.  Lifecycle functions are
table functions, so a query of `/sql` can call them on the server it runs on.
The server's `Close` asks the UI handlers to end their streams, waits for the
requests, and only then destroys the handlers, the authenticator and the pool.

What is hard: the sweep's five separate loads and stores against a session that
moves on to its next query; the end of a stream, which looks the same for "no
more rows" and "interrupted"; a watchdog's one interrupt against the statements
before and after it; a drain that counts guards against workers that do not have
theirs yet; a stop, a start and a waiter in any order; a limit read before the
lock it is checked under; a listing that waits for the lock of every session;
parallel fetches of one result over a connection that other statements use as
well; local transactions and UI requests that believe they are alone on a
connection; settings read at start, at each request, or once; two parsers and a
printer of nested types.  `PROJECT.json` lists each at its line under "hazards".

## Modules

| Module | What it is |
|---|---|
| `QueryTimeout` | sessions, `/sql` requests, the sweeper, cancellers |
| `SerialSession` | abstract specification: a session serves one request at a time and answers each with a justified outcome |
| `EphemeralQuery` | queries on connections of their own, and their watchdogs |
| `ServerLifecycle` | `HarborServerState`, `HarborHttpServer`, requests |
| `OneServer` | abstract specification: one server after the other, and who waits for which |
| `SessionPool` | the `SessionManager` and every request that reaches it |
| `OwnedSessions` | abstract specification: a table of sessions that belong to principals, its limit, and who is in which |
| `QuackScan` | PREPARE/FETCH on one session and the workers of its scans |
| `BatchSource` | abstract specification: each chunk once, under an index that fits the others at any time, and the end after the last |
| `QuackTransaction` | the local transactions of one attached catalog, the one transaction its server's connection can have, the local catalog |
| `UiRun` | `/ddb/run` and `/ddb/interrupt` on shared, named connections |
| `Cookie`, `Access` | the session cookie byte by byte; authentication, login and the gates of every route |
| `SqlValues`, `SqlJson`, `SqlParams`, `SqlResult` | DuckDB's types, values and casts; the JSON writer; the parameter decoder; the result encoder |
| `SqlWire` | composes the last four: encoder, client, decoder |
| `QueryTimeout_proofs`, `EphemeralQuery_proofs`, `ServerLifecycle_proofs`, `SessionPool_proofs`, `QuackScan_proofs`, `QuackTransaction_proofs`, `UiRun_proofs`, `Access_proofs` | inductive invariants and the theorems from them, and the refinements: `QueryTimeout` implements `SerialSession`, `ServerLifecycle` `OneServer`, `SessionPool` `OwnedSessions`, `QuackScan` `BatchSource` |
| `MCServerLifecycle`, `MCQuackScan`, `MCQuackTransaction`, `MCUiRun`, `MCAccess`, `MCSqlWire` | instances for TLC |

Operators whose comment begins with "Slip" are not part of a specification: each
is a definition with one plausible mistake, and the mutants of `PROJECT.json`
put it in the place of the right one to see that a property notices.

### QueryTimeout

A session's atomics are one variable each, and a step is one load or one store:
the constructor of `QueryExecutionGuard` is `GuardGeneration`, `GuardCause`,
`GuardDeadline`, `GuardInFlight`; its destructor `GuardClearDeadline`,
`GuardClearInFlight`; `TimeoutSweepOnce` is `SweepInFlight`, `SweepDeadline`,
`SweepGeneration`, `SweepMark`, `SweepInterrupt` per session of the copy it took
(`SweepCopy`).  The atomics are read and written with acquire and release order
and each property relates values of one session in program order, so the
interleaving semantics of TLA+ stands for them.  A request resolves its session
(`Resolve`, which takes a reference), tries its lock (`TryLock`/`Busy`), may be
rejected before the guard (`Reject`), executes, and answers in one piece
(`AnswerOneShot`) or as a stream (`Fetch`, then `AnswerStreamStop` or the
reads of `StreamTimedOut` and `StreamCause`).  `Destroy` removes the session
from the map; references keep it alive.  DuckDB is external: `Interrupt()` sets
a flag, a statement that starts clears it (`ExecuteStart`), and a running
statement that sees it fails or ends its stream with an empty chunk.

### EphemeralQuery

Such a query shares nothing with others, so the module follows one handler and
its watchdog, query after query.  `kind` is the shape of the handler: `/tables`
and `/checkpoint` run one materialised statement, `/schema` prepares one and
streams it, `POST /sql` without a session answers in one piece or streams.  The
watchdog's thread is `Woken` (the condition variable tells it the query is
done), `Mark` (`timed_out`) and `Interrupt`, which are two steps; the destructor
is `TellWatchdog` and `Close`, which waits for the thread.  `FetchChunk`,
`FetchEnds`, `ClientGone` and `Classify` are the content provider of a stream
and how it tells its end.  `forgotten` remembers an interrupt that came between
`/schema`'s two statements and was dropped by the second.

### ServerLifecycle

`mu`, `current`, `generation`, `stoppedGeneration` are `HarborServerState`; the
functions over `Servers` are `HarborHttpServer` objects, named in the order of
their construction.  `harbor_serve` is `ServeLock` to `ServePublish` under the
mutex, with a throw at bind or registration (`ServeThrows`), or `ServeRefused`
when a server is there; `harbor_stop` is `StopTake` under the mutex and
`StopAccepting`, `ShutdownHandlers`, `Drain`, `Join`, `Destroy` after it, or
`StopNothing`; `harbor_wait` is `WaitEnter` and `WaitWake`, or `WaitNothing`.  A
request is `Accept` (a worker has the connection), `Enter` and `Leave`
(constructor and destructor of `ActiveRequestGuard`) and `WorkerDone`.  `Join`
can return when no worker of the server is left: that is how httplib's
`listen_after_bind` ends, and it, not the counter, is what protects the handlers
in the window before `Enter`.

`OneServer` is what a caller may rely on ("single-server-per-process", the
comment in `HarborServerState::Stop`), without the mutex, the generations, the
guards and the threads that keep it.  A server begins only when no other starts
or serves; it goes from there to serving, stopping and closed, or fails, and is
closed only with no request on it; a wait is for a server that serves and ends
only once that one does not any more.  It allows what the code allows and one
might not expect: a new server may begin while the old one is stopping, and
connections are taken before a server is published and until it stops to listen.
The mapping gives each server its place in that life (`Life`) from its state, the
published pointer and who holds `state_mu`, and each thread the server it is
asleep for (`Awaited`).

### SessionPool

`active` is the map, `mapLock` its mutex where a caller keeps it over more than
one step (`GET /sessions` does not: it copies the map and then takes the lock of
each session, `SnapshotLock`, `Acquire`, `SnapshotCopy`), `lock` the mutex of
each session.  `New` reads the limit, `Insert`, `Full` and `Refused` check it
under the lock.  `Sql` (`LookupOwnedSession`) and `Statement` (`GetConnection`)
look a session up for `/sql` and for a Quack message.  The first compares the
owner and gives up when the session is busy; the second takes the session its
message names, whoever owns it, and waits.  Likewise `Delete`
(`DestroyOwnedSession`) compares the owner and `Disconnect`
(`DisconnectConnection`) does not.  These two, `Logout`, `Connect` and `Cancel`
are one critical section each.  A request forgets its session once it has given
the lock back, and keeps only its references.  `quit` remembers a principal that
has logged out, until they create again.

`OwnedSessions` is that without mutexes, references and listings under way: a
table from ids to owners, the session each request was given, and who is inside
which.  A creation below the limit, a destruction and a whole logout are one
step each; a request of a principal is given a session of that principal, enters
it when nobody is inside, and is answered busy only when somebody is.  It allows
what the code allows: the limit is any that was set so far, because it is read
before the map is locked; Quack connections have no owner and no limit; a request
of nobody, which is what a Quack message is, is given any session (`Ask` with
`None`), and the table does not ask who ends one (`Destroy`); a request enters
its session though it was destroyed meanwhile; `GET /sessions` enters anybody's.
The mapping takes the table from `active` and `owner`, the requests from where
they are (`Asks`), and who is inside from the session's mutex.

### QuackScan

The server's half is the session under its lock: `uuid`, `result`, `next`,
`nextBatch`; each request is one step because the session lock is held for all
of it.  `CreateBatch` is in `Prepare`, `Batch` and the two cuts.  A chunk is a
pair of a scan and a number, so loss, duplication, mixing and order can be told.
The client's half is a scan's global state (`first`, `needsMore`) and its
workers' (`buffer`, `batch`); `out` is what DuckDB got, with the index that
`QuackScanGetPartitionData` would show.  Between `SendFetch` and the server's
step, and between that and `Receive`, anything may happen.  All attached tables
of one catalog share the connection; the other statements on it (catalog loads,
DDL, BEGIN/COMMIT/ROLLBACK) are PREPAREs too and do to the session what the
PREPARE of a scan does that is not fetched from, successful or not.

`BatchSource` is what DuckDB's pipeline sees of a scan: workers hand on chunks,
and the scan ends or fails.  A chunk is handed on only if it fits with those
given before (`Fits`): none of them is the same, a smaller index means an earlier
chunk, an index belongs to one worker, and a worker does not go back.  So the
order is promised at every moment and not only at the end, which is what an
operator that consumes batches as they come relies on.  `lost` is the one
weakness (finding 2): the end may come early when the result went away, and a
statement that fails may lose that of another scan.  The uuid, the requests and
their answers, the first chunks and `needs_more_fetch` are the code's way to keep
that promise and not part of it.

### QuackTransaction

A local transaction runs in a `ClientContext` of its own; all those of one
catalog send their requests over its one connection id.  `Ddl` is
`CreateTable`, `CreateView` and `DropEntry` up to the first request:
`QuackTransaction::Query` with `ForceStart`, which sets the state before `BEGIN`
is sent.  `Insert` is `QuackInsert::Sink`, which does not go through `Query`
and sends no `BEGIN`.  `Execute` is what precedes both: the lookup of a table in
the local catalog.  `Register` is the change of `QuackTableSet::entries` after
the answer.  `Commit`, `Rollback` and `ContextDestroyed` end a transaction.
Each request reaches the server in a step of its own, under the session lock:
`BeginAccepted`, `BeginRefused`, `StatementSucceeds`, `StatementFails`,
`CommitSucceeds`, `CommitFails`, `RollbackArrives`; it may not arrive
(`Undelivered`), and its answer may be lost (`Answer`).  What BEGIN, COMMIT and
ROLLBACK do on a connection is DuckDB's and external, and so is the rule that an
error either leaves the local transaction usable or dooms it to be rolled back.
What is stored is a set of facts that carry their author, so that what a
transaction left behind can be told.  `mixed` records which transactions had a
request executed inside, or a `BEGIN` refused because of, a transaction another
one had begun: the code promises nothing for those, and the properties are
about the rest.

### UiRun

`Find`, `FindNone` and `Insert` are `FindOrCreateConnection`, whose look-up and
insertion are two critical sections; `raced` remembers the keys two requests
created at once.  A run goes through `SetUp` (search path and watchdog),
`Prepare` and `Start` for each statement, `CreateTable`, `Fetch` and its ends
(`AppendFails` is an append that throws),
`Succeed` or `Fail`, and `Leave`, which joins the watchdog.  What DuckDB keeps
per connection is external: one open result, which a new statement closes, and
an interrupt flag, which a new statement clears.  `met` holds the requests that
were on a connection together with another one.

### Access and Cookie

The request that is being handled passes the gates in the order of the code:
`Authenticate` (headers before cookie), `Origin` and `Listed`, `Parse`,
`Session`, `Authorize`, `Act`; login is a route of its own that answers a
cookie (`Issue`, `AnswerLogin`).  `Set`, `Tick`, `CloseDatabase`, `Stop` and
`Start` may come between any two gates.  `Cookie` has the value itself: base64url
over bytes, five segments, and an HMAC that is the pair of its key and its text.
A client's cookie is any one edit of one that a login was answered.

### SqlWire and the modules below it

`SqlWire` takes a row of typed values, a type string or a string of bytes
through the code: the encoder writes the records of an answer, a client that
knows JSON reads them and sends the values back, bare or in `{type, value}`
wrappers, and the decoder binds them.  Text is tokens: an integer, a point in
time or base64 of some bytes is what it says and not its digits; widths are
scaled down, in the order the code tells apart.  Brackets, commas, keys, JSON
frames and the bytes of strings (UTF-8 repair, escapes, surrogates) are kept,
because that is where these parsers could go wrong.

## Runs

| Run | Expected | Shows |
|---|---|---|
| `query_timeout` | holds | `TimeoutIsOverdueUnlessStale`, `CancelledWasAsked`, `AimedInterruptReported`, `ImplementsSerialSession` with two requests, a canceller and the sweeper on a session that runs two queries |
| `query_timeout_live` | holds | `OverdueStops`: an overdue query of a session in the map ends, the first on the session or the second |
| `stream_cut` | violated | `StreamEndIsComplete`, finding 1 |
| `ephemeral_query` | holds | `EndRecordIsTrue`, `TimeoutIsLate`, `InterruptFindsConnection`, and `LimitedQueryEnds`: a query with a limit ends unless its one interrupt was forgotten |
| `server_lifecycle` | holds | `HandlersOutliveRequests`, `NoServerLeaked`, `ImplementsOneServer`, and `CallsReturn` (waiters and stops return) with three threads and two servers |
| `session_pool` | holds | `OwnSessionUnlessQuack`, `LogoutEndsSessions`, `ImplementsOwnedSessions`, and `CancelAnswered`: a cancel is answered however long queries run |
| `quack_scan` | holds | `EndedIsCompleteUnlessDropped`, `RowsHandedOnce`, `BatchOrder`, `ImplementsBatchSource`, and `ScanTerminates` with two scans of two workers on one connection |
| `silent_end` | violated | `EndedIsComplete`, finding 2 |
| `quack_transaction` | holds | `LeftOpenOnlyIfUnsent`, `RollbackUndoesUnlessMixed`, `CommitIsAtomicUnlessMixed`, `CacheAgreesUnlessUndone` with three transactions |
| `ui_run` | holds | `KeyHasOneConnection`, `UndisturbedRun`, `RowsAsked`, and `LimitedRunEnds` with three requests of two principals |
| `access` | holds | `AdminNeedsPolicy`, `CookieIsLogin`, `CredentialDecides`, `CookieNeedsOrigin` over every route and combination of credentials |
| `sql_wire` | holds | `TypeOK`, `RecordsDescribeTheResult`, `ValuesReadBack`, `ValuesTellApart`, `TypeStringsMeanWhatTheySay`, `StringsReadBack` |

The type invariants of `QueryTimeout`, `EphemeralQuery`, `ServerLifecycle`,
`SessionPool`, `QuackScan`, `QuackTransaction`, `UiRun` and `Access` are proved
and not run; so is `SessionLimit`, which `ImplementsOwnedSessions` implies.

### Bounds

* `query_timeout`: `MaxQueries = 2` guards on the session, so that a sweep, a
  mark or a cancel meant for one query can meet the next, of the same request or
  the other one; `MaxClock = 2` has a time before, at and after the deadline of
  a limit of 1, and `Timeouts` includes 0, "no limit".  One session is enough
  because sessions share nothing but the sweeper, which handles them one after
  another.  `query_timeout_live` has one request: a session that is busy refuses
  the others, so they add nothing to how its query ends.
* `ephemeral_query`: limits of 1 and 2 ticks and none; results of no rows, less
  than a chunk, one chunk and two (`ChunkRows = 2`), row caps of none, inside a
  chunk and at its end.  The queries follow one another as long as the clock has
  ticks (5).
* `server_lifecycle`: three threads are a stop, a start and a waiter, or a
  request that calls `harbor_serve` or `harbor_wait`; two servers are a stop and
  a start around one waiter, on two addresses.  A query that calls `harbor_stop`
  is left out of the instance (see "A stop on a request thread" below).  The
  safety invariants are proved for all values, so the bounds matter for liveness
  only; there a third server would be one more round of the same.
* `session_pool`: two principals and two ids, so that an id can be drawn again
  while its former session is still in use; two requests; limits of 0 (the
  default of 2) and 1, which may change at any time.  A Quack statement or
  DISCONNECT may name either session, owned or not.
* `quack_scan`: `MaxBatch = 2` with one result of 2 chunks (a full last batch,
  which leaves an exhausted result open) and one of 5 (two FETCHes under way at
  once, a short last batch); two workers each.
* `quack_transaction`: two statements are a DDL statement and one before or
  after it; three transactions are one whose `BEGIN` is refused, the one it
  interferes with and a witness; one table makes them conflict.
* `ui_run`: one or two statements, results of 1 and 3 rows with chunks of 2,
  limits of 1 and 3, on either side of a chunk's end; two requests of one
  principal share a connection, with an interrupt, one is another's.
* `access`: ids of two characters, which are one and a part of a base64 group;
  one login, one change of settings, two servers, so that a cookie can outlive
  the server that issued it; ages of 1, of which one tick is before the expiry
  and the next is not.
* `sql_wire`: types nested two deep and a value on either side of each width;
  `MaxTypeNesting = 2` with one type string beyond it; printed types padded to
  the longest length that is accepted (54 tokens) and one beyond it; every type string one
  edit away from a printed type; strings of up to three bytes of those where
  UTF-8's ranges begin and end, and those of four that begin with a lead byte.

Deadlock is checked where everyone may always go on (`query_timeout`,
`ephemeral_query`, `session_pool`); the others may really stop: all threads in
`harbor_wait`, all scans or transactions or requests at their end, a clock or a
change of settings used up.

### Fairness

The sweeper is weakly fair: it is a loop with a timed wait.  Handler steps are
weakly fair: they are straight-line code.  A query is not assumed to end; only
an interrupted one is (`InterruptedReturns`, `InterruptedEnds`, `Noticed`),
because DuckDB polls the flag, and in `QueryTimeout` only if the interrupt is
repeated on every tick.  In `EphemeralQuery` and `UiRun` the watchdog is a thread
in a timed wait, and the clock of the former ticks.  In `SessionPool` a request
that is inside goes on, but its query need not end; a thread that asks for a
mutex again and again finds it free once if it is free again and again
(`SF_vars`), which is asked of `active_mutex` and of session locks.  In
`ServerLifecycle` threads inside a call or request go on, a plain request ends,
nobody has to call anything, and an event stream ends by itself only if its
client leaves, which is not assumed.  In `QuackScan` one of the threads of a
scan that has begun goes on, and the server answers; no scan has to start.
`Access`, `SqlWire` and `QuackTransaction` state no liveness.

## Findings

1. `stream_cut`.  The sweep compares the deadline of query N, and later reads the
   generation, marks and interrupts; meanwhile query N+1 may start.  When only
   the interrupt lands in N+1, `Cause()` says NONE and the stream closes with an
   `end` record although rows are missing (`sql_handlers.cpp` 832, against the
   comment at 808).  `AimedInterruptReported` is what remains true.  By the same
   race N+1 can be told QUERY_TIMEOUT before its deadline, against the comment
   in `harbor_query_timeout.cpp` (lines 72-74) that a sweep which captured the
   prior generation cannot mark it; `TimeoutIsOverdueUnlessStale` excludes
   exactly that case.
2. `silent_end`.  A statement that fails on the shared Quack connection resets
   the result of a running scan but not its uuid.  The scan's FETCH is answered
   with an empty success and the scan ends without its remaining rows, and
   without an error.  A statement that succeeds draws a new uuid, and the scan
   fails as it should.  `EndedIsCompleteUnlessDropped` is what remains true.

### What the models follow and the documents say otherwise

Each of these is in the named module as the code has it; no run is spent on it.

* Two servers (`ServerLifecycle`).  `Stop` releases `state_mu` before `Close`
  (`harbor_http_server.cpp` 416), so a concurrent `harbor_serve` on another port
  succeeds while the first server is still there; `SPEC.md:132` says "only one
  `HarborHttpServer` may be live at a time".  `NoServerLeaked` remains true.
* A stop on a request thread (`ServerLifecycle`).  `POST /sql` may run
  `harbor_stop`, whose `Close` waits for the very request it runs on
  (`harbor_http_server.cpp` 426); `harbor_http_server.hpp:124` says `Close` must
  not be called there.  `CallsReturn` speaks of stops whose server has no
  request that is itself inside a lifecycle call.
* Sessions out of the map (`QueryTimeout`).  A session that is destroyed while
  its query runs leaves the map the sweep iterates (`harbor_session.cpp` 347),
  and its query has no deadline any more; `harbor_query_timeout.hpp:6` says the
  setting caps every `Connection::Execute` path.  `OverdueStops` speaks of
  sessions in the map.
* Shared transactions (`QuackTransaction`).  `ForceStart` sets its state before
  `BEGIN` is answered (`quack_transaction.cpp` 24).  A local transaction whose
  `BEGIN` was refused or not delivered rolls back at the server all the same,
  and ends the transaction of another one, whose next statement is then executed
  in autocommit; the comment at `quack_transaction.hpp:28` says the call ensures
  a transaction at the server.  The properties with `UnlessMixed` in their
  names remain true.
* `/ddb/run` (`UiRun`).  A fetch that fails or is interrupted returns no chunk,
  as at the end of the result, and `TimedOut()` is never asked
  (`ui_handlers.cpp` 897): the answer is a success with fewer rows, where
  `harbor_query_timeout.hpp:5-14` promises QUERY_TIMEOUT.  Connections are not
  serialised and never removed (`SPEC.md:681-697`, 670-675).  A request that
  gives no name does not get a connection of its own as the comment at
  `state.cpp:45` says: the key is the principal and the name, and never empty.
  A run that fails, while rows are appended for one (`AppendFails`), leaves its
  result table, and the same run sent again fails because the table is there.
* One interrupt (`EphemeralQuery`, `UiRun`).  The watchdog interrupts once; when
  that comes between two statements the second clears it, and the limit is gone.
  `LimitedQueryEnds` and `LimitedRunEnds` name the exception.
* Sessions named by a Quack message (`SessionPool`).  `GetConnection` and
  `DisconnectConnection` look up the id alone (`harbor_session.cpp` 61-81, called
  at `quack_server.cpp` 147 and 189), as `harbor_session.hpp:169-179` says, so a
  PREPARE, FETCH, APPEND or DISCONNECT reaches a session of `/sql` too;
  `SPEC.md:661-664` says that a session is owned by one principal and its id no
  capability token.  `OwnSessionUnlessQuack` and `ImplementsOwnedSessions` bind
  the requests of principals only.  `QuackScan` and `QuackTransaction` are about
  a connection whose id is used by the client it was given to.
* Busy sessions (`SessionPool`).  `GET /sessions` holds each session's lock for
  a moment, in which a `POST /sql` is answered 409 although no query runs
  (`SPEC.md:693`).  The sweep of idle sessions of `SPEC.md:677`
  (`harbor_session_ttl_s`) is not in the code; the 403 of line 676 is a 404.
* Local development (`Access`).  Without authentication the principal is
  `harbor.local-dev`, which is not 64 hexadecimal digits, so
  `CreateOwnedSession` throws (`harbor_session.cpp` 161-166) and
  `POST /sql/sessions/new` answers 500 to a valid request.
* Expiry (`Access`).  The `expires_at` a login is told may be later than the
  expiry in its cookie; `CookieIsLogin` says that the cookie's is no later, and
  never further away than the cap.
* Codec (`SqlWire`).  `SPEC.md:442` says a value is "encoded per §5.4", but the
  decoder does not read INTERVAL, BLOB and UNION back as the encoder writes them;
  a STRUCT with the names `type` and `value` in it is taken for a wrapper; the
  seconds of a TIMETZ offset are cut off.  `Undecodable` in `SqlWire` lists
  these.  Type strings are read loosely: a comma before a closing bracket, and
  anything after the numbers of DECIMAL(...) or an ARRAY's length, is accepted.

Some properties hold because they name what the code lets go wrong, and so do
not catch it: `TimeoutIsOverdueUnlessStale` a mark meant for an earlier query,
`CacheAgreesUnlessUndone` DDL that was rolled back, `KeyHasOneConnection` the
connection two requests made at once, `RowsAsked` the prefix of a result that was
cut.  They say that nothing else goes wrong there; the cases themselves are
described above and, in `PROJECT.json`, at their hazards.

Hazards of the same code that no property is about: chunks after the first batch
are marked as if the projection had been applied (`quack_scan.cpp` 338); a POST
that HTTPUtil sends again after its answer was lost (`quack_client.cpp` 57); a
catalog that reads only the first batch of its tables (`quack_catalog.cpp` 69);
a client of `/localEvents` that wakes after two events, and a watcher that is
not started again after an error or a change of database, which the comment at
`watcher.cpp:81` expects (`event_dispatcher.cpp` 35-41, `watcher.cpp` 104).

## Proofs

Each `*_proofs` module proves, for any values of the constants its module
assumes, that the named properties are invariants; none of them is inductive as
it stands.  `PROJECT.json` lists the theorems.

`QueryTimeout_proofs`: all safety properties of `query_timeout`, for any sets of
sessions, requests and cancellers and any bounds.  The invariant is built in
layers, each inductive relative to those before it: `TypeInv` (types, and a
request has a session exactly inside the handler); `LockInv` (the lock names the
one request between `TryLock` and `Unlock`); `GuardInv` (which fields of the
session the guard of that request has written at each of its steps); `SweepInv`
(what the sweeper has read is at most as new as what is there, and a generation
it will mark was current when it read it); `CauseInv` (a stored cause belongs to
a cancel that named this session after the guard cleared it); `AimInv` (an
interrupt that is pending for a query is the one its mark or cause announced).
For the refinement it maps the interleaved session to `SerialSession`: the
fields of the abstract session are those of its lock owner, the steps of guard,
sweep and cancel map to its steps or stutter.

`EphemeralQuery_proofs`: the three invariants of `ephemeral_query`.
`MarkComesFirst` ties them together (an interrupt has a mark before it, a mark
has a limit that has passed, a cut has an interrupt), `WatchdogIsScoped` says the
thread exists exactly while a limited query does, `HandlerKnows` what the handler
has found out at each place.

`ServerLifecycle_proofs`: the invariants of `server_lifecycle`, for any finite
set of threads, any addresses and any number of servers.  `TypeInv` (who holds
`state_mu`, which names of servers are in use), `BoundInv` (the starts that wait
for the lock have room under `MaxServers`), `LifeInv` (the state of a server at
each step of the thread that starts or stops it), `HostInv` (a request is only on
a server that listens or closes, and none is left when `Close` destroys the
handlers), `CountInv` (`active_requests` is the number of guards, by
`FS_AddElement` and `FS_RemoveElement` of the library, which is why the decrement
never goes below zero) and `GenerationInv` (generations of waiters against the
generation last stopped).  `NoServerLeaked` is part of it: the step lemmas need
that two threads never work on one server.  The refinement of `OneServer` rests on
it too: the thread that starts a server holds the lock, the one that stops it has it to
itself, so that each step changes the life of at most one server
(`ServeServers`, `StopServers`); `HostInv` gives that no request is on a server
that is closed, and `GenerationInv` that a waiter leaves only a server that was
stopped (`WaitServers`).

`SessionPool_proofs`: the invariants of `session_pool`, for any principals,
requests and limits and any finite set of ids, and `LockHolderIsInside`: the
holder of a session's mutex keeps the session alive and runs a statement in it
or copies its last query.  `RequestKnows` says which sessions, locks and
ownership a request can rely on at each place, `TodoIsHeld` that a listing has a
reference to whatever it will still visit.  For the limit, `CreationKnows` (a
limit that was read was the setting once) and `SettingCounts` bound what
`Insert` compares with, and the count grows by one there and nowhere else
(`FS_AddElement`, `FS_Subset`).  In the refinement of `OwnedSessions` a creation
needs that an id which is drawn anew is nobody's (`Unambiguous`), so that neither
a request nor the holder of a lock takes the new session for an old one
(`CreateAdds`); to enter and to leave, `LockHolderIsInside`; to be given a
session, that `Sql` compares the owner or the request is nobody's
(`FindSessions`).  `Asks` maps a listing to no session at
all, so that its steps stutter except while it holds a lock (`ListSessions`).

`QuackScan_proofs`: the four invariants of `quack_scan`, for any scans, workers,
result sizes and batch size.  `ServerInv` (an open result is the one whose
PREPARE drew the uuid) and `WorkerInv` (what a worker can have at each place)
come first.  `OwnChunks` says that a scan has chunks of its own result only, all
below `next` while the result is open, so what a FETCH answers is new, and
`OnePlace` that a chunk is in one place: together `RowsHandedOnce`.  For
`BatchOrder` each chunk carries the index it has or will be shown with; `InBatch`
says index i stands for the chunks after i full batches, which holds because an
open result only ever stood at full batches (the arithmetic of `TypeOK`), and
`BatchAt` that no two workers have chunks of one index.  `CompleteInv` is why
nothing is lost: unless its result was dropped, a scan with no error on its way
to it has every chunk that the session does not have, and all of them as soon as
one of the three ways to stop (`needsMore` is off, an empty answer is on its way,
the result is gone under the scan's own uuid) is open; `ScanInv` adds that while
it goes on somebody is left to take the first chunks and to fetch.  The refinement
of `BatchSource` is by steps: `Emit` is `Give`, and what `Fits` asks of the chunk is
`BatchOrder` of the state before the step and of the one after it (`EmitGives`);
`Ends` is `End` by `EndedIsCompleteUnlessDropped`; a PREPARE or FETCH can only lose a
result that is still being read (`OpenInv`), and nobody is at work on a scan that
has ended (`DoneInv`), so that nothing follows the end.

`QuackTransaction_proofs`: all that `quack_transaction` checks, for any local
transactions, tables and numbers of statements.  `StateInv` ties `transaction_state` to the statements executed;
`OwnerInv` says that whoever began the server's transaction knows it and will
end it; `AloneInv` that a transaction which met no other one has the connection
to itself, not invalidated and with all its acknowledged facts, until its
COMMIT, because every request that could disturb it would put it into `mixed`;
`UndoInv` that facts of others in the database come from transactions that
committed.  For the atomic COMMIT, `AtomicInv` says what the connection's
transaction has of a local one from its `BEGIN` on: if it is its own, exactly the
acknowledged facts, and if not, nothing that is not committed already; and the
database changes by a statement in autocommit, which such a transaction cannot
run, or a COMMIT (`DbSteps`).  For `CacheAgreesUnlessUndone` one looks at a table at a time:
`QuietInv` says that a table which no transaction is about to change is in the
local catalog, at the server and in the connection's transaction, or in none of
them; `UnderwayInv` says of a table that one transaction with the connection to
itself is changing that the local catalog has it iff that transaction sees it,
but between the server's answer to a DDL statement and `Register`, when the
statement tells.  The rules for COMMIT and ROLLBACK at the server are part of the
model, not proved of DuckDB.

`UiRun_proofs`: the invariants of `ui_run`, for any requests and jobs.
`KeysAgree` (a connection is the pool's unless two were made), `MetOnConnection`
(two requests at work on a connection have met), `WatchdogIsScoped` and
`AloneOnConnection` (what a request that met nobody knows of its search path, its
result and the interrupt flag) give `UndisturbedRun`; `RowsCounted` (each limit
is applied to the sum of the chunks, by the lemma `TakenAddsUp`), `RowsComplete`
and `TablesOwned` give `RowsAsked`.

`Access_proofs`: the invariants of `access`, for any tokens, function names and
ages of cookies, and principals that are any hexadecimal strings of the given
length.  It starts from the bytes: `DecodeEncode` shows group by group that
`Base64UrlDecode` undoes `Base64UrlEncode` for every sequence of bytes (the
arithmetic of three bytes as four sextets, `SixBits` and `EightBits`, and a last
group of one or two).  Hence `CookieReadsBack`, that a cookie names its principal
and is verified with its own key until it expires, and `OnlyWholeCookies`, that
none with an exchanged segment is.  `GateOrder` says which gates a route has and
which come before which; `GateInv`, that a request has passed the gates of its
route up to where it is, and at each one what that gate promises (`Passed`),
under whatever happens to the settings, the clock and the database meanwhile.
`ManagerInv` ties the key to the server (there is one per `AuthManager`),
`LoginInv` a login's answer to its cookie, `LetIn` a request to its login.  The
assumptions that are more than types: no token is the empty string, and all
times are below 100, because the model's `std::to_string` writes two digits; of
more digits `CookieReadsBack` would need an induction.  The HMAC is the pair of
its key and its text, so that no cryptography is proved.

Model-checked only: all liveness, because fairness and ENABLED are out of the
prover's reach (`OverdueStops`, `LimitedQueryEnds`, `CallsReturn`,
`CancelAnswered`, `ScanTerminates`, `LimitedRunEnds`); and the codec (the six
invariants of `sql_wire`), whose types nest and whose operators are therefore
recursive: the prover has no backend for those, and no induction over data.  The
four refinements are of safety: no abstract specification states fairness.

## What is left

In the order of worth: the guards of Quack requests, which wait for the session
lock instead of refusing; the reload of the local catalog by `quack_clear_cache`
between other transactions' DDL; delivery of events to several clients.

Not modelled, on purpose.  `/ddb/tokenize` (DuckDB's parser on one string), the
proxies to the UI's asset server, the serialisation of Quack messages and of UI
answers, the URI and the log (no state, and no property that is not the
definition itself); the parsing of the CORS list and the login page (fixed
text); `/health`, `/info`, `/ready` and `harbor_status` (they report); the
registration of functions and settings with DuckDB (once, at load); a failure of
the appender's `Close` in `/ddb/run`; HMAC and random numbers, which are what
they stand for; what httplib and DuckDB do inside, which is external and
modelled from how `src/` uses it.
