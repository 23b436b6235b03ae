------------------------------ MODULE QuackScan ------------------------------
(***************************************************************************)
(* Parallel scans over one Quack connection: the session the server keeps  *)
(* for it (HarborSession, under its lock), the PREPARE and FETCH requests, *)
(* and the workers of each scan, which fetch batches of one result         *)
(* concurrently and hand chunks on with a batch index.  Everything that is *)
(* attached through one catalog shares one connection, so a scan also      *)
(* meets the PREPAREs of other scans.  A BEGIN, a COMMIT, a catalog load    *)
(* or an INSERT's lookup is a PREPARE too, for the server the same as the  *)
(* one of a scan that is not fetched from.                                 *)
(***************************************************************************)
EXTENDS Integers, FiniteSets

CONSTANTS
    Scans, NoScan,
    Workers,      \* the threads DuckDB may give to a scan
    Sizes,        \* for each scan, the numbers of chunks its query may return
    MaxBatch,     \* quack_fetch_batch_chunks
    Interrupts    \* may a result be cut short by an interrupt?

ASSUME ScanAssumption ==
    /\ NoScan \notin Scans
    /\ Workers # {}
    /\ Sizes \in [Scans -> SUBSET Nat]
    /\ MaxBatch \in Nat \ {0}
    /\ Interrupts \in BOOLEAN

VARIABLES
    total,      \* the size of a scan's query result
    uuid,       \* result_uuid: the scan whose PREPARE drew it
    result,     \* duckdb_query_result: the scan whose rows it still yields
    next,       \* the next chunk it yields
    nextBatch,  \* next_batch_index
    phase,      \* where a scan is
    first,      \* its global state: results of the PREPARE, not yet taken
    needsMore,  \* its needs_more_fetch
    wpc,        \* where a worker is
    reply,      \* the FETCH response under way to it
    buffer,     \* its local results
    batch,      \* its current_batch_index, 0 when there is none
    out,        \* what it handed to DuckDB, with the index it showed
    dropped     \* history: scans whose result went away before its end while
                \* their uuid stayed

serverVars == <<uuid, result, next, nextBatch>>
workerVars == <<wpc, reply, buffer, batch, out>>
vars == <<total, serverVars, phase, first, needsMore, workerVars, dropped>>

Chunks(s, a, b) == {s} \X (a..b)

NoReply == [kind |-> "none", chunks |-> {}, index |-> 0]

Smaller(a, b) == IF a < b THEN a ELSE b

Init ==
    /\ total \in [Scans -> UNION {Sizes[s] : s \in Scans}]
    /\ \A s \in Scans : total[s] \in Sizes[s]
    /\ uuid = NoScan
    /\ result = NoScan
    /\ next = 1
    /\ nextBatch = 1
    /\ phase = [s \in Scans |-> "new"]
    /\ first = [s \in Scans |-> {}]
    /\ needsMore = [s \in Scans |-> FALSE]
    /\ wpc = [s \in Scans |-> [w \in Workers |-> "none"]]
    /\ reply = [s \in Scans |-> [w \in Workers |-> NoReply]]
    /\ buffer = [s \in Scans |-> [w \in Workers |-> {}]]
    /\ batch = [s \in Scans |-> [w \in Workers |-> 0]]
    /\ out = [s \in Scans |-> [w \in Workers |-> {}]]
    /\ dropped = {}

SetPhase(s, p) == phase' = [phase EXCEPT ![s] = p]

SetWorker(s, w, l) == wpc' = [wpc EXCEPT ![s][w] = l]

Worker(s, w, from, to) == wpc[s][w] = from /\ SetWorker(s, w, to)

\* The rows that are still to come are lost if their owner may ask for them.
DropResult ==
    /\ result' = NoScan
    /\ dropped' = IF result # NoScan /\ result = uuid
                    THEN dropped \union {result} ELSE dropped

-----------------------------------------------------------------------------
(* PREPARE_REQUEST.                                                        *)

\* The authorization callback rejects the query: nothing is touched yet.
PrepareForbidden(s) ==
    /\ phase[s] = "new"
    /\ SetPhase(s, "failed")
    /\ UNCHANGED <<total, serverVars, first, needsMore, workerVars,
                   dropped>>

\* SendQuery gives an error, or no columns, after the old result was reset:
\* for instance a BEGIN inside a transaction.
PrepareFails(s) ==
    /\ phase[s] = "new"
    /\ SetPhase(s, "failed")
    /\ DropResult
    /\ UNCHANGED <<total, uuid, next, nextBatch, first, needsMore,
                   workerVars>>

\* The first batch fails after the new uuid was drawn.
PrepareFirstBatchFails(s) ==
    /\ phase[s] = "new"
    /\ SetPhase(s, "failed")
    /\ uuid' = s
    /\ result' = NoScan
    /\ next' = 1
    /\ nextBatch' = 1
    /\ UNCHANGED <<total, first, needsMore, workerVars, dropped>>

\* CreateBatch stops after MaxBatch chunks, or resets the result when it
\* meets its end; exactly MaxBatch chunks leave an exhausted result open.
Prepare(s) ==
    LET n == Smaller(total[s], MaxBatch) IN
    /\ phase[s] = "new"
    /\ SetPhase(s, "prepared")
    /\ uuid' = s
    /\ result' = IF n = MaxBatch THEN s ELSE NoScan
    /\ next' = n + 1
    /\ nextBatch' = 1
    /\ first' = [first EXCEPT ![s] = Chunks(s, 1, n)]
    /\ needsMore' = [needsMore EXCEPT ![s] = n = MaxBatch]
    /\ UNCHANGED <<total, workerVars, dropped>>

\* An interrupt ends the stream inside the first batch, see FetchCut.
PrepareCut(s) ==
    /\ Interrupts
    /\ phase[s] = "new"
    /\ SetPhase(s, "prepared")
    /\ uuid' = s
    /\ result' = NoScan
    /\ nextBatch' = 1
    /\ \E n \in 0..Smaller(total[s], MaxBatch - 1) :
         /\ next' = n + 1
         /\ first' = [first EXCEPT ![s] = Chunks(s, 1, n)]
    /\ dropped' = dropped \union {s}
    /\ UNCHANGED <<total, needsMore, workerVars>>

-----------------------------------------------------------------------------
(* A scan and its workers.                                                 *)

\* QuackScanInitGlobal: several threads only if there is more to fetch.
InitGlobal(s) ==
    /\ phase[s] = "prepared"
    /\ SetPhase(s, "scanning")
    /\ \E W \in (SUBSET Workers) \ {{}} :
         /\ ~needsMore[s] => Cardinality(W) = 1
         /\ wpc' = [wpc EXCEPT ![s] =
                      [w \in Workers |-> IF w \in W THEN "init" ELSE "done"]]
    /\ UNCHANGED <<total, serverVars, first, needsMore, reply,
                   buffer, batch, out, dropped>>

\* Slip: the chunks of the PREPARE are copied, not moved.
InitLocalCopies(s, w) ==
    /\ phase[s] = "scanning"
    /\ Worker(s, w, "init", "scan")
    /\ buffer' = [buffer EXCEPT ![s][w] = first[s]]
    /\ UNCHANGED <<total, serverVars, phase, first, needsMore, reply, batch,
                   out, dropped>>

\* QuackScanInitLocal: the first worker takes the chunks of the PREPARE.
InitLocal(s, w) ==
    /\ phase[s] = "scanning"
    /\ Worker(s, w, "init", "scan")
    /\ buffer' = [buffer EXCEPT ![s][w] = first[s]]
    /\ first' = [first EXCEPT ![s] = {}]
    /\ UNCHANGED <<total, serverVars, phase, needsMore, reply, batch,
                   out, dropped>>

\* QuackScan hands the oldest chunk of the local queue on.
Emit(s, w) ==
    /\ phase[s] = "scanning"
    /\ wpc[s][w] = "scan"
    /\ \E c \in buffer[s][w] :
         /\ \A d \in buffer[s][w] : c[2] <= d[2]
         /\ buffer' = [buffer EXCEPT ![s][w] = @ \ {c}]
         /\ out' = [out EXCEPT ![s][w] =
                      @ \union {[chunk |-> c, index |-> batch[s][w]]}]
    /\ UNCHANGED <<total, serverVars, phase, first, needsMore, wpc,
                   reply, batch, dropped>>

SendFetch(s, w) ==
    /\ phase[s] = "scanning"
    /\ Worker(s, w, "scan", "fetch")
    /\ buffer[s][w] = {}
    /\ needsMore[s]
    /\ UNCHANGED <<total, serverVars, phase, first, needsMore, reply,
                   buffer, batch, out, dropped>>

\* needs_more_fetch went false while this worker was busy with its chunks.
WorkerEnds(s, w) ==
    /\ phase[s] = "scanning"
    /\ Worker(s, w, "scan", "done")
    /\ buffer[s][w] = {}
    /\ ~needsMore[s]
    /\ UNCHANGED <<total, serverVars, phase, first, needsMore, reply,
                   buffer, batch, out, dropped>>

Ends(s) ==
    /\ phase[s] = "scanning"
    /\ \A w \in Workers : wpc[s][w] = "done"
    /\ SetPhase(s, "ended")
    /\ UNCHANGED <<total, serverVars, first, needsMore, workerVars,
                   dropped>>

-----------------------------------------------------------------------------
(* FETCH_REQUEST.                                                          *)

Answer(s, w, kind, chunks, index) ==
    /\ Worker(s, w, "fetch", "reply")
    /\ reply' = [reply EXCEPT ![s][w] =
                   [kind |-> kind, chunks |-> chunks, index |-> index]]
    /\ UNCHANGED <<total, uuid, phase, first, needsMore, buffer,
                   batch, out>>

\* "Result has been closed": another PREPARE has drawn a new uuid.
FetchClosed(s, w) ==
    /\ uuid # s
    /\ Answer(s, w, "error", {}, 0)
    /\ UNCHANGED <<result, next, nextBatch, dropped>>

\* Slip: the missing result is noticed before the uuid is compared.
FetchNothingFirst(s, w) ==
    /\ result = NoScan
    /\ Answer(s, w, "chunks", {}, 0)
    /\ UNCHANGED <<result, next, nextBatch, dropped>>

\* No result: an empty response, without error.
FetchNothing(s, w) ==
    /\ uuid = s
    /\ result = NoScan
    /\ Answer(s, w, "chunks", {}, 0)
    /\ UNCHANGED <<result, next, nextBatch, dropped>>

FetchFails(s, w) ==
    /\ uuid = s
    /\ result # NoScan
    /\ result' = NoScan
    /\ Answer(s, w, "error", {}, 0)
    /\ UNCHANGED <<next, nextBatch, dropped>>

\* The next batch of the result the session has.
Batch(s, w) ==
    LET n == Smaller(total[result] - next + 1, MaxBatch) IN
    /\ result # NoScan
    /\ Answer(s, w, "chunks", Chunks(result, next, next + n - 1), nextBatch)
    /\ result' = IF n = MaxBatch THEN result ELSE NoScan
    /\ next' = next + n
    /\ nextBatch' = nextBatch + 1
    /\ UNCHANGED dropped

\* Slip: the uuid of the request is not compared.
FetchAnyResult(s, w) == Batch(s, w)

Fetch(s, w) == uuid = s /\ Batch(s, w)

\* An interrupt ends the stream with an empty chunk, which CreateBatch takes
\* for the end of the result.
FetchCut(s, w) ==
    /\ Interrupts
    /\ uuid = s
    /\ result # NoScan
    /\ \E n \in 0..Smaller(total[s] - next + 1, MaxBatch - 1) :
         Answer(s, w, "chunks", Chunks(result, next, next + n - 1), nextBatch)
    /\ DropResult
    /\ nextBatch' = nextBatch + 1
    /\ UNCHANGED next

\* An error is thrown to the whole query.
ReceiveError(s, w) ==
    /\ reply[s][w].kind = "error"
    /\ Worker(s, w, "reply", "done")
    /\ reply' = [reply EXCEPT ![s][w] = NoReply]
    /\ SetPhase(s, "failed")
    /\ UNCHANGED <<total, serverVars, first, needsMore, buffer,
                   batch, out, dropped>>

\* Slip: an empty response is no reason to stop.
ReceiveNothingAndRetry(s, w) ==
    /\ reply[s][w].kind = "chunks"
    /\ reply[s][w].chunks = {}
    /\ Worker(s, w, "reply", "scan")
    /\ reply' = [reply EXCEPT ![s][w] = NoReply]
    /\ UNCHANGED <<total, serverVars, phase, first, needsMore,
                   buffer, batch, out, dropped>>

\* The server is done, and so are the worker and the scan's fetching.
ReceiveNothing(s, w) ==
    /\ reply[s][w].kind = "chunks"
    /\ reply[s][w].chunks = {}
    /\ Worker(s, w, "reply", "done")
    /\ reply' = [reply EXCEPT ![s][w] = NoReply]
    /\ needsMore' = [needsMore EXCEPT ![s] = FALSE]
    /\ UNCHANGED <<total, serverVars, phase, first, buffer, batch,
                   out, dropped>>

\* Slip: the chunks are taken without their batch index.
ReceiveKeepsIndex(s, w) ==
    /\ reply[s][w].chunks # {}
    /\ Worker(s, w, "reply", "scan")
    /\ buffer' = [buffer EXCEPT ![s][w] = reply[s][w].chunks]
    /\ reply' = [reply EXCEPT ![s][w] = NoReply]
    /\ UNCHANGED <<total, serverVars, phase, first, needsMore, batch,
                   out, dropped>>

Receive(s, w) ==
    /\ reply[s][w].chunks # {}
    /\ Worker(s, w, "reply", "scan")
    /\ buffer' = [buffer EXCEPT ![s][w] = reply[s][w].chunks]
    /\ batch' = [batch EXCEPT ![s][w] = reply[s][w].index]
    /\ reply' = [reply EXCEPT ![s][w] = NoReply]
    /\ UNCHANGED <<total, serverVars, phase, first, needsMore, out,
                   dropped>>

-----------------------------------------------------------------------------
PrepareRequest(s) ==
    \/ PrepareForbidden(s)
    \/ PrepareFails(s)
    \/ PrepareFirstBatchFails(s)
    \/ Prepare(s)
    \/ PrepareCut(s)

FetchRequest(s, w) ==
    \/ FetchClosed(s, w)
    \/ FetchNothing(s, w)
    \/ FetchFails(s, w)
    \/ Fetch(s, w)
    \/ FetchCut(s, w)

WorkerStep(s, w) ==
    \/ InitLocal(s, w)
    \/ Emit(s, w)
    \/ SendFetch(s, w)
    \/ WorkerEnds(s, w)
    \/ ReceiveError(s, w)
    \/ ReceiveNothing(s, w)
    \/ Receive(s, w)

\* Of a scan that has begun.
ScanStep(s) ==
    \/ Ends(s)
    \/ \E w \in Workers : WorkerStep(s, w) \/ FetchRequest(s, w)

Next ==
    \E s \in Scans : PrepareRequest(s) \/ InitGlobal(s) \/ ScanStep(s)

Spec == Init /\ [][Next]_vars

\* DuckDB runs the threads of a query that has begun, and the server answers.
FairSpec ==
    /\ Spec
    /\ \A s \in Scans : WF_vars(ScanStep(s))

-----------------------------------------------------------------------------
(* Properties.                                                             *)

AnyChunk == Scans \X Nat

\* Types; an open result stands at a full batch, and next_batch_index counts
\* the batches it has yielded.
TypeOK ==
    /\ \A s \in Scans : total[s] \in Sizes[s]
    /\ uuid \in Scans \union {NoScan}
    /\ result \in Scans \union {NoScan}
    /\ next \in Nat /\ nextBatch \in Nat
    /\ result # NoScan => next = nextBatch * MaxBatch + 1
    /\ phase \in [Scans -> {"new", "prepared", "scanning", "ended", "failed"}]
    /\ first \in [Scans -> SUBSET AnyChunk]
    /\ needsMore \in [Scans -> BOOLEAN]
    /\ wpc \in [Scans -> [Workers ->
                  {"none", "init", "scan", "fetch", "reply", "done"}]]
    /\ reply \in [Scans -> [Workers ->
                   [kind : {"none", "chunks", "error"}, chunks : SUBSET AnyChunk,
                    index : Nat]]]
    /\ buffer \in [Scans -> [Workers -> SUBSET AnyChunk]]
    /\ batch \in [Scans -> [Workers -> Nat]]
    /\ out \in [Scans -> [Workers -> SUBSET [chunk : AnyChunk, index : Nat]]]
    /\ dropped \subseteq Scans
    /\ \A s \in Scans, w \in Workers :
         (reply[s][w].kind # "none") <=> (wpc[s][w] = "reply")

Handed(s) == UNION {{o.chunk : o \in out[s][w]} : w \in Workers}

\* A scan that ends without an error has handed every chunk of its result on,
\* unless the result was dropped under it: the stale uuid, the swallowed end
\* and the shared needs_more_fetch lose nothing by themselves, whichever
\* worker fetches what.
EndedIsCompleteUnlessDropped ==
    \A s \in Scans \ dropped :
        phase[s] = "ended" => Chunks(s, 1, total[s]) \subseteq Handed(s)

\* A scan that ends without an error has handed every chunk of its result on.
\* QuackScan says so of the empty response it stops at: "server is done, we
\* are done"; a FETCH for a result that is gone would have to be told "Result
\* has been closed" instead.
EndedIsComplete ==
    \A s \in Scans :
        phase[s] = "ended" => Chunks(s, 1, total[s]) \subseteq Handed(s)

\* A scan only ever hands on rows of its own result, although every PREPARE on
\* the connection replaces the result its FETCHes are answered from, and each
\* of them once: a chunk is at one place at a time, so no two workers ever
\* have the same rows, neither from the PREPARE nor from concurrent FETCHes.
RowsHandedOnce ==
    \A s \in Scans, v, w \in Workers :
        LET here == buffer[s][v] \union {o.chunk : o \in out[s][v]}
            there == buffer[s][w] \union {o.chunk : o \in out[s][w]} IN
        /\ buffer[s][v] \intersect {o.chunk : o \in out[s][v]} = {}
        /\ v # w => here \intersect there = {}
        /\ first[s] \intersect here = {}
        /\ reply[s][v].chunks \intersect there = {}
        /\ {o.chunk : o \in out[s][v]} \subseteq Chunks(s, 1, total[s])

\* The batch index QuackScanGetPartitionData shows puts the rows of parallel
\* workers back into the order of the result: a smaller index means earlier
\* rows, one index belongs to one worker, and a worker never goes back.
BatchOrder ==
    \A s \in Scans, v, w \in Workers :
        \A x \in out[s][v], y \in out[s][w] :
            /\ x.index < y.index => x.chunk[2] < y.chunk[2]
            /\ x.index = y.index => v = w
            /\ \A c \in buffer[s][v] : x.chunk[2] < c[2]

\* Where a scan is, for the query that reads it.
Seen(s) == IF phase[s] \in {"ended", "failed"} THEN phase[s] ELSE "open"

\* QuackScan is the table source DuckDB's pipeline counts on, while other
\* statements replace the result its workers fetch from.
Source == INSTANCE BatchSource WITH
    size  <- total,
    given <- out,
    state <- [s \in Scans |-> Seen(s)],
    lost  <- dropped

ImplementsBatchSource == Source!SourceSpec

\* A scan that has begun ends or fails: whichever worker meets the end of
\* the result, the others stop asking.
ScanTerminates ==
    \A s \in Scans :
        phase[s] = "scanning" ~> phase[s] \in {"ended", "failed"}

=============================================================================
