-------------------------- MODULE QuackScan_proofs --------------------------
(***************************************************************************)
(* Theorems of QuackScan: types, every row handed on once, no row lost by  *)
(* a scan that ends unless its result was dropped under it, and that the   *)
(* scans are what BatchSource promises.                                    *)
(***************************************************************************)
EXTENDS QuackScan, TLAPS

\* The open result is the one whose PREPARE drew the uuid.
ServerInv ==
    /\ next >= 1 /\ nextBatch >= 1
    /\ result # NoScan =>
         /\ result = uuid
         /\ next <= total[result] + 1
    /\ \A s \in Scans : phase[s] = "new" => uuid # s

\* What a worker has at each place: chunks to hand on only where it hands them
\* on, an answer only where it awaits one; and nothing before the PREPARE.
WorkerInv ==
    /\ \A s \in Scans, w \in Workers :
         /\ wpc[s][w] # "scan" => buffer[s][w] = {}
         /\ reply[s][w].kind # "chunks" => reply[s][w].chunks = {}
         /\ phase[s] \in {"new", "prepared"} => wpc[s][w] = "none" /\ out[s][w] = {}
         /\ phase[s] \in {"scanning", "ended"} => wpc[s][w] # "none"
    /\ \A s \in Scans : phase[s] = "new" => first[s] = {}

Out(s, w) == {o.chunk : o \in out[s][w]}

\* The chunks that are on their way through a worker.
Holds(s, w) == reply[s][w].chunks \union buffer[s][w] \union Out(s, w)

\* A scan has chunks of its own result only, and of an open one those that are
\* before next.
OwnChunks ==
    \A s \in Scans :
        /\ \A c \in first[s] : c \in Chunks(s, 1, total[s]) /\ (result = s => c[2] < next)
        /\ \A w \in Workers : \A c \in Holds(s, w) :
             c \in Chunks(s, 1, total[s]) /\ (result = s => c[2] < next)

\* A chunk is at one place.
OnePlace ==
    \A s \in Scans, w \in Workers :
        /\ reply[s][w].chunks \intersect buffer[s][w] = {}
        /\ reply[s][w].chunks \intersect Out(s, w) = {}
        /\ buffer[s][w] \intersect Out(s, w) = {}
        /\ first[s] \intersect Holds(s, w) = {}
        /\ \A v \in Workers \ {w} : Holds(s, v) \intersect Holds(s, w) = {}

PlaceInv == TypeOK /\ ServerInv /\ WorkerInv /\ OwnChunks /\ OnePlace

Tag(chunks, i) == {[chunk |-> c, index |-> i] : c \in chunks}

\* The chunks of a worker, each with the batch index it has or will be shown
\* with.
Tagged(s, w) ==
    out[s][w] \union Tag(buffer[s][w], batch[s][w])
              \union Tag(reply[s][w].chunks, reply[s][w].index)

InBatch(t) == t.index * MaxBatch < t.chunk[2] /\ t.chunk[2] <= (t.index + 1) * MaxBatch

\* The batch index says which part of the result a chunk is from, and each
\* part goes to one worker.
BatchAt(s, w) ==
    /\ wpc[s][w] \in {"none", "init"} => batch[s][w] = 0 /\ out[s][w] = {}
    /\ first[s] # {} => wpc[s][w] \in {"none", "init", "done"} /\ out[s][w] = {}
    /\ \A t \in Tagged(s, w) : InBatch(t) /\ (result = s => t.index < nextBatch)
    /\ \A x \in out[s][w], c \in buffer[s][w] \union reply[s][w].chunks :
         x.chunk[2] < c[2]
    /\ \A v \in Workers \ {w} : \A x \in Tagged(s, v), y \in Tagged(s, w) :
         x.index # y.index

BatchInv ==
    \A s \in Scans :
        /\ \A c \in first[s] : c[2] <= MaxBatch
        /\ \A w \in Workers : BatchAt(s, w)

\* Every chunk that has left the session for scan s.
Places(s) == first[s] \union UNION {Holds(s, w) : w \in Workers}

Complete(s) == Chunks(s, 1, total[s]) \subseteq Places(s)

ErrorPending(s) == \E w \in Workers : reply[s][w].kind = "error"

EmptyPending(s) ==
    \E w \in Workers : reply[s][w].kind = "chunks" /\ reply[s][w].chunks = {}

\* What the session no longer has, the scan has.
Accounted(s) ==
    /\ ~needsMore[s] => Complete(s)
    /\ EmptyPending(s) => Complete(s)
    /\ uuid = s /\ result = NoScan => Complete(s)
    /\ result = s => Chunks(s, 1, next - 1) \subseteq Places(s)

\* A scan that is going on has someone to take what the PREPARE brought and to
\* fetch on.
ScanAt(s) ==
    phase[s] = "scanning" =>
        /\ first[s] # {} => \E w \in Workers : wpc[s][w] = "init"
        /\ needsMore[s] => \E w \in Workers : wpc[s][w] # "done"

ScanInv == \A s \in Scans : ScanAt(s)

CompleteAt(s) ==
    s \notin dropped =>
        /\ phase[s] \in {"prepared", "scanning"} => ErrorPending(s) \/ Accounted(s)
        /\ phase[s] = "ended" => Chunks(s, 1, total[s]) \subseteq Handed(s)

CompleteInv == \A s \in Scans : CompleteAt(s)

\* Chunks are pairs of a scan and a number.
LEMMA ChunkNumbers ==
  ASSUME NEW s \in Scans, NEW a \in Nat, NEW b \in Int
  PROVE  /\ Chunks(s, a, b) \subseteq AnyChunk
         /\ \A c \in Chunks(s, a, b) : c[1] = s /\ c[2] \in a..b
         /\ \A i \in a..b : <<s, i>> \in Chunks(s, a, b)
BY DEF Chunks, AnyChunk

LEMMA Init_PlaceInv == Init => PlaceInv
<1> SUFFICES ASSUME Init PROVE PlaceInv
  OBVIOUS
<1> USE ScanAssumption DEF ScanAssumption, Init
<1>1. TypeOK
  BY DEF TypeOK, NoReply, AnyChunk
<1>2. ServerInv /\ WorkerInv
  BY DEF ServerInv, WorkerInv, NoReply
<1>3. \A s \in Scans, w \in Workers : first[s] = {} /\ Holds(s, w) = {}
  BY DEF Holds, Out, NoReply
<1>4. OwnChunks /\ OnePlace
  BY <1>3 DEF OwnChunks, OnePlace, Holds, NoReply
<1> QED
  BY <1>1, <1>2, <1>4 DEF PlaceInv

\* Every action keeps the type invariant.
LEMMA TypeStep == TypeOK /\ ServerInv /\ WorkerInv /\ [Next]_vars => TypeOK'
<1> SUFFICES ASSUME TypeOK, ServerInv, WorkerInv, [Next]_vars PROVE TypeOK'
  OBVIOUS
<1> USE ScanAssumption DEF ScanAssumption, serverVars, workerVars, SetPhase, SetWorker, Worker, DropResult, Answer, NoReply
<1>0. \A s \in Scans : total[s] \in Nat
  BY DEF TypeOK
<1>1. ASSUME NEW s \in Scans, PrepareForbidden(s) PROVE TypeOK'
  BY <1>1 DEF PrepareForbidden, TypeOK
<1>2. ASSUME NEW s \in Scans, PrepareFails(s) PROVE TypeOK'
  BY <1>2 DEF PrepareFails, TypeOK
<1>3. ASSUME NEW s \in Scans, PrepareFirstBatchFails(s) PROVE TypeOK'
  BY <1>3 DEF PrepareFirstBatchFails, TypeOK
<1>4. ASSUME NEW s \in Scans, Prepare(s) PROVE TypeOK'
  <2> DEFINE n == Smaller(total[s], MaxBatch)
  <2>1. n \in Nat
    BY <1>0 DEF Smaller
  <2>2. Chunks(s, 1, n) \subseteq AnyChunk
    BY <2>1, ChunkNumbers
  <2>3. /\ next' = n + 1 /\ nextBatch' = 1
        /\ result' = IF n = MaxBatch THEN s ELSE NoScan
        /\ first' = [first EXCEPT ![s] = Chunks(s, 1, n)]
        /\ needsMore' = [needsMore EXCEPT ![s] = n = MaxBatch]
    BY <1>4 DEF Prepare
  <2> HIDE DEF n
  <2>4. (n = MaxBatch) \in BOOLEAN
    OBVIOUS
  <2>5. needsMore' \in [Scans -> BOOLEAN]
    BY <2>3, <2>4, Zenon DEF TypeOK
  <2>6. /\ next' \in Nat /\ nextBatch' \in Nat
        /\ result' # NoScan => next' = nextBatch' * MaxBatch + 1
    BY <2>1, <2>3
  <2>7. first' \in [Scans -> SUBSET AnyChunk]
    BY <2>2, <2>3 DEF TypeOK
  <2>8. result' \in Scans \union {NoScan}
    BY <2>3
  <2> QED
    BY <1>4, <2>5, <2>6, <2>7, <2>8 DEF Prepare, TypeOK
<1>5. ASSUME NEW s \in Scans, PrepareCut(s) PROVE TypeOK'
  <2>1. PICK n \in 0..Smaller(total[s], MaxBatch - 1) :
          next' = n + 1 /\ first' = [first EXCEPT ![s] = Chunks(s, 1, n)]
    BY <1>5 DEF PrepareCut
  <2>2. n \in Nat
    BY <1>0 DEF Smaller
  <2>3. Chunks(s, 1, n) \subseteq AnyChunk
    BY <2>2, ChunkNumbers
  <2>4. next' \in Nat /\ first' \in [Scans -> SUBSET AnyChunk]
    BY <2>1, <2>2, <2>3 DEF TypeOK
  <2>5. /\ phase' = [phase EXCEPT ![s] = "prepared"]
        /\ uuid' = s /\ result' = NoScan /\ nextBatch' = 1
        /\ dropped' = dropped \union {s}
        /\ UNCHANGED <<total, needsMore, workerVars>>
    BY <1>5 DEF PrepareCut
  <2> QED
    BY <2>4, <2>5 DEF TypeOK
<1>6. ASSUME NEW s \in Scans, InitGlobal(s) PROVE TypeOK'
  BY <1>6 DEF InitGlobal, TypeOK, WorkerInv
<1>7. ASSUME NEW s \in Scans, Ends(s) PROVE TypeOK'
  BY <1>7 DEF Ends, TypeOK
<1>8. ASSUME NEW s \in Scans, NEW w \in Workers, InitLocal(s, w) PROVE TypeOK'
  BY <1>8 DEF InitLocal, TypeOK
<1>9. ASSUME NEW s \in Scans, NEW w \in Workers, Emit(s, w) PROVE TypeOK'
  BY <1>9 DEF Emit, TypeOK
<1>10. ASSUME NEW s \in Scans, NEW w \in Workers, SendFetch(s, w) PROVE TypeOK'
  BY <1>10 DEF SendFetch, TypeOK
<1>11. ASSUME NEW s \in Scans, NEW w \in Workers, WorkerEnds(s, w) PROVE TypeOK'
  BY <1>11 DEF WorkerEnds, TypeOK
<1>12. ASSUME NEW s \in Scans, NEW w \in Workers, FetchClosed(s, w) PROVE TypeOK'
  BY <1>12 DEF FetchClosed, TypeOK
<1>13. ASSUME NEW s \in Scans, NEW w \in Workers, FetchNothing(s, w) PROVE TypeOK'
  BY <1>13 DEF FetchNothing, TypeOK
<1>14. ASSUME NEW s \in Scans, NEW w \in Workers, FetchFails(s, w) PROVE TypeOK'
  BY <1>14 DEF FetchFails, TypeOK
<1>15. ASSUME NEW s \in Scans, NEW w \in Workers, Fetch(s, w) PROVE TypeOK'
  <2> DEFINE n == Smaller(total[result] - next + 1, MaxBatch)
  <2>1. result \in Scans /\ next \in Nat /\ nextBatch \in Nat /\ MaxBatch \in Nat
    BY <1>15 DEF Fetch, Batch, TypeOK
  <2>2. n \in Nat
    BY <1>0, <2>1 DEF Smaller, ServerInv
  <2>3. Chunks(result, next, next + n - 1) \subseteq AnyChunk
    BY <2>1, <2>2, ChunkNumbers
  <2>4. /\ next' = next + n /\ nextBatch' = nextBatch + 1
        /\ result' = IF n = MaxBatch THEN result ELSE NoScan
        /\ Answer(s, w, "chunks", Chunks(result, next, next + n - 1), nextBatch)
    BY <1>15 DEF Fetch, Batch
  <2> HIDE DEF n
  <2>5. result' # NoScan => next' = nextBatch' * MaxBatch + 1
    BY <2>1, <2>2, <2>4 DEF TypeOK
  <2> QED
    BY <1>15, <2>1, <2>2, <2>3, <2>4, <2>5 DEF Fetch, Batch, TypeOK
<1>16. ASSUME NEW s \in Scans, NEW w \in Workers, FetchCut(s, w) PROVE TypeOK'
  <2>1. PICK n \in 0..Smaller(total[s] - next + 1, MaxBatch - 1) :
          Answer(s, w, "chunks", Chunks(result, next, next + n - 1), nextBatch)
    BY <1>16 DEF FetchCut
  <2>2. result \in Scans /\ next \in Nat /\ nextBatch \in Nat /\ n \in Int
    BY <1>16, <1>0 DEF FetchCut, TypeOK, Smaller
  <2>3. Chunks(result, next, next + n - 1) \subseteq AnyChunk
    BY <2>2, ChunkNumbers
  <2> QED
    BY <1>16, <2>1, <2>2, <2>3 DEF FetchCut, TypeOK
<1>17. ASSUME NEW s \in Scans, NEW w \in Workers, ReceiveError(s, w) PROVE TypeOK'
  BY <1>17 DEF ReceiveError, TypeOK
<1>18. ASSUME NEW s \in Scans, NEW w \in Workers, ReceiveNothing(s, w) PROVE TypeOK'
  BY <1>18 DEF ReceiveNothing, TypeOK
<1>19. ASSUME NEW s \in Scans, NEW w \in Workers, Receive(s, w) PROVE TypeOK'
  BY <1>19 DEF Receive, TypeOK
<1>20. CASE UNCHANGED vars
  BY <1>20 DEF vars, TypeOK
<1> QED
  BY <1>1, <1>2, <1>3, <1>4, <1>5, <1>6, <1>7, <1>8, <1>9, <1>10, <1>11, <1>12, <1>13,
     <1>14, <1>15, <1>16, <1>17, <1>18, <1>19, <1>20
     DEF Next, PrepareRequest, ScanStep, WorkerStep, FetchRequest

\* The session's variables change in PREPARE and FETCH alone.
LEMMA ServerStep == TypeOK /\ ServerInv /\ [Next]_vars => ServerInv'
<1> SUFFICES ASSUME TypeOK, ServerInv, [Next]_vars PROVE ServerInv'
  OBVIOUS
<1> USE ScanAssumption DEF ScanAssumption, serverVars, workerVars, SetPhase, SetWorker, Worker, DropResult, Answer
<1>0. \A s \in Scans : total[s] \in Nat
  BY DEF TypeOK
<1>1. ASSUME NEW s \in Scans, PrepareForbidden(s) PROVE ServerInv'
  BY <1>1 DEF PrepareForbidden, ServerInv, TypeOK
<1>2. ASSUME NEW s \in Scans, PrepareFails(s) PROVE ServerInv'
  BY <1>2 DEF PrepareFails, ServerInv, TypeOK
<1>3. ASSUME NEW s \in Scans, PrepareFirstBatchFails(s) PROVE ServerInv'
  BY <1>3 DEF PrepareFirstBatchFails, ServerInv, TypeOK
<1>4. ASSUME NEW s \in Scans, Prepare(s) PROVE ServerInv'
  BY <1>0, <1>4 DEF Prepare, Smaller, ServerInv, TypeOK
<1>5. ASSUME NEW s \in Scans, PrepareCut(s) PROVE ServerInv'
  <2>1. next' >= 1
    BY <1>0, <1>5 DEF PrepareCut, Smaller
  <2> QED
    BY <1>5, <2>1 DEF PrepareCut, ServerInv, TypeOK
<1>6. ASSUME NEW s \in Scans, InitGlobal(s) PROVE ServerInv'
  BY <1>6 DEF InitGlobal, ServerInv, TypeOK
<1>7. ASSUME NEW s \in Scans, Ends(s) PROVE ServerInv'
  BY <1>7 DEF Ends, ServerInv, TypeOK
<1>8. ASSUME NEW s \in Scans, NEW w \in Workers,
             InitLocal(s, w) \/ Emit(s, w) \/ SendFetch(s, w) \/ WorkerEnds(s, w)
      PROVE ServerInv'
  BY <1>8 DEF InitLocal, Emit, SendFetch, WorkerEnds, ServerInv
<1>9. ASSUME NEW s \in Scans, NEW w \in Workers,
             FetchClosed(s, w) \/ FetchNothing(s, w) \/ FetchFails(s, w)
      PROVE ServerInv'
  BY <1>9 DEF FetchClosed, FetchNothing, FetchFails, ServerInv
<1>10. ASSUME NEW s \in Scans, NEW w \in Workers, Fetch(s, w) PROVE ServerInv'
  <2>1. /\ result \in Scans /\ next \in Nat /\ nextBatch \in Nat
        /\ next <= total[result] + 1 /\ total[result] \in Nat
    BY <1>0, <1>10 DEF Fetch, Batch, TypeOK, ServerInv
  <2>2. /\ next' = next + Smaller(total[result] - next + 1, MaxBatch)
        /\ nextBatch' = nextBatch + 1
        /\ result' \in {result, NoScan}
        /\ UNCHANGED <<total, uuid, phase>>
    BY <1>10 DEF Fetch, Batch
  <2>3. next' >= 1 /\ next' <= total[result] + 1
    BY <2>1, <2>2 DEF Smaller, ServerInv
  <2> QED
    BY <2>1, <2>2, <2>3 DEF ServerInv
<1>11. ASSUME NEW s \in Scans, NEW w \in Workers, FetchCut(s, w) PROVE ServerInv'
  BY <1>11 DEF FetchCut, ServerInv, TypeOK
<1>12. ASSUME NEW s \in Scans, NEW w \in Workers,
              ReceiveError(s, w) \/ ReceiveNothing(s, w) \/ Receive(s, w)
       PROVE ServerInv'
  BY <1>12 DEF ReceiveError, ReceiveNothing, Receive, ServerInv, TypeOK
<1>13. CASE UNCHANGED vars
  BY <1>13 DEF vars, ServerInv
<1> QED
  BY <1>1, <1>2, <1>3, <1>4, <1>5, <1>6, <1>7, <1>8, <1>9, <1>10, <1>11, <1>12, <1>13
     DEF Next, PrepareRequest, ScanStep, WorkerStep, FetchRequest

\* Every action puts chunks and answers where WorkerInv expects them.
LEMMA WorkerStep_WorkerInv == TypeOK /\ WorkerInv /\ [Next]_vars => WorkerInv'
<1> SUFFICES ASSUME TypeOK, WorkerInv, [Next]_vars PROVE WorkerInv'
  OBVIOUS
<1> USE DEF serverVars, workerVars, SetPhase, SetWorker, Worker, NoReply, TypeOK, WorkerInv
<1>1. ASSUME NEW s \in Scans, PrepareForbidden(s) PROVE WorkerInv'
  BY <1>1 DEF PrepareForbidden
<1>2. ASSUME NEW s \in Scans, PrepareFails(s) PROVE WorkerInv'
  BY <1>2 DEF PrepareFails
<1>3. ASSUME NEW s \in Scans, PrepareFirstBatchFails(s) PROVE WorkerInv'
  BY <1>3 DEF PrepareFirstBatchFails
<1>4. ASSUME NEW s \in Scans, Prepare(s) PROVE WorkerInv'
  BY <1>4 DEF Prepare
<1>5. ASSUME NEW s \in Scans, PrepareCut(s) PROVE WorkerInv'
  BY <1>5 DEF PrepareCut
<1>6. ASSUME NEW s \in Scans, InitGlobal(s) PROVE WorkerInv'
  BY <1>6 DEF InitGlobal
<1>7. ASSUME NEW s \in Scans, Ends(s) PROVE WorkerInv'
  BY <1>7 DEF Ends
<1>8. ASSUME NEW s \in Scans, NEW w \in Workers, InitLocal(s, w) PROVE WorkerInv'
  BY <1>8 DEF InitLocal
<1>9. ASSUME NEW s \in Scans, NEW w \in Workers, Emit(s, w) PROVE WorkerInv'
  BY <1>9 DEF Emit
<1>10. ASSUME NEW s \in Scans, NEW w \in Workers, SendFetch(s, w) PROVE WorkerInv'
  BY <1>10 DEF SendFetch
<1>11. ASSUME NEW s \in Scans, NEW w \in Workers, WorkerEnds(s, w) PROVE WorkerInv'
  BY <1>11 DEF WorkerEnds
<1>12. ASSUME NEW s \in Scans, NEW w \in Workers, NEW k \in {"chunks", "error"},
              NEW chunks, NEW i, Answer(s, w, k, chunks, i),
              k = "chunks" \/ chunks = {}
       PROVE WorkerInv'
  BY <1>12 DEF Answer
<1>13. ASSUME NEW s \in Scans, NEW w \in Workers, FetchRequest(s, w) PROVE WorkerInv'
  <2>1. CASE FetchClosed(s, w)
    BY <1>12, <2>1 DEF FetchClosed
  <2>2. CASE FetchNothing(s, w)
    BY <1>12, <2>2 DEF FetchNothing
  <2>3. CASE FetchFails(s, w)
    BY <1>12, <2>3 DEF FetchFails
  <2>4. CASE Fetch(s, w)
    BY <1>12, <2>4 DEF Fetch, Batch
  <2>5. CASE FetchCut(s, w)
    BY <1>12, <2>5 DEF FetchCut
  <2> QED
    BY <1>13, <2>1, <2>2, <2>3, <2>4, <2>5 DEF FetchRequest
<1>14. ASSUME NEW s \in Scans, NEW w \in Workers, ReceiveError(s, w) PROVE WorkerInv'
  BY <1>14 DEF ReceiveError
<1>15. ASSUME NEW s \in Scans, NEW w \in Workers, ReceiveNothing(s, w) PROVE WorkerInv'
  BY <1>15 DEF ReceiveNothing
<1>16. ASSUME NEW s \in Scans, NEW w \in Workers, Receive(s, w) PROVE WorkerInv'
  BY <1>16 DEF Receive
<1>17. CASE UNCHANGED vars
  BY <1>17 DEF vars
<1> QED
  BY <1>1, <1>2, <1>3, <1>4, <1>5, <1>6, <1>7, <1>8, <1>9, <1>10, <1>11, <1>13, <1>14,
     <1>15, <1>16, <1>17
     DEF Next, PrepareRequest, ScanStep, WorkerStep

\* What a request that is answered does to the places: its chunks are new.
LEMMA AnswerPlaces ==
  ASSUME TypeOK, WorkerInv, OwnChunks, OnePlace, NEW s \in Scans, NEW w \in Workers,
         NEW kind, NEW chunks, NEW index, Answer(s, w, kind, chunks, index),
         \A c \in chunks : c \in Chunks(s, 1, total[s]) /\ result = s /\ ~(c[2] < next),
         \/ result' = NoScan
         \/ /\ result' = result /\ next' \in Nat /\ next' >= next
            /\ \A c \in chunks : c[2] < next'
  PROVE  OwnChunks' /\ OnePlace'
<1>a. /\ wpc[s][w] = "fetch"
      /\ reply' = [reply EXCEPT ![s][w] = [kind |-> kind, chunks |-> chunks, index |-> index]]
      /\ UNCHANGED <<total, first, buffer, out>>
  BY DEF Answer, Worker
<1>b. reply[s][w].chunks = {}
  <2>1. reply[s][w].kind = "none"
    BY <1>a DEF TypeOK
  <2> QED
    BY <2>1 DEF WorkerInv
<1>c. /\ reply'[s][w].chunks = chunks
      /\ \A q \in Scans, v \in Workers : q # s \/ v # w => reply'[q][v] = reply[q][v]
  <2>1. reply \in [Scans -> [Workers -> [kind : {"none", "chunks", "error"},
                                         chunks : SUBSET AnyChunk, index : Nat]]]
    BY DEF TypeOK
  <2> QED
    BY <1>a, <2>1
<1>1. \A q \in Scans, v \in Workers :
        /\ Out(q, v)' = Out(q, v) /\ buffer'[q][v] = buffer[q][v]
        /\ reply[s][w].chunks = {} /\ reply'[s][w].chunks = chunks
        /\ q # s \/ v # w => reply'[q][v] = reply[q][v]
        /\ first'[q] = first[q] /\ total'[q] = total[q]
  BY <1>a, <1>b, <1>c DEF Out
<1>2. \A q \in Scans, v \in Workers :
        Holds(q, v)' = IF q = s /\ v = w THEN Holds(q, v) \union chunks ELSE Holds(q, v)
  <2> SUFFICES ASSUME NEW q \in Scans, NEW v \in Workers
               PROVE  Holds(q, v)' = IF q = s /\ v = w THEN Holds(q, v) \union chunks
                                                       ELSE Holds(q, v)
    OBVIOUS
  <2>1. CASE q = s /\ v = w
    BY <1>1, <2>1 DEF Holds
  <2>2. CASE ~(q = s /\ v = w)
    BY <1>1, <2>2 DEF Holds
  <2> QED
    BY <2>1, <2>2
<1>3. \A q \in Scans : \A c \in Chunks(q, 1, total[q]) : c[2] \in Nat
  <2> SUFFICES ASSUME NEW q \in Scans PROVE \A c \in Chunks(q, 1, total[q]) : c[2] \in Nat
    OBVIOUS
  <2>1. total[q] \in Int
    BY ScanAssumption DEF ScanAssumption, TypeOK
  <2> QED
    BY <2>1, ChunkNumbers
<1>4. \A q \in Scans : Chunks(q, 1, total[q])' = Chunks(q, 1, total[q])
  BY <1>1 DEF Chunks
<1>5. next \in Nat /\ NoScan \notin Scans
  BY ScanAssumption DEF TypeOK, ScanAssumption
<1>6. OwnChunks'
  BY <1>1, <1>2, <1>3, <1>4, <1>5 DEF OwnChunks
<1>7. \A q \in Scans, v \in Workers :
        \A c \in chunks : c \notin Holds(s, v) /\ c \notin first[s]
  BY DEF OwnChunks
<1>8. OnePlace'
  <2> SUFFICES ASSUME NEW q \in Scans, NEW v \in Workers
               PROVE  /\ reply'[q][v].chunks \intersect buffer'[q][v] = {}
                      /\ reply'[q][v].chunks \intersect Out(q, v)' = {}
                      /\ buffer'[q][v] \intersect Out(q, v)' = {}
                      /\ first'[q] \intersect Holds(q, v)' = {}
                      /\ \A x \in Workers \ {v} : Holds(q, x)' \intersect Holds(q, v)' = {}
    BY DEF OnePlace
  <2>1. /\ buffer[q][v] \intersect Out(q, v) = {} /\ first[q] \intersect Holds(q, v) = {}
        /\ reply[q][v].chunks \intersect buffer[q][v] = {}
        /\ reply[q][v].chunks \intersect Out(q, v) = {}
        /\ \A x \in Workers \ {v} : Holds(q, x) \intersect Holds(q, v) = {}
    BY DEF OnePlace
  <2>2. buffer[q][v] \subseteq Holds(q, v) /\ Out(q, v) \subseteq Holds(q, v)
    BY DEF Holds
  <2>3. CASE q = s /\ v = w
    BY <1>1, <1>2, <1>7, <2>1, <2>2, <2>3
  <2>4. CASE ~(q = s /\ v = w)
    BY <1>1, <1>2, <1>7, <2>1, <2>2, <2>4
  <2> QED
    BY <2>3, <2>4
<1> QED
  BY <1>6, <1>8

\* Where chunks change their place inside a scan.
LEMMA PlaceStep == PlaceInv /\ [Next]_vars => OwnChunks' /\ OnePlace'
<1> SUFFICES ASSUME TypeOK, ServerInv, WorkerInv, OwnChunks, OnePlace, [Next]_vars
             PROVE  OwnChunks' /\ OnePlace'
  BY DEF PlaceInv
<1> USE ScanAssumption DEF ScanAssumption, serverVars, workerVars
<1>0. \A s \in Scans : total[s] \in Nat
  BY DEF TypeOK
<1>a. ASSUME UNCHANGED <<total, first, reply, buffer, out>>,
             \/ result' \in {NoScan} \/ UNCHANGED <<result, next>>
      PROVE  OwnChunks' /\ OnePlace'
  <2>1. \A s \in Scans, w \in Workers : Out(s, w)' = Out(s, w) /\ Holds(s, w)' = Holds(s, w)
    BY <1>a DEF Out, Holds
  <2>2. \A s \in Scans : Chunks(s, 1, total[s])' = Chunks(s, 1, total[s])
    BY <1>a
  <2> QED
    BY <1>a, <2>1, <2>2 DEF OwnChunks, OnePlace
<1>1. ASSUME NEW s \in Scans, PrepareForbidden(s) PROVE OwnChunks' /\ OnePlace'
  BY <1>1, <1>a DEF PrepareForbidden
<1>2. ASSUME NEW s \in Scans, PrepareFails(s) PROVE OwnChunks' /\ OnePlace'
  BY <1>2, <1>a DEF PrepareFails, DropResult
<1>3. ASSUME NEW s \in Scans, PrepareFirstBatchFails(s) PROVE OwnChunks' /\ OnePlace'
  BY <1>3, <1>a DEF PrepareFirstBatchFails
<1>4. ASSUME NEW s \in Scans, NEW n \in Nat, n <= total[s], phase[s] = "new",
             first' = [first EXCEPT ![s] = Chunks(s, 1, n)],
             next' = n + 1, result' \in {s, NoScan}, UNCHANGED <<total, workerVars>>
      PROVE  OwnChunks' /\ OnePlace'
  <2>0. reply' = reply /\ buffer' = buffer /\ out' = out
    BY <1>4
  <2>a. \A w \in Workers : wpc[s][w] = "none" /\ out[s][w] = {}
    BY <1>4 DEF WorkerInv
  <2>b. \A w \in Workers : buffer[s][w] = {} /\ reply[s][w].chunks = {}
    BY <2>a DEF WorkerInv, TypeOK
  <2>1. \A q \in Scans, w \in Workers :
          /\ Out(q, w)' = Out(q, w) /\ Holds(q, w)' = Holds(q, w)
          /\ Holds(s, w) = {} /\ Out(s, w) = {}
          /\ reply' = reply /\ buffer' = buffer
    BY <2>0, <2>a, <2>b DEF Out, Holds
  <2>2. \A q \in Scans : Chunks(q, 1, total[q])' = Chunks(q, 1, total[q])
    BY <1>4
  <2>3. \A c \in Chunks(s, 1, n) : c \in Chunks(s, 1, total[s]) /\ c[2] < n + 1
    BY <1>0, <1>4 DEF Chunks
  <2>4. first'[s] = Chunks(s, 1, n) /\ \A q \in Scans \ {s} : first'[q] = first[q]
    BY <1>4 DEF TypeOK
  <2>5. OwnChunks'
    BY <1>4, <2>1, <2>2, <2>3, <2>4 DEF OwnChunks
  <2>6. OnePlace'
    BY <2>1, <2>4 DEF OnePlace
  <2> QED
    BY <2>5, <2>6
<1>5. ASSUME NEW s \in Scans, Prepare(s) PROVE OwnChunks' /\ OnePlace'
  <2> DEFINE n == Smaller(total[s], MaxBatch)
  <2>1. n \in Nat /\ n <= total[s]
    BY <1>0 DEF Smaller
  <2> QED
    BY <1>4, <1>5, <2>1 DEF Prepare
<1>6. ASSUME NEW s \in Scans, PrepareCut(s) PROVE OwnChunks' /\ OnePlace'
  <2>1. PICK n \in 0..Smaller(total[s], MaxBatch - 1) :
          next' = n + 1 /\ first' = [first EXCEPT ![s] = Chunks(s, 1, n)]
    BY <1>6 DEF PrepareCut
  <2>2. n \in Nat /\ n <= total[s]
    BY <1>0 DEF Smaller
  <2> QED
    BY <1>4, <1>6, <2>1, <2>2 DEF PrepareCut
<1>7. ASSUME NEW s \in Scans, InitGlobal(s) \/ Ends(s) PROVE OwnChunks' /\ OnePlace'
  BY <1>7, <1>a DEF InitGlobal, Ends
<1>8. ASSUME NEW s \in Scans, NEW w \in Workers, SendFetch(s, w) \/ WorkerEnds(s, w)
      PROVE OwnChunks' /\ OnePlace'
  BY <1>8, <1>a DEF SendFetch, WorkerEnds
<1>9. ASSUME NEW s \in Scans, NEW w \in Workers, InitLocal(s, w)
      PROVE OwnChunks' /\ OnePlace'
  <2>1. /\ buffer[s][w] = {}
        /\ buffer' = [buffer EXCEPT ![s][w] = first[s]]
        /\ first' = [first EXCEPT ![s] = {}]
        /\ UNCHANGED <<total, result, next, reply, out>>
    BY <1>9 DEF InitLocal, Worker, WorkerInv
  <2>2. /\ buffer'[s][w] = first[s] /\ first'[s] = {}
        /\ \A q \in Scans, v \in Workers : q # s \/ v # w => buffer'[q][v] = buffer[q][v]
        /\ \A q \in Scans \ {s} : first'[q] = first[q]
    BY <2>1 DEF TypeOK
  <2>3. \A q \in Scans, v \in Workers :
          /\ Out(q, v)' = Out(q, v) /\ reply'[q][v] = reply[q][v]
          /\ q # s \/ v # w => Holds(q, v)' = Holds(q, v)
    BY <2>1, <2>2 DEF Out, Holds
  <2>4. Holds(s, w)' = Holds(s, w) \union first[s]
    BY <2>1, <2>2, <2>3 DEF Holds
  <2>5. \A q \in Scans : Chunks(q, 1, total[q])' = Chunks(q, 1, total[q])
    BY <2>1
  <2>6. OwnChunks'
    BY <2>1, <2>2, <2>3, <2>4, <2>5 DEF OwnChunks
  <2>7. OnePlace'
    BY <2>1, <2>2, <2>3, <2>4 DEF OnePlace, Holds
  <2> QED
    BY <2>6, <2>7
<1>10. ASSUME NEW s \in Scans, NEW w \in Workers, Emit(s, w)
       PROVE OwnChunks' /\ OnePlace'
  <2>1. PICK c \in buffer[s][w] :
          /\ buffer' = [buffer EXCEPT ![s][w] = @ \ {c}]
          /\ out' = [out EXCEPT ![s][w] =
                       @ \union {[chunk |-> c, index |-> batch[s][w]]}]
    BY <1>10 DEF Emit
  <2>2. /\ buffer'[s][w] = buffer[s][w] \ {c}
        /\ out'[s][w] = out[s][w] \union {[chunk |-> c, index |-> batch[s][w]]}
        /\ \A q \in Scans, v \in Workers :
             q # s \/ v # w => buffer'[q][v] = buffer[q][v] /\ out'[q][v] = out[q][v]
        /\ UNCHANGED <<total, result, next, first, reply>>
    BY <1>10, <2>1 DEF Emit, TypeOK
  <2>3. Out(s, w)' = Out(s, w) \union {c}
    <3> DEFINE e == [chunk |-> c, index |-> batch[s][w]]
    <3>1. e.chunk = c
      OBVIOUS
    <3>2. out'[s][w] = out[s][w] \union {e}
      BY <2>2
    <3> HIDE DEF e
    <3>3. {o.chunk : o \in out'[s][w]} = {o.chunk : o \in out[s][w]} \union {c}
      BY <3>1, <3>2
    <3> QED
      BY <3>3 DEF Out
  <2>4. \A q \in Scans, v \in Workers : Holds(q, v)' = Holds(q, v)
    <3> SUFFICES ASSUME NEW q \in Scans, NEW v \in Workers PROVE Holds(q, v)' = Holds(q, v)
      OBVIOUS
    <3>1. CASE q = s /\ v = w
      BY <2>2, <2>3, <3>1 DEF Holds
    <3>2. CASE q # s \/ v # w
      BY <2>2, <3>2 DEF Holds, Out
    <3> QED
      BY <3>1, <3>2
  <2>5. OwnChunks'
    BY <2>2, <2>4 DEF OwnChunks, Chunks
  <2>6. OnePlace'
    <3> SUFFICES ASSUME NEW q \in Scans, NEW v \in Workers
                 PROVE  /\ reply'[q][v].chunks \intersect buffer'[q][v] = {}
                        /\ reply'[q][v].chunks \intersect Out(q, v)' = {}
                        /\ buffer'[q][v] \intersect Out(q, v)' = {}
                        /\ first'[q] \intersect Holds(q, v)' = {}
                        /\ \A x \in Workers \ {v} : Holds(q, x)' \intersect Holds(q, v)' = {}
      BY DEF OnePlace
    <3>1. CASE q = s /\ v = w
      BY <2>2, <2>3, <2>4, <3>1 DEF OnePlace
    <3>2. CASE q # s \/ v # w
      BY <2>2, <2>4, <3>2 DEF OnePlace, Out
    <3> QED
      BY <3>1, <3>2
  <2> QED
    BY <2>5, <2>6
<1>11. ASSUME NEW s \in Scans, NEW w \in Workers,
              FetchClosed(s, w) \/ FetchNothing(s, w) \/ FetchFails(s, w)
       PROVE OwnChunks' /\ OnePlace'
  <2>1. /\ Answer(s, w, "error", {}, 0) \/ Answer(s, w, "chunks", {}, 0)
        /\ result' = NoScan \/ UNCHANGED result
        /\ UNCHANGED next
    BY <1>11 DEF FetchClosed, FetchNothing, FetchFails
  <2>2. next' \in Nat /\ next' >= next
    BY <2>1 DEF TypeOK
  <2> QED
    BY <2>1, <2>2, AnswerPlaces
<1>12. ASSUME NEW s \in Scans, NEW w \in Workers, Fetch(s, w)
       PROVE OwnChunks' /\ OnePlace'
  <2> DEFINE n == Smaller(total[s] - next + 1, MaxBatch)
  <2>1. /\ result = s /\ next \in Nat /\ next >= 1 /\ next <= total[s] + 1
        /\ Answer(s, w, "chunks", Chunks(s, next, next + n - 1), nextBatch)
        /\ next' = next + n /\ result' \in {result, NoScan}
    BY <1>12 DEF Fetch, Batch, ServerInv, TypeOK
  <2>2. n \in Nat /\ next + n - 1 <= total[s]
    BY <1>0, <2>1 DEF Smaller
  <2> HIDE DEF n
  <2>3. \A c \in Chunks(s, next, next + n - 1) :
          /\ c \in Chunks(s, 1, total[s]) /\ ~(c[2] < next) /\ c[2] < next + n
    BY <1>0, <2>1, <2>2 DEF Chunks
  <2> QED
    BY <2>1, <2>2, <2>3, AnswerPlaces
<1>13. ASSUME NEW s \in Scans, NEW w \in Workers, FetchCut(s, w)
       PROVE OwnChunks' /\ OnePlace'
  <2>1. /\ result = s /\ result' = NoScan
        /\ next \in Nat /\ next >= 1 /\ next <= total[s] + 1
    BY <1>13 DEF FetchCut, DropResult, ServerInv, TypeOK
  <2>2. PICK n \in 0..Smaller(total[s] - next + 1, MaxBatch - 1) :
          Answer(s, w, "chunks", Chunks(s, next, next + n - 1), nextBatch)
    BY <1>13, <2>1 DEF FetchCut
  <2>3. n \in Nat /\ next + n - 1 <= total[s]
    BY <1>0, <2>1 DEF Smaller
  <2>4. \A c \in Chunks(s, next, next + n - 1) : c \in Chunks(s, 1, total[s]) /\ ~(c[2] < next)
    BY <1>0, <2>1, <2>3 DEF Chunks
  <2> QED
    BY <2>1, <2>2, <2>4, AnswerPlaces
<1>14. ASSUME NEW s \in Scans, NEW w \in Workers,
              ReceiveError(s, w) \/ ReceiveNothing(s, w)
       PROVE OwnChunks' /\ OnePlace'
  <2>1. /\ reply' = [reply EXCEPT ![s][w] = NoReply]
        /\ UNCHANGED <<total, result, next, first, buffer, out>>
    BY <1>14 DEF ReceiveError, ReceiveNothing
  <2>2. reply[s][w].chunks = {}
    BY <1>14 DEF ReceiveError, ReceiveNothing, WorkerInv
  <2>3. /\ reply'[s][w].chunks = {}
        /\ \A q \in Scans, v \in Workers : q # s \/ v # w => reply'[q][v] = reply[q][v]
    BY <2>1 DEF NoReply, TypeOK
  <2>4. \A q \in Scans, v \in Workers :
          /\ reply'[q][v].chunks = reply[q][v].chunks
          /\ Out(q, v)' = Out(q, v) /\ Holds(q, v)' = Holds(q, v)
    BY <2>1, <2>2, <2>3 DEF Out, Holds
  <2> QED
    BY <2>1, <2>4 DEF OwnChunks, OnePlace, Chunks
<1>15. ASSUME NEW s \in Scans, NEW w \in Workers, Receive(s, w)
       PROVE OwnChunks' /\ OnePlace'
  <2>1. /\ reply' = [reply EXCEPT ![s][w] = NoReply]
        /\ buffer' = [buffer EXCEPT ![s][w] = reply[s][w].chunks]
        /\ buffer[s][w] = {}
        /\ UNCHANGED <<total, result, next, first, out>>
    BY <1>15 DEF Receive, Worker, WorkerInv
  <2>2. /\ reply'[s][w].chunks = {}
        /\ buffer'[s][w] = reply[s][w].chunks
        /\ \A q \in Scans, v \in Workers :
             q # s \/ v # w => reply'[q][v] = reply[q][v] /\ buffer'[q][v] = buffer[q][v]
    BY <2>1 DEF NoReply, TypeOK
  <2>3. \A q \in Scans, v \in Workers : Out(q, v)' = Out(q, v)
    BY <2>1 DEF Out
  <2>4. \A q \in Scans, v \in Workers : Holds(q, v)' = Holds(q, v)
    <3> SUFFICES ASSUME NEW q \in Scans, NEW v \in Workers PROVE Holds(q, v)' = Holds(q, v)
      OBVIOUS
    <3>1. CASE q = s /\ v = w
      BY <2>1, <2>2, <2>3, <3>1 DEF Holds
    <3>2. CASE q # s \/ v # w
      BY <2>2, <2>3, <3>2 DEF Holds
    <3> QED
      BY <3>1, <3>2
  <2>5. OwnChunks'
    BY <2>1, <2>4 DEF OwnChunks, Chunks
  <2>6. OnePlace'
    BY <2>1, <2>2, <2>3, <2>4 DEF OnePlace
  <2> QED
    BY <2>5, <2>6
<1>16. CASE UNCHANGED vars
  BY <1>16, <1>a DEF vars
<1> QED
  BY <1>1, <1>2, <1>3, <1>5, <1>6, <1>7, <1>8, <1>9, <1>10, <1>11, <1>12, <1>13, <1>14,
     <1>15, <1>16
     DEF Next, PrepareRequest, ScanStep, WorkerStep, FetchRequest

LEMMA PlaceInv_Step == PlaceInv /\ [Next]_vars => PlaceInv'
BY TypeStep, ServerStep, WorkerStep_WorkerInv, PlaceStep DEF PlaceInv

LEMMA PlaceInvHolds == Spec => []PlaceInv
BY Init_PlaceInv, PlaceInv_Step, PTL DEF Spec

\* The types of the scan's state, and that an open result stands at a full
\* batch which next_batch_index counts, in every behaviour.
THEOREM TypeCorrect == Spec => []TypeOK
<1>1. PlaceInv => TypeOK
  BY DEF PlaceInv
<1> QED
  BY <1>1, PlaceInvHolds, PTL

\* A scan hands on chunks of its own result only, and each at most once,
\* however the PREPAREs of other scans and the FETCHes of its own workers
\* interleave.
THEOREM EachRowOnce == Spec => []RowsHandedOnce
<1>1. PlaceInv => RowsHandedOnce
  <2> SUFFICES ASSUME PlaceInv, NEW s \in Scans, NEW v \in Workers, NEW w \in Workers
               PROVE  /\ buffer[s][v] \intersect Out(s, v) = {}
                      /\ v # w => (buffer[s][v] \union Out(s, v))
                                    \intersect (buffer[s][w] \union Out(s, w)) = {}
                      /\ first[s] \intersect (buffer[s][v] \union Out(s, v)) = {}
                      /\ reply[s][v].chunks \intersect (buffer[s][w] \union Out(s, w)) = {}
                      /\ Out(s, v) \subseteq Chunks(s, 1, total[s])
    BY DEF RowsHandedOnce, Out
  <2>1. /\ buffer[s][v] \union Out(s, v) \subseteq Holds(s, v)
        /\ buffer[s][w] \union Out(s, w) \subseteq Holds(s, w)
        /\ reply[s][v].chunks \subseteq Holds(s, v)
    BY DEF Holds
  <2>2. v # w => Holds(s, v) \intersect Holds(s, w) = {}
    BY DEF PlaceInv, OnePlace
  <2>3. /\ buffer[s][v] \intersect Out(s, v) = {}
        /\ first[s] \intersect Holds(s, v) = {}
        /\ reply[s][v].chunks \intersect (buffer[s][v] \union Out(s, v)) = {}
    BY DEF PlaceInv, OnePlace
  <2>4. Out(s, v) \subseteq Chunks(s, 1, total[s])
    BY <2>1 DEF PlaceInv, OwnChunks
  <2> QED
    BY <2>1, <2>2, <2>3, <2>4
<1> QED
  BY <1>1, PlaceInvHolds, PTL

-----------------------------------------------------------------------------
(* The order of the result.                                                *)

LEMMA Tags ==
  /\ \A i : Tag({}, i) = {}
  /\ \A chunks, i : \A t \in Tag(chunks, i) : t.chunk \in chunks /\ t.index = i
BY DEF Tag

LEMMA Init_BatchInv == Init => BatchInv
<1> SUFFICES ASSUME Init, NEW s \in Scans, NEW w \in Workers
             PROVE  (\A c \in first[s] : c[2] <= MaxBatch) /\ BatchAt(s, w)
  BY ScanAssumption DEF BatchInv, ScanAssumption
<1>1. first[s] = {} /\ batch[s][w] = 0 /\ out[s][w] = {}
  BY DEF Init
<1>2. \A v \in Workers : Tagged(s, v) = {}
  BY Tags DEF Init, Tagged, NoReply
<1> QED
  BY <1>1, <1>2 DEF BatchAt

\* What a request that is answered does to the batches: its chunks are the
\* part of the result that the next index stands for.
LEMMA AnswerBatches ==
  ASSUME PlaceInv, BatchInv, NEW s \in Scans, NEW w \in Workers,
         NEW kind, NEW chunks, NEW index, Answer(s, w, kind, chunks, index),
         chunks # {} => result = s /\ index = nextBatch,
         \A c \in chunks : c[2] \in Nat /\ ~(c[2] < next),
         \A t \in Tag(chunks, index) : InBatch(t),
         nextBatch' \in Nat, nextBatch' >= nextBatch,
         result' \in {result, NoScan},
         chunks # {} => result' = NoScan \/ nextBatch' > nextBatch
  PROVE  BatchInv'
<1> USE DEF PlaceInv
<1>1. /\ wpc[s][w] = "fetch"
      /\ wpc' = [wpc EXCEPT ![s][w] = "reply"]
      /\ reply' = [reply EXCEPT ![s][w] = [kind |-> kind, chunks |-> chunks, index |-> index]]
      /\ UNCHANGED <<total, first, buffer, batch, out>>
  BY DEF Answer, Worker, SetWorker
<1>2. reply[s][w].chunks = {} /\ buffer[s][w] = {}
  <2>1. reply[s][w].kind = "none"
    BY <1>1 DEF TypeOK
  <2> QED
    BY <1>1, <2>1 DEF WorkerInv
<1>3. /\ reply'[s][w].chunks = chunks /\ reply'[s][w].index = index /\ wpc'[s][w] = "reply"
      /\ \A q \in Scans, v \in Workers :
           q # s \/ v # w => reply'[q][v] = reply[q][v] /\ wpc'[q][v] = wpc[q][v]
  <2>1. /\ reply \in [Scans -> [Workers -> [kind : {"none", "chunks", "error"},
                                            chunks : SUBSET AnyChunk, index : Nat]]]
        /\ wpc \in [Scans -> [Workers -> {"none", "init", "scan", "fetch", "reply", "done"}]]
    BY DEF TypeOK
  <2> QED
    BY <1>1, <2>1
<1>4. first[s] = {}
  BY <1>1 DEF BatchInv, BatchAt
<1>5. Tagged(s, w)' = Tagged(s, w) \union Tag(chunks, index)
  <2>1. Tagged(s, w) = out[s][w]
    BY <1>2, Tags DEF Tagged
  <2>2. Tagged(s, w)' = out[s][w] \union Tag(buffer[s][w], batch[s][w]) \union Tag(chunks, index)
    BY <1>1, <1>3 DEF Tagged, Tag
  <2> QED
    BY <1>2, <2>1, <2>2, Tags
<1>6. \A q \in Scans, v \in Workers : q # s \/ v # w => Tagged(q, v)' = Tagged(q, v)
  BY <1>1, <1>3 DEF Tagged, Tag
<1>7. \A x \in out[s][w] : result = s => x.chunk[2] < next
  BY DEF OwnChunks, Holds, Out
<1>8. \A x \in out[s][w], c \in chunks : x.chunk[2] < c[2]
  <2> SUFFICES ASSUME NEW x \in out[s][w], NEW c \in chunks PROVE x.chunk[2] < c[2]
    OBVIOUS
  <2>1. x.chunk[2] \in Nat /\ next \in Nat
    BY DEF TypeOK, AnyChunk
  <2> QED
    BY <1>7, <2>1
<1>9. \A t \in Tag(chunks, index) :
        /\ t.index = nextBatch /\ result = s
        /\ result' = s => t.index < nextBatch'
  <2> SUFFICES ASSUME NEW t \in Tag(chunks, index)
               PROVE  /\ t.index = nextBatch /\ result = s
                      /\ result' = s => t.index < nextBatch'
    OBVIOUS
  <2>1. chunks # {} /\ t.index = index
    BY Tags
  <2>2. result' = s => nextBatch' > nextBatch
    BY <2>1, ScanAssumption DEF ScanAssumption
  <2>3. nextBatch \in Nat
    BY DEF TypeOK
  <2> QED
    BY <2>1, <2>2, <2>3
<1>10. \A q \in Scans, v \in Workers : \A t \in Tagged(q, v) :
         /\ InBatch(t) /\ (result = q => t.index < nextBatch)
  BY DEF BatchInv, BatchAt
<1>11. \A q \in Scans, v \in Workers : \A t \in Tagged(q, v) :
         result' = q => t.index < nextBatch'
  <2> SUFFICES ASSUME NEW q \in Scans, NEW v \in Workers, NEW t \in Tagged(q, v), result' = q
               PROVE  t.index < nextBatch'
    OBVIOUS
  <2>1. t.index \in Nat /\ nextBatch \in Nat
    BY DEF Tagged, Tag, TypeOK
  <2>2. result = q
    BY ScanAssumption DEF ScanAssumption
  <2> QED
    BY <1>10, <2>1, <2>2
<1>12. \A v \in Workers \ {w} : \A x \in Tagged(s, v), y \in Tag(chunks, index) :
         x.index # y.index
  <2> SUFFICES ASSUME NEW v \in Workers \ {w}, NEW x \in Tagged(s, v), NEW y \in Tag(chunks, index)
               PROVE  x.index # y.index
    OBVIOUS
  <2>1. x.index \in Nat /\ nextBatch \in Nat
    BY DEF Tagged, Tag, TypeOK
  <2> QED
    BY <1>9, <1>10, <2>1
<1> SUFFICES ASSUME NEW q \in Scans, NEW v \in Workers
             PROVE  (\A c \in first'[q] : c[2] <= MaxBatch) /\ BatchAt(q, v)'
  BY DEF BatchInv
<1>13. \A c \in first'[q] : c[2] <= MaxBatch
  BY <1>1 DEF BatchInv
<1>14. BatchAt(q, v)
  BY DEF BatchInv
<1>15. \A t \in Tagged(q, v)' : InBatch(t) /\ (result' = q => t.index < nextBatch')
  BY <1>5, <1>6, <1>9, <1>10, <1>11
<1>16. \A y \in Workers \ {v} : \A x \in Tagged(q, y)', z \in Tagged(q, v)' :
         x.index # z.index
  <2> SUFFICES ASSUME NEW y \in Workers \ {v}, NEW x \in Tagged(q, y)', NEW z \in Tagged(q, v)'
               PROVE  x.index # z.index
    OBVIOUS
  <2>1. CASE q = s /\ v = w
    BY <1>5, <1>6, <1>12, <1>14, <2>1 DEF BatchAt
  <2>2. CASE q = s /\ y = w
    BY <1>5, <1>6, <1>12, <1>14, <2>2 DEF BatchAt
  <2>3. CASE q # s \/ (v # w /\ y # w)
    BY <1>6, <1>14, <2>3 DEF BatchAt
  <2> QED
    BY <2>1, <2>2, <2>3
<1>17. CASE q = s /\ v = w
  BY <1>1, <1>2, <1>3, <1>4, <1>8, <1>15, <1>16, <1>17 DEF BatchAt, InBatch
<1>18. CASE q # s \/ v # w
  <2>1. /\ reply'[q][v] = reply[q][v] /\ wpc'[q][v] = wpc[q][v] /\ first'[q] = first[q]
        /\ buffer'[q][v] = buffer[q][v] /\ batch'[q][v] = batch[q][v] /\ out'[q][v] = out[q][v]
    BY <1>1, <1>3, <1>18
  <2>2. /\ wpc'[q][v] \in {"none", "init"} => batch'[q][v] = 0 /\ out'[q][v] = {}
        /\ first'[q] # {} => wpc'[q][v] \in {"none", "init", "done"} /\ out'[q][v] = {}
        /\ \A x \in out'[q][v], c \in buffer'[q][v] \union reply'[q][v].chunks :
             x.chunk[2] < c[2]
    BY <2>1, <1>14 DEF BatchAt
  <2>3. \A t \in Tagged(q, v)' : InBatch(t)' /\ (result' = q => t.index < nextBatch')
    BY <1>15 DEF InBatch
  <2> QED
    BY <2>2, <2>3, <1>13, <1>16 DEF BatchAt
<1> QED
  BY <1>13, <1>17, <1>18

\* Every action keeps the chunks with the index they are shown with.
LEMMA BatchStep == PlaceInv /\ BatchInv /\ [Next]_vars => BatchInv'
<1> SUFFICES ASSUME PlaceInv, BatchInv, [Next]_vars PROVE BatchInv'
  OBVIOUS
<1> USE ScanAssumption DEF ScanAssumption, PlaceInv, serverVars, workerVars, SetPhase
<1>0. \A s \in Scans : total[s] \in Nat
  BY DEF TypeOK
<1>a. ASSUME UNCHANGED <<first, reply, buffer, batch, out>>,
             result' = NoScan \/ UNCHANGED <<result, nextBatch>>,
             \A s \in Scans, w \in Workers :
               /\ wpc'[s][w] \in {"none", "init"} => wpc[s][w] \in {"none", "init"}
               /\ wpc[s][w] \in {"none", "init", "done"} =>
                    wpc'[s][w] \in {"none", "init", "done"}
      PROVE  BatchInv'
  <2>1. \A s \in Scans, w \in Workers : Tagged(s, w)' = Tagged(s, w)
    BY <1>a DEF Tagged, Tag
  <2> SUFFICES ASSUME NEW s \in Scans, NEW w \in Workers
               PROVE  (\A c \in first'[s] : c[2] <= MaxBatch) /\ BatchAt(s, w)'
    BY DEF BatchInv
  <2>2. (\A c \in first[s] : c[2] <= MaxBatch) /\ BatchAt(s, w)
    BY DEF BatchInv
  <2>3. \A t \in Tagged(s, w)' : InBatch(t)' /\ (result' = s => t.index < nextBatch')
    BY <1>a, <2>1, <2>2 DEF BatchAt, InBatch
  <2> QED
    BY <1>a, <2>1, <2>2, <2>3 DEF BatchAt
<1>1. ASSUME NEW s \in Scans, PrepareForbidden(s) PROVE BatchInv'
  BY <1>1, <1>a DEF PrepareForbidden
<1>2. ASSUME NEW s \in Scans, PrepareFails(s) PROVE BatchInv'
  BY <1>2, <1>a DEF PrepareFails, DropResult
<1>3. ASSUME NEW s \in Scans, PrepareFirstBatchFails(s) PROVE BatchInv'
  BY <1>3, <1>a DEF PrepareFirstBatchFails
<1>4. ASSUME NEW s \in Scans, NEW n \in Nat, n <= MaxBatch, phase[s] = "new",
             first' = [first EXCEPT ![s] = Chunks(s, 1, n)],
             result' \in {s, NoScan}, UNCHANGED workerVars
      PROVE  BatchInv'
  <2>1. \A w \in Workers : /\ wpc[s][w] = "none" /\ out[s][w] = {}
                           /\ buffer[s][w] = {} /\ reply[s][w].chunks = {}
    BY <1>4 DEF WorkerInv, TypeOK
  <2>2. \A w \in Workers : Tagged(s, w) = {}
    BY <2>1, Tags DEF Tagged
  <2>3. \A q \in Scans, w \in Workers : Tagged(q, w)' = Tagged(q, w)
    BY <1>4 DEF Tagged, Tag
  <2>4. first'[s] = Chunks(s, 1, n) /\ \A q \in Scans \ {s} : first'[q] = first[q]
    BY <1>4 DEF TypeOK
  <2>5. \A c \in Chunks(s, 1, n) : c[2] <= MaxBatch
    BY <1>4 DEF Chunks
  <2> SUFFICES ASSUME NEW q \in Scans, NEW w \in Workers
               PROVE  (\A c \in first'[q] : c[2] <= MaxBatch) /\ BatchAt(q, w)'
    BY DEF BatchInv
  <2>6. (\A c \in first[q] : c[2] <= MaxBatch) /\ BatchAt(q, w)
    BY DEF BatchInv
  <2>7. CASE q = s
    BY <1>4, <2>1, <2>2, <2>3, <2>4, <2>5, <2>6, <2>7 DEF BatchAt
  <2>8. CASE q # s
    <3>1. result' # q
      BY <1>4, <2>8
    <3>2. \A t \in Tagged(q, w)' : InBatch(t)' /\ (result' = q => t.index < nextBatch')
      BY <2>3, <2>6, <3>1 DEF BatchAt, InBatch
    <3> QED
      BY <1>4, <2>3, <2>4, <2>6, <2>8, <3>2 DEF BatchAt
  <2> QED
    BY <2>7, <2>8
<1>5. ASSUME NEW s \in Scans, Prepare(s) PROVE BatchInv'
  <2> DEFINE n == Smaller(total[s], MaxBatch)
  <2>1. n \in Nat /\ n <= MaxBatch
    BY <1>0 DEF Smaller
  <2> QED
    BY <1>4, <1>5, <2>1 DEF Prepare
<1>6. ASSUME NEW s \in Scans, PrepareCut(s) PROVE BatchInv'
  <2>1. PICK n \in 0..Smaller(total[s], MaxBatch - 1) :
          next' = n + 1 /\ first' = [first EXCEPT ![s] = Chunks(s, 1, n)]
    BY <1>6 DEF PrepareCut
  <2>2. n \in Nat /\ n <= MaxBatch
    BY <1>0 DEF Smaller
  <2> QED
    BY <1>4, <1>6, <2>1, <2>2 DEF PrepareCut
<1>7. ASSUME NEW s \in Scans, InitGlobal(s) PROVE BatchInv'
  <2>1. PICK W \in (SUBSET Workers) \ {{}} :
          wpc' = [wpc EXCEPT ![s] = [w \in Workers |-> IF w \in W THEN "init" ELSE "done"]]
    BY <1>7 DEF InitGlobal
  <2>2. \A w \in Workers : wpc[s][w] = "none"
    BY <1>7 DEF InitGlobal, WorkerInv
  <2>3. \A q \in Scans, w \in Workers :
          /\ wpc'[q][w] \in {"none", "init"} => wpc[q][w] \in {"none", "init"}
          /\ wpc[q][w] \in {"none", "init", "done"} =>
               wpc'[q][w] \in {"none", "init", "done"}
    BY <2>1, <2>2 DEF TypeOK
  <2> QED
    BY <1>7, <1>a, <2>3 DEF InitGlobal
<1>8. ASSUME NEW s \in Scans, Ends(s) PROVE BatchInv'
  BY <1>8, <1>a DEF Ends
<1>9. ASSUME NEW s \in Scans, NEW w \in Workers, SendFetch(s, w) \/ WorkerEnds(s, w)
      PROVE BatchInv'
  <2>1. /\ wpc[s][w] = "scan"
        /\ wpc' = [wpc EXCEPT ![s][w] = "fetch"] \/ wpc' = [wpc EXCEPT ![s][w] = "done"]
    BY <1>9 DEF SendFetch, WorkerEnds, Worker, SetWorker
  <2>2. \A q \in Scans, v \in Workers :
          /\ wpc'[q][v] \in {"none", "init"} => wpc[q][v] \in {"none", "init"}
          /\ wpc[q][v] \in {"none", "init", "done"} =>
               wpc'[q][v] \in {"none", "init", "done"}
    <3>1. /\ wpc'[s][w] \in {"fetch", "done"}
          /\ \A q \in Scans, v \in Workers : q # s \/ v # w => wpc'[q][v] = wpc[q][v]
      BY <2>1 DEF TypeOK
    <3> QED
      BY <2>1, <3>1
  <2> QED
    BY <1>9, <1>a, <2>2 DEF SendFetch, WorkerEnds
<1>10. ASSUME NEW s \in Scans, NEW w \in Workers,
              FetchClosed(s, w) \/ FetchNothing(s, w) \/ FetchFails(s, w)
       PROVE BatchInv'
  <2>1. /\ Answer(s, w, "error", {}, 0) \/ Answer(s, w, "chunks", {}, 0)
        /\ result' \in {result, NoScan}
        /\ nextBatch' = nextBatch /\ nextBatch \in Nat
    BY <1>10 DEF FetchClosed, FetchNothing, FetchFails, TypeOK
  <2> HIDE DEF PlaceInv
  <2> QED
    BY <2>1, Tags, AnswerBatches
<1>b. ASSUME NEW n \in Nat, n <= MaxBatch, NEW s \in Scans, result = s
      PROVE  /\ \A c \in Chunks(s, next, next + n - 1) : c[2] \in Nat /\ ~(c[2] < next)
             /\ \A t \in Tag(Chunks(s, next, next + n - 1), nextBatch) : InBatch(t)
  <2>1. next \in Nat /\ nextBatch \in Nat /\ next = nextBatch * MaxBatch + 1
    BY <1>b DEF TypeOK
  <2>2. \A c \in Chunks(s, next, next + n - 1) :
          c[2] \in Nat /\ ~(c[2] < next) /\ c[2] < next + n
    BY <2>1 DEF Chunks
  <2>3. (nextBatch + 1) * MaxBatch = nextBatch * MaxBatch + MaxBatch
    BY <2>1
  <2>4. nextBatch * MaxBatch \in Nat
    BY <2>1
  <2>5. \A c \in Chunks(s, next, next + n - 1) :
          nextBatch * MaxBatch < c[2] /\ c[2] <= (nextBatch + 1) * MaxBatch
    BY <1>b, <2>1, <2>2, <2>3, <2>4
  <2> QED
    BY <2>2, <2>5, Tags DEF InBatch
<1>11. ASSUME NEW s \in Scans, NEW w \in Workers, Fetch(s, w) PROVE BatchInv'
  <2> DEFINE n == Smaller(total[s] - next + 1, MaxBatch)
  <2>1. /\ result = s /\ next <= total[s] + 1 /\ next \in Nat
        /\ Answer(s, w, "chunks", Chunks(s, next, next + n - 1), nextBatch)
        /\ nextBatch' = nextBatch + 1 /\ nextBatch \in Nat
        /\ result' \in {result, NoScan}
    BY <1>11 DEF Fetch, Batch, ServerInv, TypeOK
  <2>2. n \in Nat /\ n <= MaxBatch
    BY <1>0, <2>1 DEF Smaller
  <2>3. nextBatch' \in Nat /\ nextBatch' > nextBatch
    BY <2>1
  <2> HIDE DEF n, PlaceInv
  <2>4. /\ \A c \in Chunks(s, next, next + n - 1) : c[2] \in Nat /\ ~(c[2] < next)
        /\ \A t \in Tag(Chunks(s, next, next + n - 1), nextBatch) : InBatch(t)
    BY <1>b, <2>1, <2>2
  <2> QED
    BY <2>1, <2>3, <2>4, AnswerBatches
<1>12. ASSUME NEW s \in Scans, NEW w \in Workers, FetchCut(s, w) PROVE BatchInv'
  <2>1. /\ result = s /\ next <= total[s] + 1 /\ next \in Nat
        /\ nextBatch' = nextBatch + 1 /\ nextBatch \in Nat
        /\ result' = NoScan
    BY <1>12 DEF FetchCut, DropResult, ServerInv, TypeOK
  <2>2. PICK n \in 0..Smaller(total[s] - next + 1, MaxBatch - 1) :
          Answer(s, w, "chunks", Chunks(s, next, next + n - 1), nextBatch)
    BY <1>12, <2>1 DEF FetchCut
  <2>3. n \in Nat /\ n <= MaxBatch
    BY <1>0, <2>1 DEF Smaller
  <2>4. nextBatch' \in Nat /\ nextBatch' > nextBatch
    BY <2>1
  <2> HIDE DEF PlaceInv
  <2> QED
    BY <1>b, <2>1, <2>2, <2>3, <2>4, AnswerBatches
<1>13. ASSUME NEW s \in Scans, NEW w \in Workers, InitLocal(s, w) PROVE BatchInv'
  <2>1. /\ wpc[s][w] = "init" /\ phase[s] = "scanning"
        /\ wpc' = [wpc EXCEPT ![s][w] = "scan"]
        /\ buffer' = [buffer EXCEPT ![s][w] = first[s]]
        /\ first' = [first EXCEPT ![s] = {}]
        /\ UNCHANGED <<result, nextBatch, reply, batch, out>>
    BY <1>13 DEF InitLocal, Worker, SetWorker
  <2>2. /\ buffer'[s][w] = first[s] /\ first'[s] = {} /\ wpc'[s][w] = "scan"
        /\ \A q \in Scans, v \in Workers : q # s \/ v # w =>
             buffer'[q][v] = buffer[q][v] /\ wpc'[q][v] = wpc[q][v]
        /\ \A q \in Scans \ {s} : first'[q] = first[q]
    BY <2>1 DEF TypeOK
  <2>3. /\ buffer[s][w] = {} /\ reply[s][w].chunks = {}
        /\ batch[s][w] = 0 /\ out[s][w] = {}
    BY <2>1 DEF WorkerInv, TypeOK, BatchInv, BatchAt
  <2>4. Tagged(s, w) = {} /\ Tagged(s, w)' = Tag(first[s], 0)
    BY <2>1, <2>2, <2>3, Tags DEF Tagged, Tag
  <2>5. \A q \in Scans, v \in Workers : q # s \/ v # w => Tagged(q, v)' = Tagged(q, v)
    BY <2>1, <2>2 DEF Tagged, Tag
  <2>6. \A v \in Workers : first[s] # {} => Tagged(s, v) = {}
    <3> SUFFICES ASSUME NEW v \in Workers, first[s] # {} PROVE Tagged(s, v) = {}
      OBVIOUS
    <3>1. wpc[s][v] \in {"none", "init", "done"} /\ out[s][v] = {}
      BY DEF BatchInv, BatchAt
    <3>2. buffer[s][v] = {} /\ reply[s][v].chunks = {}
      BY <3>1 DEF WorkerInv, TypeOK
    <3> QED
      BY <3>1, <3>2, Tags DEF Tagged
  <2>7. \A t \in Tag(first[s], 0) : InBatch(t) /\ t.index < nextBatch
    <3> SUFFICES ASSUME NEW t \in Tag(first[s], 0) PROVE InBatch(t) /\ t.index < nextBatch
      OBVIOUS
    <3>1. t.chunk \in first[s] /\ t.index = 0
      BY Tags
    <3>2. t.chunk[2] \in Nat /\ t.chunk[2] >= 1 /\ t.chunk[2] <= MaxBatch
      BY <1>0, <3>1 DEF OwnChunks, Chunks, BatchInv
    <3> QED
      BY <3>1, <3>2 DEF InBatch, ServerInv, TypeOK
  <2> SUFFICES ASSUME NEW q \in Scans, NEW v \in Workers
               PROVE  (\A c \in first'[q] : c[2] <= MaxBatch) /\ BatchAt(q, v)'
    BY DEF BatchInv
  <2>8. (\A c \in first[q] : c[2] <= MaxBatch) /\ BatchAt(q, v)
    BY DEF BatchInv
  <2>9. \A t \in Tagged(q, v)' : InBatch(t)' /\ (result' = q => t.index < nextBatch')
    BY <2>1, <2>4, <2>5, <2>7, <2>8 DEF BatchAt, InBatch
  <2>10. \A y \in Workers \ {v} : \A x \in Tagged(q, y)', z \in Tagged(q, v)' :
           x.index # z.index
    <3>1. CASE q = s /\ first[s] # {}
      BY <2>4, <2>5, <2>6, <3>1
    <3>2. CASE q = s /\ first[s] = {}
      BY <2>4, <2>5, <2>8, <3>2, Tags DEF BatchAt
    <3>3. CASE q # s
      BY <2>5, <2>8, <3>3 DEF BatchAt
    <3> QED
      BY <3>1, <3>2, <3>3
  <2>11. \A c \in first'[q] : c[2] <= MaxBatch
    BY <2>2, <2>8
  <2>12. CASE q = s /\ v = w
    BY <2>1, <2>2, <2>3, <2>9, <2>10, <2>11, <2>12 DEF BatchAt
  <2>13. CASE q # s \/ v # w
    <3>1. /\ wpc'[q][v] = wpc[q][v] /\ batch'[q][v] = batch[q][v] /\ out'[q][v] = out[q][v]
          /\ reply'[q][v] = reply[q][v] /\ buffer'[q][v] = buffer[q][v]
          /\ first'[q] # {} => first'[q] = first[q]
      BY <2>1, <2>2, <2>13
    <3> QED
      BY <3>1, <2>8, <2>9, <2>10, <2>11 DEF BatchAt
  <2> QED
    BY <2>12, <2>13
<1>c. ASSUME NEW s \in Scans, NEW w \in Workers, UNCHANGED <<first, result, nextBatch>>,
             wpc[s][w] \in {"scan", "reply"}, wpc'[s][w] \in {"scan", "done"},
             \A q \in Scans, v \in Workers : Tagged(q, v)' = Tagged(q, v),
             \A q \in Scans, v \in Workers : q # s \/ v # w =>
               /\ wpc'[q][v] = wpc[q][v] /\ batch'[q][v] = batch[q][v]
               /\ out'[q][v] = out[q][v] /\ reply'[q][v] = reply[q][v]
               /\ buffer'[q][v] = buffer[q][v],
             \A x \in out'[s][w], c \in buffer'[s][w] \union reply'[s][w].chunks :
               x.chunk[2] < c[2]
      PROVE  BatchInv'
  <2> SUFFICES ASSUME NEW q \in Scans, NEW v \in Workers
               PROVE  (\A c \in first'[q] : c[2] <= MaxBatch) /\ BatchAt(q, v)'
    BY DEF BatchInv
  <2>1. (\A c \in first[q] : c[2] <= MaxBatch) /\ BatchAt(q, v)
    BY DEF BatchInv
  <2>2. \A t \in Tagged(q, v)' : InBatch(t)' /\ (result' = q => t.index < nextBatch')
    BY <1>c, <2>1 DEF BatchAt, InBatch
  <2>3. \A y \in Workers \ {v} : \A x \in Tagged(q, y)', z \in Tagged(q, v)' :
          x.index # z.index
    BY <1>c, <2>1 DEF BatchAt
  <2>4. first[s] = {}
    BY <1>c DEF BatchInv, BatchAt
  <2>5. CASE q = s /\ v = w
    BY <1>c, <2>2, <2>3, <2>4, <2>5 DEF BatchAt
  <2>6. CASE q # s \/ v # w
    BY <1>c, <2>1, <2>2, <2>3, <2>6 DEF BatchAt
  <2> QED
    BY <2>5, <2>6
<1>14. ASSUME NEW s \in Scans, NEW w \in Workers, Emit(s, w) PROVE BatchInv'
  <2>1. PICK c \in buffer[s][w] :
          /\ \A d \in buffer[s][w] : c[2] <= d[2]
          /\ buffer' = [buffer EXCEPT ![s][w] = @ \ {c}]
          /\ out' = [out EXCEPT ![s][w] =
                       @ \union {[chunk |-> c, index |-> batch[s][w]]}]
    BY <1>14 DEF Emit
  <2>2. /\ wpc[s][w] = "scan"
        /\ UNCHANGED <<first, result, nextBatch, wpc, reply, batch>>
    BY <1>14 DEF Emit
  <2> DEFINE e == [chunk |-> c, index |-> batch[s][w]]
  <2>3. /\ buffer'[s][w] = buffer[s][w] \ {c}
        /\ out'[s][w] = out[s][w] \union {e}
        /\ \A q \in Scans, v \in Workers : q # s \/ v # w =>
             buffer'[q][v] = buffer[q][v] /\ out'[q][v] = out[q][v]
    BY <2>1 DEF TypeOK
  <2>4. reply[s][w].chunks = {}
    BY <2>2 DEF WorkerInv, TypeOK
  <2>5. e.chunk = c /\ Tag(buffer[s][w], batch[s][w])
                         = Tag(buffer[s][w] \ {c}, batch[s][w]) \union {e}
    BY DEF Tag
  <2> HIDE DEF e
  <2>6. Tagged(s, w)' = Tagged(s, w)
    <3>1. Tagged(s, w)' = (out[s][w] \union {e}) \union Tag(buffer[s][w] \ {c}, batch[s][w])
                            \union Tag(reply[s][w].chunks, reply[s][w].index)
      BY <2>2, <2>3 DEF Tagged, Tag
    <3> QED
      BY <2>5, <3>1 DEF Tagged
  <2>7. \A q \in Scans, v \in Workers : q # s \/ v # w => Tagged(q, v)' = Tagged(q, v)
    BY <2>2, <2>3 DEF Tagged, Tag
  <2>8. \A d \in buffer[s][w] \ {c} : c[2] < d[2]
    <3> SUFFICES ASSUME NEW d \in buffer[s][w] \ {c} PROVE c[2] < d[2]
      OBVIOUS
    <3>1. c \in Chunks(s, 1, total[s]) /\ d \in Chunks(s, 1, total[s])
      BY DEF OwnChunks, Holds
    <3>2. c[2] # d[2] /\ c[2] \in Nat /\ d[2] \in Nat
      BY <1>0, <3>1 DEF Chunks
    <3> QED
      BY <2>1, <3>2
  <2>9. \A x \in out[s][w] : \A d \in buffer[s][w] : x.chunk[2] < d[2]
    BY DEF BatchInv, BatchAt
  <2>10. \A x \in out'[s][w], d \in buffer'[s][w] \union reply'[s][w].chunks :
           x.chunk[2] < d[2]
    BY <2>2, <2>3, <2>4, <2>5, <2>8, <2>9
  <2> QED
    BY <1>c, <2>2, <2>3, <2>6, <2>7, <2>10
<1>15. ASSUME NEW s \in Scans, NEW w \in Workers,
              ReceiveError(s, w) \/ ReceiveNothing(s, w)
       PROVE BatchInv'
  <2>1. /\ wpc[s][w] = "reply" /\ wpc' = [wpc EXCEPT ![s][w] = "done"]
        /\ reply' = [reply EXCEPT ![s][w] = NoReply]
        /\ UNCHANGED <<first, result, nextBatch, buffer, batch, out>>
    BY <1>15 DEF ReceiveError, ReceiveNothing, Worker, SetWorker
  <2>2. reply[s][w].chunks = {} /\ buffer[s][w] = {}
    BY <1>15, <2>1 DEF ReceiveError, ReceiveNothing, WorkerInv
  <2>3. /\ reply'[s][w].chunks = {} /\ wpc'[s][w] = "done"
        /\ \A q \in Scans, v \in Workers : q # s \/ v # w =>
             reply'[q][v] = reply[q][v] /\ wpc'[q][v] = wpc[q][v]
    BY <2>1 DEF NoReply, TypeOK
  <2>4. Tagged(s, w)' = Tagged(s, w)
    BY <2>1, <2>2, <2>3, Tags DEF Tagged, Tag
  <2>5. \A q \in Scans, v \in Workers : q # s \/ v # w => Tagged(q, v)' = Tagged(q, v)
    BY <2>1, <2>3 DEF Tagged, Tag
  <2> QED
    BY <1>c, <2>1, <2>2, <2>3, <2>4, <2>5
<1>16. ASSUME NEW s \in Scans, NEW w \in Workers, Receive(s, w) PROVE BatchInv'
  <2>1. /\ wpc[s][w] = "reply" /\ wpc' = [wpc EXCEPT ![s][w] = "scan"]
        /\ reply' = [reply EXCEPT ![s][w] = NoReply]
        /\ buffer' = [buffer EXCEPT ![s][w] = reply[s][w].chunks]
        /\ batch' = [batch EXCEPT ![s][w] = reply[s][w].index]
        /\ UNCHANGED <<first, result, nextBatch, out>>
    BY <1>16 DEF Receive, Worker, SetWorker
  <2>2. buffer[s][w] = {}
    BY <2>1 DEF WorkerInv
  <2>3. /\ reply'[s][w].chunks = {} /\ wpc'[s][w] = "scan"
        /\ buffer'[s][w] = reply[s][w].chunks /\ batch'[s][w] = reply[s][w].index
    BY <2>1 DEF NoReply, TypeOK
  <2>4. \A q \in Scans, v \in Workers : q # s \/ v # w =>
          /\ reply'[q][v] = reply[q][v] /\ wpc'[q][v] = wpc[q][v]
          /\ buffer'[q][v] = buffer[q][v] /\ batch'[q][v] = batch[q][v]
    BY <2>1 DEF TypeOK
  <2>5. Tagged(s, w)' = Tagged(s, w)
    <3>1. Tagged(s, w)' = out[s][w] \union Tag(reply[s][w].chunks, reply[s][w].index)
      BY <2>1, <2>3, Tags DEF Tagged, Tag
    <3>2. Tagged(s, w) = out[s][w] \union Tag(reply[s][w].chunks, reply[s][w].index)
      BY <2>2, Tags DEF Tagged
    <3> QED
      BY <3>1, <3>2
  <2>6. \A q \in Scans, v \in Workers : q # s \/ v # w => Tagged(q, v)' = Tagged(q, v)
    BY <2>1, <2>4 DEF Tagged, Tag
  <2>7. \A x \in out'[s][w], c \in buffer'[s][w] \union reply'[s][w].chunks :
          x.chunk[2] < c[2]
    BY <2>1, <2>3 DEF BatchInv, BatchAt
  <2> QED
    BY <1>c, <2>1, <2>3, <2>4, <2>5, <2>6, <2>7
<1>17. CASE UNCHANGED vars
  BY <1>17, <1>a DEF vars
<1> QED
  BY <1>1, <1>2, <1>3, <1>5, <1>6, <1>7, <1>8, <1>9, <1>10, <1>11, <1>12, <1>13, <1>14,
     <1>15, <1>16, <1>17
     DEF Next, PrepareRequest, ScanStep, WorkerStep, FetchRequest

LEMMA BatchInvHolds == Spec => [](PlaceInv /\ BatchInv)
BY Init_PlaceInv, PlaceInv_Step, Init_BatchInv, BatchStep, PTL DEF Spec

\* The batch index that workers show puts the rows of a scan back into the
\* order of its result: smaller means earlier, one index is one worker's, and
\* a worker never goes back.
THEOREM BatchesInOrder == Spec => []BatchOrder
<1>1. PlaceInv /\ BatchInv => BatchOrder
  <2> SUFFICES ASSUME PlaceInv, BatchInv, NEW s \in Scans, NEW v \in Workers, NEW w \in Workers,
                      NEW x \in out[s][v], NEW y \in out[s][w]
               PROVE  /\ x.index < y.index => x.chunk[2] < y.chunk[2]
                      /\ x.index = y.index => v = w
                      /\ \A c \in buffer[s][v] : x.chunk[2] < c[2]
    BY DEF BatchOrder
  <2>1. /\ x.index \in Nat /\ y.index \in Nat
        /\ x.chunk[2] \in Nat /\ y.chunk[2] \in Nat /\ MaxBatch \in Nat \ {0}
    BY ScanAssumption DEF ScanAssumption, PlaceInv, TypeOK, AnyChunk
  <2>2. x \in Tagged(s, v) /\ y \in Tagged(s, w)
    BY DEF Tagged
  <2>3. BatchAt(s, v) /\ BatchAt(s, w)
    BY DEF BatchInv
  <2>4. x.chunk[2] <= (x.index + 1) * MaxBatch /\ y.index * MaxBatch < y.chunk[2]
    BY <2>2, <2>3 DEF BatchAt, InBatch
  <2>5. ASSUME x.index < y.index PROVE (x.index + 1) * MaxBatch <= y.index * MaxBatch
    <3>1. PICK d \in Nat : y.index = x.index + 1 + d
      <4>1. y.index - (x.index + 1) \in Nat
        BY <2>1, <2>5
      <4> QED
        BY <2>1, <4>1
    <3>2. y.index * MaxBatch = (x.index + 1) * MaxBatch + d * MaxBatch
      BY <2>1, <3>1
    <3>3. d * MaxBatch \in Nat /\ (x.index + 1) * MaxBatch \in Nat
      BY <2>1
    <3> QED
      BY <3>2, <3>3
  <2>6. (x.index + 1) * MaxBatch \in Nat /\ y.index * MaxBatch \in Nat
    BY <2>1
  <2>7. x.index < y.index => x.chunk[2] < y.chunk[2]
    BY <2>1, <2>4, <2>5, <2>6
  <2>8. x.index = y.index => v = w
    BY <2>2, <2>3 DEF BatchAt
  <2> QED
    BY <2>3, <2>7, <2>8 DEF BatchAt
<1> QED
  BY <1>1, BatchInvHolds, PTL

-----------------------------------------------------------------------------
(* No chunk lost.                                                          *)

LEMMA Init_CompleteInv == Init => ScanInv /\ CompleteInv
BY DEF Init, ScanInv, ScanAt, CompleteInv, CompleteAt

\* Somebody is left to take the first chunks, and to fetch.
LEMMA ScanInvStep == PlaceInv /\ ScanInv /\ [Next]_vars => ScanInv'
<1> SUFFICES ASSUME PlaceInv, ScanInv, [Next]_vars PROVE ScanInv'
  OBVIOUS
<1> USE DEF serverVars, workerVars, SetPhase, Worker, SetWorker
<1>0. /\ phase \in [Scans -> {"new", "prepared", "scanning", "ended", "failed"}]
      /\ first \in [Scans -> SUBSET AnyChunk]
      /\ needsMore \in [Scans -> BOOLEAN]
      /\ wpc \in [Scans -> [Workers ->
                    {"none", "init", "scan", "fetch", "reply", "done"}]]
  BY DEF PlaceInv, TypeOK
<1>a. ASSUME NEW q \in Scans, phase'[q] = "scanning" => phase[q] = "scanning",
             first'[q] = first[q], needsMore'[q] => needsMore[q], wpc'[q] = wpc[q]
      PROVE  ScanAt(q)'
  BY <1>a DEF ScanInv, ScanAt
<1>b. ASSUME NEW s \in Scans, NEW w \in Workers, NEW l \in {"scan", "fetch", "reply", "done"},
             wpc' = [wpc EXCEPT ![s][w] = l],
             l = "done" => ~needsMore'[s], wpc[s][w] # "init",
             UNCHANGED <<phase, first>>, \A q \in Scans : needsMore'[q] => needsMore[q]
      PROVE  ScanInv'
  <2>1. /\ wpc'[s][w] = l
        /\ \A v \in Workers \ {w} : wpc'[s][v] = wpc[s][v]
        /\ \A q \in Scans \ {s} : wpc'[q] = wpc[q]
    BY <1>0, <1>b
  <2>2. first[s] # {} /\ phase[s] = "scanning" => \E v \in Workers : wpc'[s][v] = "init"
    BY <1>b, <2>1 DEF ScanInv, ScanAt
  <2>3. needsMore'[s] /\ phase[s] = "scanning" => \E v \in Workers : wpc'[s][v] # "done"
    BY <1>b, <2>1 DEF ScanInv, ScanAt
  <2>4. ScanAt(s)'
    BY <1>b, <2>2, <2>3 DEF ScanAt
  <2>5. \A q \in Scans \ {s} : ScanAt(q)'
    BY <1>a, <1>b, <2>1
  <2> QED
    BY <2>4, <2>5 DEF ScanInv
<1>1. ASSUME NEW s \in Scans, PrepareRequest(s) PROVE ScanInv'
  <2>1. /\ \E p \in {"prepared", "failed"} : phase' = [phase EXCEPT ![s] = p]
        /\ \E c : first' = [first EXCEPT ![s] = c] \/ first' = first
        /\ \E n : needsMore' = [needsMore EXCEPT ![s] = n] \/ needsMore' = needsMore
        /\ wpc' = wpc
    BY <1>1 DEF PrepareRequest, PrepareForbidden, PrepareFails, PrepareFirstBatchFails,
                Prepare, PrepareCut
  <2>2. /\ phase'[s] # "scanning"
        /\ \A q \in Scans \ {s} :
             phase'[q] = phase[q] /\ first'[q] = first[q] /\ needsMore'[q] = needsMore[q]
    BY <1>0, <2>1
  <2>3. ScanAt(s)' /\ \A q \in Scans \ {s} : ScanAt(q)'
    BY <1>a, <2>1, <2>2 DEF ScanAt
  <2> QED
    BY <2>3 DEF ScanInv
<1>2. ASSUME NEW s \in Scans, InitGlobal(s) PROVE ScanInv'
  <2>1. PICK W \in (SUBSET Workers) \ {{}} :
          wpc' = [wpc EXCEPT ![s] = [w \in Workers |-> IF w \in W THEN "init" ELSE "done"]]
    BY <1>2 DEF InitGlobal
  <2>2. PICK w \in Workers : w \in W
    OBVIOUS
  <2>3. wpc'[s][w] = "init" /\ \A q \in Scans \ {s} : wpc'[q] = wpc[q]
    BY <1>0, <2>1, <2>2
  <2>4. /\ UNCHANGED <<first, needsMore>>
        /\ \A q \in Scans \ {s} : phase'[q] = phase[q]
    BY <1>0, <1>2 DEF InitGlobal
  <2>5. ScanAt(s)' /\ \A q \in Scans \ {s} : ScanAt(q)'
    BY <1>a, <2>3, <2>4 DEF ScanAt
  <2> QED
    BY <2>5 DEF ScanInv
<1>3. ASSUME NEW s \in Scans, Ends(s) PROVE ScanInv'
  <2>1. /\ phase'[s] = "ended" /\ \A q \in Scans \ {s} : phase'[q] = phase[q]
        /\ UNCHANGED <<first, needsMore, wpc>>
    BY <1>0, <1>3 DEF Ends
  <2>2. \A q \in Scans : ScanAt(q)'
    BY <1>a, <2>1
  <2> QED
    BY <2>2 DEF ScanInv
<1>4. ASSUME NEW s \in Scans, NEW w \in Workers, InitLocal(s, w) PROVE ScanInv'
  <2>1. /\ first' = [first EXCEPT ![s] = {}] /\ wpc' = [wpc EXCEPT ![s][w] = "scan"]
        /\ UNCHANGED <<phase, needsMore>>
    BY <1>4 DEF InitLocal
  <2>2. /\ first'[s] = {} /\ wpc'[s][w] = "scan"
        /\ \A q \in Scans \ {s} : first'[q] = first[q] /\ wpc'[q] = wpc[q]
    BY <1>0, <2>1
  <2>3. ScanAt(s)' /\ \A q \in Scans \ {s} : ScanAt(q)'
    BY <1>a, <2>1, <2>2 DEF ScanAt
  <2> QED
    BY <2>3 DEF ScanInv
<1>5. ASSUME NEW s \in Scans, NEW w \in Workers, Emit(s, w) PROVE ScanInv'
  <2>1. UNCHANGED <<phase, first, needsMore, wpc>>
    BY <1>5 DEF Emit
  <2>2. \A q \in Scans : ScanAt(q)'
    BY <1>a, <2>1
  <2> QED
    BY <2>2 DEF ScanInv
<1>6. ASSUME NEW s \in Scans, NEW w \in Workers, SendFetch(s, w) PROVE ScanInv'
  <2>1. /\ wpc[s][w] = "scan" /\ wpc' = [wpc EXCEPT ![s][w] = "fetch"]
        /\ UNCHANGED <<phase, first>> /\ \A q \in Scans : needsMore'[q] => needsMore[q]
    BY <1>6 DEF SendFetch
  <2> QED
    BY <2>1, <1>b
<1>7. ASSUME NEW s \in Scans, NEW w \in Workers, WorkerEnds(s, w) PROVE ScanInv'
  BY <1>7, <1>b DEF WorkerEnds
<1>8. ASSUME NEW s \in Scans, NEW w \in Workers, FetchRequest(s, w) PROVE ScanInv'
  <2>2. /\ wpc[s][w] = "fetch" /\ wpc' = [wpc EXCEPT ![s][w] = "reply"]
        /\ UNCHANGED <<phase, first>> /\ \A q \in Scans : needsMore'[q] => needsMore[q]
    BY <1>8 DEF FetchRequest, FetchClosed, FetchNothing, FetchFails, Fetch, Batch, FetchCut,
                Answer
  <2> QED
    BY <2>2, <1>b
<1>9. ASSUME NEW s \in Scans, NEW w \in Workers, ReceiveError(s, w) PROVE ScanInv'
  <2>1. /\ phase' = [phase EXCEPT ![s] = "failed"] /\ wpc' = [wpc EXCEPT ![s][w] = "done"]
        /\ UNCHANGED <<first, needsMore>>
    BY <1>9 DEF ReceiveError
  <2>2. /\ phase'[s] = "failed"
        /\ \A q \in Scans \ {s} : phase'[q] = phase[q] /\ wpc'[q] = wpc[q]
    BY <1>0, <2>1
  <2>3. ScanAt(s)' /\ \A q \in Scans \ {s} : ScanAt(q)'
    BY <1>a, <2>1, <2>2 DEF ScanAt
  <2> QED
    BY <2>3 DEF ScanInv
<1>10. ASSUME NEW s \in Scans, NEW w \in Workers, ReceiveNothing(s, w) PROVE ScanInv'
  <2>1. /\ wpc[s][w] = "reply" /\ wpc' = [wpc EXCEPT ![s][w] = "done"]
        /\ needsMore' = [needsMore EXCEPT ![s] = FALSE] /\ UNCHANGED <<phase, first>>
    BY <1>10 DEF ReceiveNothing
  <2>2. ~needsMore'[s]
    BY <1>0, <2>1
  <2>3. \A q \in Scans : needsMore'[q] => needsMore[q]
    BY <1>0, <2>1
  <2> QED
    BY <2>1, <2>2, <2>3, <1>b
<1>11. ASSUME NEW s \in Scans, NEW w \in Workers, Receive(s, w) PROVE ScanInv'
  <2>1. /\ wpc[s][w] = "reply" /\ wpc' = [wpc EXCEPT ![s][w] = "scan"]
        /\ UNCHANGED <<phase, first>> /\ \A q \in Scans : needsMore'[q] => needsMore[q]
    BY <1>11 DEF Receive
  <2> QED
    BY <2>1, <1>b
<1>12. CASE UNCHANGED vars
  <2>1. UNCHANGED <<phase, first, needsMore, wpc>>
    BY <1>12 DEF vars
  <2>2. \A q \in Scans : ScanAt(q)'
    BY <1>a, <2>1
  <2> QED
    BY <2>2 DEF ScanInv
<1> QED
  BY <1>1, <1>2, <1>3, <1>4, <1>5, <1>6, <1>7, <1>8, <1>9, <1>10, <1>11, <1>12
     DEF Next, ScanStep, WorkerStep

\* An answer takes nothing from a scan, and adds its chunks.
LEMMA AnswerKeeps ==
  ASSUME TypeOK, WorkerInv, NEW s \in Scans, NEW w \in Workers,
         NEW kind \in {"chunks", "error"}, NEW chunks, NEW index,
         Answer(s, w, kind, chunks, index)
  PROVE  /\ UNCHANGED <<total, uuid, phase, needsMore>>
         /\ chunks \subseteq Places(s)'
         /\ kind = "error" => ErrorPending(s)'
         /\ EmptyPending(s)' => EmptyPending(s) \/ (kind = "chunks" /\ chunks = {})
         /\ \A q \in Scans :
              /\ Places(q) \subseteq Places(q)' /\ Handed(q)' = Handed(q)
              /\ ErrorPending(q) => ErrorPending(q)'
              /\ q # s => (EmptyPending(q)' => EmptyPending(q))
<1>1. /\ wpc[s][w] = "fetch"
      /\ reply' = [reply EXCEPT ![s][w] = [kind |-> kind, chunks |-> chunks, index |-> index]]
      /\ UNCHANGED <<total, uuid, phase, first, needsMore, buffer, out>>
  BY DEF Answer, Worker
<1>2. reply[s][w].kind = "none" /\ reply[s][w].chunks = {}
  <2>1. reply[s][w].kind = "none"
    BY <1>1 DEF TypeOK
  <2> QED
    BY <2>1 DEF WorkerInv
<1>3. /\ reply'[s][w].chunks = chunks /\ reply'[s][w].kind = kind
      /\ \A q \in Scans, v \in Workers : q # s \/ v # w => reply'[q][v] = reply[q][v]
  <2>1. reply \in [Scans -> [Workers -> [kind : {"none", "chunks", "error"},
                                         chunks : SUBSET AnyChunk, index : Nat]]]
    BY DEF TypeOK
  <2> QED
    BY <1>1, <2>1
<1>4. \A q \in Scans, v \in Workers : Holds(q, v) \subseteq Holds(q, v)'
  <2> SUFFICES ASSUME NEW q \in Scans, NEW v \in Workers PROVE Holds(q, v) \subseteq Holds(q, v)'
    OBVIOUS
  <2>1. Out(q, v)' = Out(q, v) /\ buffer'[q][v] = buffer[q][v]
    BY <1>1 DEF Out
  <2>2. reply[q][v].chunks \subseteq reply'[q][v].chunks
    BY <1>2, <1>3
  <2> QED
    BY <2>1, <2>2 DEF Holds
<1>5. chunks \subseteq Holds(s, w)'
  BY <1>3 DEF Holds
<1>6. \A q \in Scans : Places(q) \subseteq Places(q)'
  BY <1>1, <1>4 DEF Places
<1>7. chunks \subseteq Places(s)'
  BY <1>5 DEF Places
<1>8. \A q \in Scans : Handed(q)' = Handed(q)
  BY <1>1 DEF Handed
<1>9. \A q \in Scans : ErrorPending(q) => ErrorPending(q)'
  <2> SUFFICES ASSUME NEW q \in Scans, NEW v \in Workers, reply[q][v].kind = "error"
               PROVE  reply'[q][v].kind = "error"
    BY DEF ErrorPending
  <2>1. q # s \/ v # w
    BY <1>2
  <2> QED
    BY <1>3, <2>1
<1>10. kind = "error" => ErrorPending(s)'
  BY <1>3 DEF ErrorPending
<1>11. \A q \in Scans : q # s => (EmptyPending(q)' => EmptyPending(q))
  BY <1>3 DEF EmptyPending
<1>12. EmptyPending(s)' => EmptyPending(s) \/ (kind = "chunks" /\ chunks = {})
  <2> SUFFICES ASSUME NEW v \in Workers, reply'[s][v].kind = "chunks", reply'[s][v].chunks = {}
               PROVE  EmptyPending(s) \/ (kind = "chunks" /\ chunks = {})
    BY DEF EmptyPending
  <2>1. CASE v = w
    BY <1>3, <2>1
  <2>2. CASE v # w
    BY <1>3, <2>2 DEF EmptyPending
  <2> QED
    BY <2>1, <2>2
<1> QED
  BY <1>1, <1>6, <1>7, <1>8, <1>9, <1>10, <1>11, <1>12

\* A scan keeps what it has got, and the session what it has left: a step that
\* takes nothing from scan q, nor its rows from the session unless it is put
\* down as dropped, keeps it accounted for.
LEMMA StaysAccounted ==
  ASSUME CompleteInv, NEW q \in Scans, total' = total, dropped \subseteq dropped',
         phase'[q] \in {phase[q], "failed"} \/ (phase[q] = "prepared" /\ phase'[q] = "scanning"),
         Places(q) \subseteq Places(q)', Handed(q) \subseteq Handed(q)',
         ~needsMore'[q] => ~needsMore[q] \/ EmptyPending(q),
         ErrorPending(q) => ErrorPending(q)', EmptyPending(q)' => EmptyPending(q),
         uuid' = q /\ result' = NoScan =>
           q \in dropped' \/ ErrorPending(q)' \/ (uuid = q /\ result = NoScan),
         result' = q => result = q /\ next' = next
  PROVE  CompleteAt(q)'
<1> SUFFICES ASSUME q \notin dropped', phase'[q] # "failed"
             PROVE  /\ phase'[q] \in {"prepared", "scanning"} =>
                         ErrorPending(q)' \/ Accounted(q)'
                    /\ phase'[q] = "ended" => Chunks(q, 1, total[q]) \subseteq Handed(q)'
  BY DEF CompleteAt, Chunks
<1>1. /\ phase[q] \in {"prepared", "scanning"} => ErrorPending(q) \/ Accounted(q)
      /\ phase[q] = "ended" => Chunks(q, 1, total[q]) \subseteq Handed(q)
  BY DEF CompleteInv, CompleteAt
<1>2. phase'[q] = "ended" => Chunks(q, 1, total[q]) \subseteq Handed(q)'
  BY <1>1
<1>3. Complete(q) => Complete(q)'
  BY DEF Complete, Chunks
<1>4. ASSUME phase'[q] \in {"prepared", "scanning"}, ~ErrorPending(q)' PROVE Accounted(q)'
  <2>1. Accounted(q)
    BY <1>1, <1>4
  <2>2. /\ ~needsMore'[q] => Complete(q)'
        /\ EmptyPending(q)' => Complete(q)'
        /\ uuid' = q /\ result' = NoScan => Complete(q)'
    BY <1>3, <1>4, <2>1 DEF Accounted
  <2>3. result' = q => Chunks(q, 1, next' - 1) \subseteq Places(q)'
    BY <2>1 DEF Accounted
  <2> QED
    BY <2>2, <2>3 DEF Accounted, Chunks
<1> QED
  BY <1>2, <1>4

\* No step loses a chunk of a scan without putting it down as dropped, telling
\* a worker of an error, or having handed everything on.
LEMMA CompleteStep == PlaceInv /\ ScanInv /\ CompleteInv /\ [Next]_vars => CompleteInv'
<1> SUFFICES ASSUME PlaceInv, ScanInv, CompleteInv, [Next]_vars PROVE CompleteInv'
  OBVIOUS
<1> USE DEF serverVars, workerVars, SetPhase, Worker, SetWorker
<1>0. /\ TypeOK /\ ServerInv /\ WorkerInv /\ NoScan \notin Scans /\ MaxBatch \in Nat \ {0}
      /\ \A s \in Scans : total[s] \in Nat
  BY ScanAssumption DEF ScanAssumption, PlaceInv, TypeOK
<1>t. /\ phase \in [Scans -> {"new", "prepared", "scanning", "ended", "failed"}]
      /\ first \in [Scans -> SUBSET AnyChunk]
      /\ needsMore \in [Scans -> BOOLEAN]
      /\ reply \in [Scans -> [Workers ->
                     [kind : {"none", "chunks", "error"}, chunks : SUBSET AnyChunk,
                      index : Nat]]]
      /\ buffer \in [Scans -> [Workers -> SUBSET AnyChunk]]
      /\ out \in [Scans -> [Workers -> SUBSET [chunk : AnyChunk, index : Nat]]]
  BY <1>0 DEF TypeOK
<1>u. result # NoScan => result = uuid
  BY <1>0 DEF ServerInv
<1>p. ASSUME NEW q \in Scans, first'[q] = first[q], UNCHANGED <<reply, buffer, out>>
      PROVE  /\ Places(q)' = Places(q) /\ Handed(q)' = Handed(q)
             /\ ErrorPending(q)' = ErrorPending(q) /\ EmptyPending(q)' = EmptyPending(q)
  BY <1>p DEF Places, Holds, Out, Handed, ErrorPending, EmptyPending
\* A PREPARE of scan s, for the others.
<1>q. ASSUME NEW s \in Scans, NEW q \in Scans \ {s}, UNCHANGED <<total, reply, buffer, out>>,
             first'[q] = first[q], phase'[q] = phase[q], needsMore'[q] = needsMore[q],
             dropped \subseteq dropped', result' # q,
             uuid' = s \/ (uuid' = uuid /\ uuid \in dropped') \/ UNCHANGED <<uuid, result>>
      PROVE  CompleteAt(q)'
  BY <1>q, <1>p, StaysAccounted
<1>1. ASSUME NEW s \in Scans, PrepareForbidden(s) PROVE CompleteInv'
  <2>1. /\ phase' = [phase EXCEPT ![s] = "failed"]
        /\ UNCHANGED <<total, uuid, result, next, first, needsMore, reply, buffer, out, dropped>>
    BY <1>1 DEF PrepareForbidden
  <2>2. phase'[s] = "failed" /\ \A q \in Scans \ {s} : phase'[q] = phase[q]
    BY <1>t, <2>1
  <2>3. \A q \in Scans : CompleteAt(q)'
    BY <1>p, <2>1, <2>2, StaysAccounted
  <2> QED
    BY <2>3 DEF CompleteInv
<1>2. ASSUME NEW s \in Scans, PrepareFails(s) PROVE CompleteInv'
  <2>1. /\ phase' = [phase EXCEPT ![s] = "failed"]
        /\ UNCHANGED <<total, uuid, first, needsMore, reply, buffer, out>>
        /\ result' = NoScan /\ dropped \subseteq dropped'
        /\ result # NoScan => uuid \in dropped'
    BY <1>2, <1>u DEF PrepareFails, DropResult
  <2>2. phase'[s] = "failed" /\ \A q \in Scans \ {s} : phase'[q] = phase[q]
    BY <1>t, <2>1
  <2>3. \A q \in Scans \ {s} : CompleteAt(q)'
    BY <1>0, <1>q, <2>1, <2>2
  <2>4. CompleteAt(s)'
    BY <2>2 DEF CompleteAt
  <2> QED
    BY <2>3, <2>4 DEF CompleteInv
<1>3. ASSUME NEW s \in Scans, PrepareFirstBatchFails(s) PROVE CompleteInv'
  <2>1. /\ phase' = [phase EXCEPT ![s] = "failed"] /\ uuid' = s /\ result' = NoScan
        /\ UNCHANGED <<total, first, needsMore, reply, buffer, out, dropped>>
    BY <1>3 DEF PrepareFirstBatchFails
  <2>2. phase'[s] = "failed" /\ \A q \in Scans \ {s} : phase'[q] = phase[q]
    BY <1>t, <2>1
  <2>3. \A q \in Scans \ {s} : CompleteAt(q)'
    BY <1>0, <1>q, <2>1, <2>2
  <2>4. CompleteAt(s)'
    BY <2>2 DEF CompleteAt
  <2> QED
    BY <2>3, <2>4 DEF CompleteInv
<1>4. ASSUME NEW s \in Scans, Prepare(s) PROVE CompleteInv'
  <2> DEFINE n == Smaller(total[s], MaxBatch)
  <2>1. /\ phase[s] = "new" /\ phase' = [phase EXCEPT ![s] = "prepared"]
        /\ uuid' = s /\ next' = n + 1
        /\ result' = IF n = MaxBatch THEN s ELSE NoScan
        /\ first' = [first EXCEPT ![s] = Chunks(s, 1, n)]
        /\ needsMore' = [needsMore EXCEPT ![s] = n = MaxBatch]
        /\ UNCHANGED <<total, reply, buffer, out, dropped>>
    BY <1>4 DEF Prepare
  <2>2. n \in Nat /\ (n # MaxBatch => n = total[s])
    BY <1>0 DEF Smaller
  <2> HIDE DEF n
  <2>3. /\ phase'[s] = "prepared" /\ first'[s] = Chunks(s, 1, n)
        /\ \A q \in Scans \ {s} : phase'[q] = phase[q] /\ first'[q] = first[q]
    BY <1>t, <2>1
  <2>4. ~needsMore'[s] => n # MaxBatch
    BY <1>t, <2>1, Zenon
  <2>5. \A q \in Scans \ {s} : needsMore'[q] = needsMore[q]
    BY <1>t, <2>1
  <2>6. \A q \in Scans \ {s} : CompleteAt(q)'
    BY <1>0, <1>q, <2>1, <2>3, <2>5
  <2>7. Chunks(s, 1, n) \subseteq Places(s)'
    BY <2>3 DEF Places
  <2>8. ~EmptyPending(s)'
    <3>1. \A w \in Workers : wpc[s][w] = "none"
      BY <1>0, <2>1 DEF WorkerInv
    <3>2. \A w \in Workers : reply[s][w].kind = "none"
      BY <1>0, <3>1 DEF TypeOK
    <3> QED
      BY <2>1, <3>2 DEF EmptyPending
  <2>9. n # MaxBatch => Complete(s)'
    BY <2>1, <2>2, <2>7 DEF Complete, Chunks
  <2>10. next' - 1 = n
    BY <2>1, <2>2
  <2>11. result' = s => Chunks(s, 1, next' - 1) \subseteq Places(s)'
    BY <2>7, <2>10
  <2>12. uuid' = s /\ result' = NoScan => Complete(s)'
    BY <1>0, <2>1, <2>9
  <2>13. Accounted(s)'
    BY <2>4, <2>8, <2>9, <2>11, <2>12 DEF Accounted, Chunks
  <2>14. CompleteAt(s)'
    BY <2>3, <2>13 DEF CompleteAt
  <2> QED
    BY <2>6, <2>14 DEF CompleteInv
<1>5. ASSUME NEW s \in Scans, PrepareCut(s) PROVE CompleteInv'
  <2>1. /\ phase' = [phase EXCEPT ![s] = "prepared"]
        /\ uuid' = s /\ result' = NoScan /\ dropped' = dropped \union {s}
        /\ \E c : first' = [first EXCEPT ![s] = c]
        /\ UNCHANGED <<total, needsMore, reply, buffer, out>>
    BY <1>5 DEF PrepareCut
  <2>2. \A q \in Scans \ {s} : phase'[q] = phase[q] /\ first'[q] = first[q]
    BY <1>t, <2>1
  <2>3. \A q \in Scans \ {s} : CompleteAt(q)'
    BY <1>0, <1>q, <2>1, <2>2
  <2>4. CompleteAt(s)'
    BY <2>1 DEF CompleteAt
  <2> QED
    BY <2>3, <2>4 DEF CompleteInv
<1>6. ASSUME NEW s \in Scans, InitGlobal(s) PROVE CompleteInv'
  <2>1. /\ phase[s] = "prepared" /\ phase' = [phase EXCEPT ![s] = "scanning"]
        /\ UNCHANGED <<total, uuid, result, next, first, needsMore, reply, buffer, out, dropped>>
    BY <1>6 DEF InitGlobal
  <2>2. phase'[s] = "scanning" /\ \A q \in Scans \ {s} : phase'[q] = phase[q]
    BY <1>t, <2>1
  <2>3. \A q \in Scans : CompleteAt(q)'
    BY <1>p, <2>1, <2>2, StaysAccounted
  <2> QED
    BY <2>3 DEF CompleteInv
<1>7. ASSUME NEW s \in Scans, Ends(s) PROVE CompleteInv'
  <2>1. /\ phase[s] = "scanning" /\ phase' = [phase EXCEPT ![s] = "ended"]
        /\ \A w \in Workers : wpc[s][w] = "done"
        /\ UNCHANGED <<total, uuid, result, next, first, needsMore, reply, buffer, out, dropped>>
    BY <1>7 DEF Ends
  <2>2. phase'[s] = "ended" /\ \A q \in Scans \ {s} : phase'[q] = phase[q]
    BY <1>t, <2>1
  <2>3. \A q \in Scans \ {s} : CompleteAt(q)'
    BY <1>p, <2>1, <2>2, StaysAccounted
  <2>4. first[s] = {} /\ ~needsMore[s]
    BY <2>1 DEF ScanInv, ScanAt
  <2>5. \A w \in Workers : reply[s][w].kind = "none"
    BY <1>0, <2>1 DEF TypeOK
  <2>6. \A w \in Workers : reply[s][w].chunks = {} /\ buffer[s][w] = {}
    BY <1>0, <2>1, <2>5 DEF WorkerInv
  <2>7. ~ErrorPending(s)
    BY <2>5 DEF ErrorPending
  <2>8. Places(s) = Handed(s)
    BY <2>4, <2>6 DEF Places, Holds, Handed, Out
  <2>9. s \notin dropped => Chunks(s, 1, total[s]) \subseteq Handed(s)
    BY <2>1, <2>4, <2>7, <2>8 DEF CompleteInv, CompleteAt, Accounted, Complete
  <2>10. Handed(s)' = Handed(s)
    BY <1>p, <2>1
  <2>11. CompleteAt(s)'
    BY <2>1, <2>2, <2>9, <2>10 DEF CompleteAt, Chunks
  <2> QED
    BY <2>3, <2>11 DEF CompleteInv
\* Chunks that move inside scan s.
<1>m. ASSUME NEW s \in Scans, NEW w \in Workers,
             UNCHANGED <<total, uuid, result, next, phase, needsMore, dropped>>,
             \A q \in Scans \ {s} : first'[q] = first[q],
             \A q \in Scans, v \in Workers : q # s \/ v # w =>
               buffer'[q][v] = buffer[q][v] /\ out'[q][v] = out[q][v]
                 /\ reply'[q][v] = reply[q][v],
             Places(s) \subseteq Places(s)', out[s][w] \subseteq out'[s][w],
             reply[s][w].kind = "error" => reply'[s][w] = reply[s][w],
             reply'[s][w].kind = "chunks" => reply'[s][w] = reply[s][w]
      PROVE  CompleteInv'
  <2>1. \A q \in Scans \ {s} : Places(q)' = Places(q)
    BY <1>m DEF Places, Holds, Out
  <2>2. \A q \in Scans : /\ ErrorPending(q) => ErrorPending(q)'
                         /\ EmptyPending(q)' => EmptyPending(q)
    <3> SUFFICES ASSUME NEW q \in Scans, NEW v \in Workers
                 PROVE  /\ reply[q][v].kind = "error" => reply'[q][v].kind = "error"
                        /\ reply'[q][v].kind = "chunks" => reply'[q][v] = reply[q][v]
      BY DEF ErrorPending, EmptyPending
    <3> QED
      BY <1>m
  <2>3. \A q \in Scans, v \in Workers : out[q][v] \subseteq out'[q][v]
    BY <1>m
  <2>4. \A q \in Scans : Handed(q) \subseteq Handed(q)'
    BY <2>3 DEF Handed
  <2>5. \A q \in Scans : CompleteAt(q)'
    BY <1>m, <2>1, <2>2, <2>4, StaysAccounted
  <2> QED
    BY <2>5 DEF CompleteInv
<1>8. ASSUME NEW s \in Scans, NEW w \in Workers, InitLocal(s, w) PROVE CompleteInv'
  <2>1. /\ wpc[s][w] = "init"
        /\ buffer' = [buffer EXCEPT ![s][w] = first[s]]
        /\ first' = [first EXCEPT ![s] = {}]
        /\ UNCHANGED <<total, uuid, result, next, phase, needsMore, reply, out, dropped>>
    BY <1>8 DEF InitLocal
  <2>2. /\ buffer'[s][w] = first[s] /\ \A q \in Scans \ {s} : first'[q] = first[q]
        /\ \A q \in Scans, v \in Workers : q # s \/ v # w => buffer'[q][v] = buffer[q][v]
    BY <1>t, <2>1
  <2>3. buffer[s][w] = {}
    BY <1>0, <2>1 DEF WorkerInv
  <2>4. Places(s) \subseteq Places(s)'
    <3>1. first[s] \subseteq Holds(s, w)'
      BY <2>2 DEF Holds
    <3>2. \A v \in Workers : Holds(s, v) \subseteq Holds(s, v)'
      BY <2>1, <2>2, <2>3 DEF Holds, Out
    <3> QED
      BY <3>1, <3>2 DEF Places
  <2> QED
    BY <1>m, <2>1, <2>2, <2>4
<1>9. ASSUME NEW s \in Scans, NEW w \in Workers, Emit(s, w) PROVE CompleteInv'
  <2>1. PICK c \in buffer[s][w] :
          /\ buffer' = [buffer EXCEPT ![s][w] = @ \ {c}]
          /\ out' = [out EXCEPT ![s][w] =
                       @ \union {[chunk |-> c, index |-> batch[s][w]]}]
    BY <1>9 DEF Emit
  <2>2. UNCHANGED <<total, uuid, result, next, phase, first, needsMore, reply, dropped>>
    BY <1>9 DEF Emit
  <2> DEFINE e == [chunk |-> c, index |-> batch[s][w]]
  <2>3. e.chunk = c
    OBVIOUS
  <2>4. /\ buffer'[s][w] = buffer[s][w] \ {c} /\ out'[s][w] = out[s][w] \union {e}
        /\ \A q \in Scans, v \in Workers : q # s \/ v # w =>
             buffer'[q][v] = buffer[q][v] /\ out'[q][v] = out[q][v]
    BY <1>t, <2>1
  <2> HIDE DEF e
  <2>5. Out(s, w) \subseteq Out(s, w)' /\ c \in Out(s, w)'
    BY <2>3, <2>4 DEF Out
  <2>6. \A v \in Workers : Holds(s, v) \subseteq Holds(s, v)'
    <3> SUFFICES ASSUME NEW v \in Workers PROVE Holds(s, v) \subseteq Holds(s, v)'
      OBVIOUS
    <3>1. CASE v = w
      BY <2>2, <2>4, <2>5, <3>1 DEF Holds
    <3>2. CASE v # w
      BY <2>2, <2>4, <3>2 DEF Holds, Out
    <3> QED
      BY <3>1, <3>2
  <2>7. Places(s) \subseteq Places(s)'
    BY <2>2, <2>6 DEF Places
  <2> QED
    BY <1>m, <2>2, <2>4, <2>7
<1>10. ASSUME NEW s \in Scans, NEW w \in Workers, SendFetch(s, w) \/ WorkerEnds(s, w)
       PROVE CompleteInv'
  <2>1. UNCHANGED <<total, uuid, result, next, phase, first, needsMore, reply, buffer, out, dropped>>
    BY <1>10 DEF SendFetch, WorkerEnds
  <2>2. \A q \in Scans : CompleteAt(q)'
    BY <1>p, <2>1, StaysAccounted
  <2> QED
    BY <2>2 DEF CompleteInv
<1>11. ASSUME NEW s \in Scans, NEW w \in Workers, Receive(s, w) PROVE CompleteInv'
  <2>1. /\ wpc[s][w] = "reply" /\ reply[s][w].chunks # {}
        /\ reply' = [reply EXCEPT ![s][w] = NoReply]
        /\ buffer' = [buffer EXCEPT ![s][w] = reply[s][w].chunks]
        /\ UNCHANGED <<total, uuid, result, next, phase, first, needsMore, out, dropped>>
    BY <1>11 DEF Receive
  <2>2. buffer[s][w] = {} /\ reply[s][w].kind = "chunks"
    BY <1>0, <2>1 DEF WorkerInv
  <2>3. /\ buffer'[s][w] = reply[s][w].chunks /\ reply'[s][w].kind = "none"
        /\ \A q \in Scans, v \in Workers : q # s \/ v # w =>
             buffer'[q][v] = buffer[q][v] /\ reply'[q][v] = reply[q][v]
    BY <1>t, <2>1 DEF NoReply
  <2>4. \A v \in Workers : Holds(s, v) \subseteq Holds(s, v)'
    BY <2>1, <2>2, <2>3 DEF Holds, Out
  <2>5. Places(s) \subseteq Places(s)'
    BY <2>1, <2>4 DEF Places
  <2> QED
    BY <1>m, <2>1, <2>2, <2>3, <2>5
<1>12. ASSUME NEW s \in Scans, NEW w \in Workers, ReceiveError(s, w) PROVE CompleteInv'
  <2>1. /\ phase' = [phase EXCEPT ![s] = "failed"]
        /\ reply' = [reply EXCEPT ![s][w] = NoReply]
        /\ UNCHANGED <<total, uuid, result, next, first, needsMore, buffer, out, dropped>>
    BY <1>12 DEF ReceiveError
  <2>2. /\ phase'[s] = "failed"
        /\ \A q \in Scans \ {s} : phase'[q] = phase[q] /\ reply'[q] = reply[q]
    BY <1>t, <2>1
  <2>3. \A q \in Scans \ {s} :
          /\ Places(q)' = Places(q) /\ Handed(q)' = Handed(q)
          /\ ErrorPending(q)' = ErrorPending(q) /\ EmptyPending(q)' = EmptyPending(q)
    BY <2>1, <2>2 DEF Places, Holds, Out, Handed, ErrorPending, EmptyPending
  <2>4. \A q \in Scans \ {s} : CompleteAt(q)'
    BY <2>1, <2>2, <2>3, StaysAccounted
  <2>5. CompleteAt(s)'
    BY <2>2 DEF CompleteAt
  <2> QED
    BY <2>4, <2>5 DEF CompleteInv
<1>13. ASSUME NEW s \in Scans, NEW w \in Workers, ReceiveNothing(s, w) PROVE CompleteInv'
  <2>1. /\ reply[s][w].kind = "chunks" /\ reply[s][w].chunks = {}
        /\ reply' = [reply EXCEPT ![s][w] = NoReply]
        /\ needsMore' = [needsMore EXCEPT ![s] = FALSE]
        /\ UNCHANGED <<total, uuid, result, next, phase, first, buffer, out, dropped>>
    BY <1>13 DEF ReceiveNothing
  <2>2. EmptyPending(s)
    BY <2>1 DEF EmptyPending
  <2>3. /\ reply'[s][w].kind = "none" /\ reply'[s][w].chunks = {}
        /\ \A q \in Scans, v \in Workers : q # s \/ v # w => reply'[q][v] = reply[q][v]
        /\ \A q \in Scans \ {s} : needsMore'[q] = needsMore[q]
    BY <1>t, <2>1 DEF NoReply
  <2>4. \A q \in Scans, v \in Workers :
          reply'[q][v].chunks = reply[q][v].chunks /\ Holds(q, v)' = Holds(q, v)
    BY <2>1, <2>3 DEF Holds, Out
  <2>5. \A q \in Scans : Places(q)' = Places(q) /\ Handed(q)' = Handed(q)
    BY <2>1, <2>4 DEF Places, Handed
  <2>6. \A q \in Scans : /\ ErrorPending(q) => ErrorPending(q)'
                         /\ EmptyPending(q)' => EmptyPending(q)
    <3> SUFFICES ASSUME NEW q \in Scans, NEW v \in Workers
                 PROVE  /\ reply[q][v].kind = "error" => reply'[q][v].kind = "error"
                        /\ reply'[q][v].kind = "chunks" => reply'[q][v] = reply[q][v]
      BY DEF ErrorPending, EmptyPending
    <3> QED
      BY <2>1, <2>3
  <2>7. \A q \in Scans : CompleteAt(q)'
    BY <2>1, <2>2, <2>3, <2>5, <2>6, StaysAccounted
  <2> QED
    BY <2>7 DEF CompleteInv
<1>14. ASSUME NEW s \in Scans, NEW w \in Workers, FetchClosed(s, w) \/ FetchFails(s, w)
       PROVE CompleteInv'
  <2>1. /\ Answer(s, w, "error", {}, 0) /\ UNCHANGED <<next, dropped>>
        /\ result' = result \/ (result' = NoScan /\ uuid = s)
    BY <1>14 DEF FetchClosed, FetchFails
  <2>2. /\ UNCHANGED <<total, uuid, phase, needsMore>>
        /\ ErrorPending(s)' /\ (EmptyPending(s)' => EmptyPending(s))
        /\ \A q \in Scans :
              /\ Places(q) \subseteq Places(q)' /\ Handed(q)' = Handed(q)
              /\ ErrorPending(q) => ErrorPending(q)'
              /\ q # s => (EmptyPending(q)' => EmptyPending(q))
    BY <1>0, <2>1, AnswerKeeps
  <2>3. \A q \in Scans : CompleteAt(q)'
    BY <1>0, <2>1, <2>2, StaysAccounted
  <2> QED
    BY <2>3 DEF CompleteInv
<1>d. ASSUME NEW s \in Scans, NEW w \in Workers, NEW chunks, NEW index,
             Answer(s, w, "chunks", chunks, index),
             uuid = s, dropped \subseteq dropped',
             result' = NoScan \/ result' = s,
             ~ErrorPending(s) /\ s \notin dropped' /\ phase[s] \in {"prepared", "scanning"} =>
               /\ chunks = {} => Complete(s)'
               /\ result' = NoScan => Complete(s)'
               /\ result' = s => Chunks(s, 1, next' - 1) \subseteq Places(s)'
      PROVE  CompleteInv'
  <2>1. /\ UNCHANGED <<total, uuid, phase, needsMore>>
        /\ EmptyPending(s)' => EmptyPending(s) \/ chunks = {}
        /\ \A q \in Scans :
              /\ Places(q) \subseteq Places(q)' /\ Handed(q)' = Handed(q)
              /\ ErrorPending(q) => ErrorPending(q)'
              /\ q # s => (EmptyPending(q)' => EmptyPending(q))
    BY <1>0, <1>d, AnswerKeeps
  <2>2. \A q \in Scans \ {s} : CompleteAt(q)'
    BY <1>0, <1>d, <2>1, StaysAccounted
  <2>3. CompleteAt(s)
    BY DEF CompleteInv
  <2>4. phase'[s] = "ended" /\ s \notin dropped' => Chunks(s, 1, total[s]) \subseteq Handed(s)'
    BY <1>d, <2>1, <2>3 DEF CompleteAt
  <2>5. ASSUME s \notin dropped', phase'[s] \in {"prepared", "scanning"}, ~ErrorPending(s)'
        PROVE  Accounted(s)'
    <3>1. ~ErrorPending(s) /\ Accounted(s)
      BY <1>d, <2>1, <2>3, <2>5 DEF CompleteAt
    <3>2. Complete(s) => Complete(s)'
      BY <2>1 DEF Complete, Chunks
    <3>3. ~needsMore'[s] => Complete(s)'
      BY <2>1, <3>1, <3>2 DEF Accounted
    <3>4. EmptyPending(s)' => Complete(s)'
      BY <1>d, <2>1, <2>5, <3>1, <3>2 DEF Accounted
    <3>5. /\ result' = NoScan => Complete(s)'
          /\ result' = s => Chunks(s, 1, next' - 1) \subseteq Places(s)'
      BY <1>d, <2>1, <2>5, <3>1
    <3> QED
      BY <3>3, <3>4, <3>5 DEF Accounted, Chunks
  <2>6. CompleteAt(s)'
    BY <2>1, <2>4, <2>5 DEF CompleteAt, Chunks
  <2> QED
    BY <2>2, <2>6 DEF CompleteInv
<1>15. ASSUME NEW s \in Scans, NEW w \in Workers, FetchNothing(s, w) PROVE CompleteInv'
  <2>1. /\ uuid = s /\ result = NoScan /\ Answer(s, w, "chunks", {}, 0)
        /\ UNCHANGED <<result, next, dropped>>
    BY <1>15 DEF FetchNothing
  <2>2. Places(s) \subseteq Places(s)' /\ UNCHANGED total
    BY <1>0, <2>1, AnswerKeeps
  <2>3. ASSUME ~ErrorPending(s), s \notin dropped', phase[s] \in {"prepared", "scanning"}
        PROVE  Complete(s)'
    <3>1. Complete(s)
      BY <2>1, <2>3 DEF CompleteInv, CompleteAt, Accounted
    <3> QED
      BY <2>2, <3>1 DEF Complete, Chunks
  <2> QED
    BY <1>0, <1>d, <2>1, <2>3
<1>16. ASSUME NEW s \in Scans, NEW w \in Workers, Fetch(s, w) PROVE CompleteInv'
  <2> DEFINE n == Smaller(total[s] - next + 1, MaxBatch)
             new == Chunks(s, next, next + n - 1)
  <2>1. /\ uuid = s /\ result = s /\ next <= total[s] + 1 /\ next \in Nat /\ next >= 1
        /\ Answer(s, w, "chunks", new, nextBatch)
        /\ next' = next + n /\ dropped' = dropped
        /\ result' = IF n = MaxBatch THEN s ELSE NoScan
    BY <1>0, <1>16, <1>u DEF Fetch, Batch, ServerInv, TypeOK
  <2>2. n \in Nat /\ (n # MaxBatch => next + n - 1 = total[s]) /\ (n = MaxBatch => n > 0)
    BY <1>0, <2>1 DEF Smaller
  <2>3. /\ Places(s) \subseteq Places(s)' /\ UNCHANGED total /\ new \subseteq Places(s)'
    <3> HIDE DEF new
    <3> QED
      BY <1>0, <2>1, AnswerKeeps
  <2> HIDE DEF n
  <2>4. ASSUME ~ErrorPending(s), s \notin dropped', phase[s] \in {"prepared", "scanning"}
        PROVE  Chunks(s, 1, next + n - 1) \subseteq Places(s)'
    <3>1. Chunks(s, 1, next - 1) \subseteq Places(s)
      BY <2>1, <2>4 DEF CompleteInv, CompleteAt, Accounted
    <3>2. Chunks(s, 1, next + n - 1) = Chunks(s, 1, next - 1) \union new
      <4>1. 1..(next + n - 1) = (1..(next - 1)) \union (next..(next + n - 1))
        BY <2>1, <2>2
      <4> QED
        BY <4>1 DEF Chunks
    <3> QED
      BY <2>3, <3>1, <3>2
  <2>5. n # MaxBatch => (Chunks(s, 1, next + n - 1) \subseteq Places(s)' => Complete(s)')
    BY <2>2, <2>3 DEF Complete, Chunks
  <2>6. next' - 1 = next + n - 1
    BY <2>1, <2>2
  <2>7. new = {} => n # MaxBatch
    <3>1. n > 0 => <<s, next>> \in new
      BY <2>1, <2>2 DEF Chunks
    <3> QED
      BY <2>2, <3>1
  <2>8. n = MaxBatch => result' # NoScan
    BY <1>0, <2>1
  <2> HIDE DEF new
  <2>9. ASSUME ~ErrorPending(s), s \notin dropped', phase[s] \in {"prepared", "scanning"}
        PROVE  /\ new = {} => Complete(s)'
               /\ result' = NoScan => Complete(s)'
               /\ result' = s => Chunks(s, 1, next' - 1) \subseteq Places(s)'
    BY <2>4, <2>5, <2>6, <2>7, <2>8, <2>9
  <2> QED
    BY <1>d, <2>1, <2>9
<1>17. ASSUME NEW s \in Scans, NEW w \in Workers, FetchCut(s, w) PROVE CompleteInv'
  <2>1. /\ uuid = s /\ result' = NoScan
        /\ dropped' = dropped \union {s}
        /\ \E c, i : Answer(s, w, "chunks", c, i)
    BY <1>17, <1>u DEF FetchCut, DropResult
  <2> QED
    BY <1>d, <2>1
<1>18. CASE UNCHANGED vars
  <2>1. UNCHANGED <<total, uuid, result, next, phase, first, needsMore, reply, buffer, out, dropped>>
    BY <1>18 DEF vars
  <2>2. \A q \in Scans : CompleteAt(q)'
    BY <1>p, <2>1, StaysAccounted
  <2> QED
    BY <2>2 DEF CompleteInv
<1> QED
  BY <1>1, <1>2, <1>3, <1>4, <1>5, <1>6, <1>7, <1>8, <1>9, <1>10, <1>11, <1>12, <1>13,
     <1>14, <1>15, <1>16, <1>17, <1>18
     DEF Next, PrepareRequest, ScanStep, WorkerStep, FetchRequest

LEMMA CompleteInvHolds == Spec => [](PlaceInv /\ ScanInv /\ CompleteInv)
BY Init_PlaceInv, PlaceInv_Step, Init_CompleteInv, ScanInvStep, CompleteStep, PTL DEF Spec

\* A scan that ends without an error has handed every chunk of its result on,
\* unless the result was dropped under it, whichever worker met the end of the
\* result and whatever else was prepared on the connection meanwhile.
THEOREM NothingLostUnlessDropped == Spec => []EndedIsCompleteUnlessDropped
<1>1. CompleteInv => EndedIsCompleteUnlessDropped
  BY DEF CompleteInv, CompleteAt, EndedIsCompleteUnlessDropped
<1> QED
  BY <1>1, CompleteInvHolds, PTL

-----------------------------------------------------------------------------
(* The scans implement BatchSource.                                        *)

\* An open result is read by a scan that goes on and has yet to meet its end.
OpenAt(s) ==
    result = s =>
        /\ phase[s] \in {"prepared", "scanning"}
        /\ needsMore[s]
        /\ \A w \in Workers : reply[s][w].kind # "none" => reply[s][w].chunks # {}

OpenInv == \A s \in Scans : OpenAt(s)

\* Nobody is at work on a scan that has ended.
DoneInv ==
    \A s \in Scans : phase[s] = "ended" => \A w \in Workers : wpc[s][w] = "done"

\* Every action keeps DoneInv: a worker that is done stays so.
LEMMA DoneStep == TypeOK /\ DoneInv /\ [Next]_vars => DoneInv'
<1> SUFFICES ASSUME TypeOK, DoneInv, [Next]_vars PROVE DoneInv'
  OBVIOUS
<1> USE DEF serverVars, workerVars, SetPhase, SetWorker, Worker, Answer
<1>1. ASSUME NEW s \in Scans, PrepareRequest(s) \/ InitGlobal(s) PROVE DoneInv'
  <2>1. /\ phase[s] \in {"new", "prepared"}
        /\ \E p \in {"failed", "prepared", "scanning"} : phase' = [phase EXCEPT ![s] = p]
        /\ \A q \in Scans \ {s} : wpc'[q] = wpc[q]
    BY <1>1 DEF PrepareRequest, PrepareForbidden, PrepareFails, PrepareFirstBatchFails,
                Prepare, PrepareCut, InitGlobal, TypeOK
  <2>2. \A q \in Scans : phase'[q] = "ended" => q # s /\ phase[q] = "ended"
    BY <2>1 DEF TypeOK
  <2> QED
    BY <2>1, <2>2 DEF DoneInv
<1>2. ASSUME NEW s \in Scans, Ends(s) PROVE DoneInv'
  BY <1>2 DEF Ends, DoneInv, TypeOK
<1>3. ASSUME NEW s \in Scans, NEW w \in Workers, WorkerStep(s, w) \/ FetchRequest(s, w)
      PROVE  DoneInv'
  <2>1. wpc[s][w] # "done"
    BY <1>3 DEF WorkerStep, InitLocal, Emit, SendFetch, WorkerEnds, ReceiveError,
                ReceiveNothing, Receive, FetchRequest, FetchClosed, FetchNothing,
                FetchFails, Fetch, Batch, FetchCut
  <2>2. /\ phase' = phase \/ phase' = [phase EXCEPT ![s] = "failed"]
        /\ \A q \in Scans \ {s} : wpc'[q] = wpc[q]
    BY <1>3 DEF WorkerStep, InitLocal, Emit, SendFetch, WorkerEnds, ReceiveError,
                ReceiveNothing, Receive, FetchRequest, FetchClosed, FetchNothing,
                FetchFails, Fetch, Batch, FetchCut, TypeOK
  <2>3. phase[s] # "ended"
    BY <2>1 DEF DoneInv
  <2>4. \A q \in Scans : phase'[q] = "ended" => q # s /\ phase[q] = "ended"
    BY <2>2, <2>3 DEF TypeOK
  <2> QED
    BY <2>2, <2>4 DEF DoneInv
<1>4. CASE UNCHANGED vars
  BY <1>4 DEF vars, DoneInv
<1> QED
  BY <1>1, <1>2, <1>3, <1>4 DEF Next, ScanStep

\* A batch that is not the last one has chunks.
LEMMA FullBatch ==
  ASSUME NEW s \in Scans, NEW a \in Nat, NEW n \in Nat, n > 0
  PROVE  Chunks(s, a, a + n - 1) # {}
<1>1. <<s, a>> \in Chunks(s, a, a + n - 1)
  BY DEF Chunks
<1> QED
  BY <1>1

\* Every action keeps OpenInv: who sets the result aside, ends a scan or clears
\* needs_more_fetch does it when the result is gone.
LEMMA OpenStep == PlaceInv /\ ScanInv /\ OpenInv /\ [Next]_vars => OpenInv'
<1> SUFFICES ASSUME PlaceInv, ScanInv, OpenInv, [Next]_vars PROVE OpenInv'
  OBVIOUS
<1> USE ScanAssumption DEF ScanAssumption, serverVars, workerVars, SetPhase, SetWorker, Worker, DropResult, Answer, NoReply
<1>t. TypeOK /\ ServerInv /\ WorkerInv
  BY DEF PlaceInv
<1>n. \A s \in Scans : total[s] \in Nat
  BY <1>t DEF TypeOK
<1>1. ASSUME NEW s \in Scans, PrepareForbidden(s) PROVE OpenInv'
  BY <1>1, <1>t DEF PrepareForbidden, OpenInv, OpenAt, TypeOK
<1>2. ASSUME NEW s \in Scans,
             PrepareFails(s) \/ PrepareFirstBatchFails(s) \/ PrepareCut(s)
      PROVE  OpenInv'
  <2>1. result' = NoScan
    BY <1>2 DEF PrepareFails, PrepareFirstBatchFails, PrepareCut
  <2> QED
    BY <2>1 DEF OpenInv, OpenAt
<1>3. ASSUME NEW s \in Scans, Prepare(s) PROVE OpenInv'
  <2> DEFINE n == Smaller(total[s], MaxBatch)
  <2>1. /\ result' = IF n = MaxBatch THEN s ELSE NoScan
        /\ needsMore' = [needsMore EXCEPT ![s] = n = MaxBatch]
        /\ phase' = [phase EXCEPT ![s] = "prepared"]
        /\ UNCHANGED <<reply, wpc>> /\ phase[s] = "new"
    BY <1>3 DEF Prepare
  <2> HIDE DEF n
  <2>2. CASE n # MaxBatch
    BY <2>1, <2>2 DEF OpenInv, OpenAt
  <2>3. CASE n = MaxBatch
    <3>1. needsMore'[s] = TRUE
      BY <2>1, <2>3, <1>t DEF TypeOK
    <3>2. phase'[s] = "prepared" /\ result' = s
      BY <2>1, <2>3, <1>t DEF TypeOK
    <3>3. \A w \in Workers : reply'[s][w].kind = "none"
      BY <2>1, <1>t DEF TypeOK, WorkerInv
    <3> QED
      BY <3>1, <3>2, <3>3 DEF OpenInv, OpenAt
  <2> QED
    BY <2>2, <2>3
<1>4. ASSUME NEW s \in Scans, InitGlobal(s) PROVE OpenInv'
  BY <1>4, <1>t DEF InitGlobal, OpenInv, OpenAt, TypeOK
<1>5. ASSUME NEW s \in Scans, Ends(s) PROVE OpenInv'
  <2>1. ~needsMore[s]
    BY <1>5 DEF Ends, ScanInv, ScanAt
  <2> QED
    BY <1>5, <1>t, <2>1 DEF Ends, OpenInv, OpenAt, TypeOK
<1>6. ASSUME NEW s \in Scans, NEW w \in Workers,
             InitLocal(s, w) \/ Emit(s, w) \/ SendFetch(s, w) \/ WorkerEnds(s, w)
      PROVE  OpenInv'
  BY <1>6 DEF InitLocal, Emit, SendFetch, WorkerEnds, OpenInv, OpenAt
<1>7. ASSUME NEW s \in Scans, NEW w \in Workers,
             ReceiveError(s, w) \/ ReceiveNothing(s, w)
      PROVE  OpenInv'
  <2>1. reply[s][w].kind # "none" /\ reply[s][w].chunks = {}
    BY <1>7, <1>t DEF ReceiveError, ReceiveNothing, WorkerInv
  <2>2. result # s
    BY <2>1 DEF OpenInv, OpenAt
  <2>3. /\ UNCHANGED result
        /\ \A q \in Scans \ {s} : UNCHANGED <<phase[q], needsMore[q], reply[q]>>
    BY <1>7, <1>t DEF ReceiveError, ReceiveNothing, TypeOK
  <2> QED
    BY <2>2, <2>3 DEF OpenInv, OpenAt
<1>8. ASSUME NEW s \in Scans, NEW w \in Workers, Receive(s, w) PROVE OpenInv'
  BY <1>8, <1>t DEF Receive, OpenInv, OpenAt, TypeOK
<1>9. ASSUME NEW s \in Scans, NEW w \in Workers, FetchClosed(s, w) PROVE OpenInv'
  <2>1. result # s
    BY <1>9, <1>t DEF FetchClosed, ServerInv
  <2>2. /\ UNCHANGED <<result, phase, needsMore>>
        /\ \A q \in Scans \ {s} : UNCHANGED reply[q]
    BY <1>9, <1>t DEF FetchClosed, TypeOK
  <2> QED
    BY <2>1, <2>2 DEF OpenInv, OpenAt
<1>10. ASSUME NEW s \in Scans, NEW w \in Workers,
              FetchNothing(s, w) \/ FetchFails(s, w) \/ FetchCut(s, w)
       PROVE  OpenInv'
  <2>1. result' = NoScan
    BY <1>10 DEF FetchNothing, FetchFails, FetchCut
  <2> QED
    BY <2>1 DEF OpenInv, OpenAt
<1>11. ASSUME NEW s \in Scans, NEW w \in Workers, Fetch(s, w) PROVE OpenInv'
  <2> DEFINE n == Smaller(total[s] - next + 1, MaxBatch)
             new == Chunks(s, next, next + n - 1)
  <2>1. /\ result = s /\ next \in Nat /\ next <= total[s] + 1
        /\ Answer(s, w, "chunks", new, nextBatch)
        /\ result' = IF n = MaxBatch THEN s ELSE NoScan
    BY <1>11, <1>t DEF Fetch, Batch, ServerInv, TypeOK
  <2>2. n \in Nat
    BY <1>n, <2>1 DEF Smaller
  <2> HIDE DEF n
  <2>3. n = MaxBatch => new # {}
    BY <2>1, <2>2, FullBatch
  <2> HIDE DEF new
  <2>4. /\ UNCHANGED <<phase, needsMore>>
        /\ reply' = [reply EXCEPT ![s][w] =
                       [kind |-> "chunks", chunks |-> new, index |-> nextBatch]]
    BY <2>1
  <2> QED
    BY <2>1, <2>3, <2>4, <1>t DEF OpenInv, OpenAt, TypeOK
<1>12. CASE UNCHANGED vars
  BY <1>12 DEF vars, OpenInv, OpenAt
<1> QED
  BY <1>1, <1>2, <1>3, <1>4, <1>5, <1>6, <1>7, <1>8, <1>9, <1>10, <1>11, <1>12
     DEF Next, PrepareRequest, ScanStep, WorkerStep, FetchRequest

States == [s \in Scans |-> Seen(s)]

\* What a step leaves alone, the query that reads the scans does not see.
LEMMA UnseenByQuery ==
  ASSUME UNCHANGED <<total, out, dropped>>,
         \A s \in Scans : Seen(s)' = Seen(s)
  PROVE  UNCHANGED Source!sourceVars
BY DEF Source!sourceVars

\* A scan that ends or fails does so for the query.
LEMMA StateTurns ==
  ASSUME PlaceInv, NEW s \in Scans, NEW p \in {"ended", "failed"},
         phase[s] \notin {"ended", "failed"},
         phase' = [phase EXCEPT ![s] = p]
  PROVE  States[s] = "open" /\ States' = [States EXCEPT ![s] = p]
BY DEF PlaceInv, TypeOK, States, Seen

\* The chunk a worker hands on is one more of its scan's result, and its index
\* tells where it belongs: what BatchOrder says of the two once both have been
\* handed on is what Give asks for before.
LEMMA EmitGives ==
  ASSUME NEW s \in Scans, NEW w \in Workers, Emit(s, w),
         PlaceInv, BatchInv, BatchOrder, BatchOrder'
  PROVE  Source!Give(s, w)
<1> USE DEF AnyChunk
<1>1. PICK c \in buffer[s][w] :
        out' = [out EXCEPT ![s][w] =
                  @ \union {[chunk |-> c, index |-> batch[s][w]]}]
  BY DEF Emit
<1> DEFINE n == c[2]
           i == batch[s][w]
           new == [chunk |-> c, index |-> i]
<1>2. /\ c \in Chunks(s, 1, total[s]) /\ total[s] \in Nat /\ i \in Nat
      /\ \A v \in Workers : out[s][v] \subseteq [chunk : AnyChunk, index : Nat]
  <2>1. total[s] \in Nat
    BY ScanAssumption DEF PlaceInv, TypeOK, ScanAssumption
  <2>2. i \in Nat
    BY DEF PlaceInv, TypeOK
  <2>3. \A v \in Workers : out[s][v] \subseteq [chunk : AnyChunk, index : Nat]
    BY DEF PlaceInv, TypeOK
  <2>4. c \in Chunks(s, 1, total[s])
    BY <1>1 DEF PlaceInv, OwnChunks, Holds
  <2> QED
    BY <2>1, <2>2, <2>3, <2>4
<1>3. c = <<s, n>> /\ n \in 1..total[s]
  <2>1. c \in {s} \X (1..total[s])
    BY <1>2 DEF Chunks
  <2> HIDE DEF n
  <2>2. PICK m \in 1..total[s] : c = <<s, m>>
    BY <2>1
  <2> QED
    BY <2>2 DEF n
<1>4. i * MaxBatch < n
  <2>1. new \in Tagged(s, w)
    BY <1>1 DEF Tagged, Tag
  <2>2. InBatch(new)
    BY <2>1 DEF BatchInv, BatchAt
  <2> QED
    BY <2>2 DEF InBatch
<1>5. i \in 0..total[s]
  <2>1. MaxBatch \in Nat /\ MaxBatch >= 1
    BY ScanAssumption DEF ScanAssumption
  <2>2. i <= i * MaxBatch
    BY <1>2, <2>1
  <2> QED
    BY <1>2, <1>3, <1>4, <2>1, <2>2
<1>6. new \in out'[s][w] /\ \A v \in Workers : out[s][v] \subseteq out'[s][v]
  BY <1>1 DEF PlaceInv, TypeOK
<1>7. ASSUME NEW v \in Workers, NEW g \in out[s][v]
      PROVE  \/ g.index < i /\ g.chunk[2] < n
             \/ g.index = i /\ g.chunk[2] < n /\ v = w
             \/ g.index > i /\ g.chunk[2] > n /\ v # w
  <2>1. g.index \in Nat /\ g.chunk[2] \in Nat /\ n \in Nat /\ g \in out'[s][v]
    BY <1>2, <1>3, <1>6
  <2>2. /\ g.index < i => g.chunk[2] < n
        /\ i < g.index => n < g.chunk[2]
        /\ g.index = i => v = w
    BY <1>6, <2>1 DEF BatchOrder
  <2>3. v = w => g.chunk[2] < n
    BY <1>1, <2>1 DEF BatchOrder
  <2> HIDE DEF n, i
  <2> QED
    BY <1>2, <2>1, <2>2, <2>3
<1>8. Source!Fits(s, w, n, i)
  BY <1>7 DEF Source!Fits
<1>9. /\ phase[s] = "scanning"
      /\ UNCHANGED <<total, phase, dropped>>
  BY DEF Emit
<1>10. Seen(s) = "open" /\ \A q \in Scans : Seen(q)' = Seen(q)
  BY <1>9 DEF Seen
<1> QED
  BY <1>1, <1>3, <1>5, <1>8, <1>9, <1>10 DEF Source!Give

\* What holds of the scans wherever they are.
SourceInv ==
    /\ PlaceInv /\ BatchInv /\ ScanInv /\ OpenInv /\ DoneInv
    /\ BatchOrder /\ EndedIsCompleteUnlessDropped

LEMMA SourceInvHolds == Spec => []SourceInv
<1>1. Init => OpenInv
  BY ScanAssumption DEF Init, OpenInv, OpenAt, ScanAssumption
<1>2. Spec => []OpenInv
  BY <1>1, OpenStep, PlaceInvHolds, CompleteInvHolds, PTL DEF Spec
<1>3. Init => DoneInv
  BY DEF Init, DoneInv
<1>4. Spec => []DoneInv
  BY <1>3, DoneStep, TypeCorrect, PTL DEF Spec
<1> QED
  BY <1>2, <1>4, BatchInvHolds, CompleteInvHolds, BatchesInOrder,
     NothingLostUnlessDropped, PTL DEF SourceInv

\* Before a query reads from a scan the scan has handed on nothing.
LEMMA InitSource == Init => Source!SourceInit
<1> SUFFICES ASSUME Init PROVE Source!SourceInit
  OBVIOUS
<1>1. total \in [Scans -> Nat]
  <2>1. \A s \in Scans : total[s] \in Nat
    BY ScanAssumption DEF Init, ScanAssumption
  <2>2. total = [s \in Scans |-> total[s]]
    BY DEF Init
  <2> QED
    BY <2>1, <2>2
<1>2. \A s \in Scans : Seen(s) = "open"
  BY DEF Init, Seen
<1> QED
  BY <1>1, <1>2 DEF Init, Source!SourceInit

\* A PREPARE is nothing to the query before it hands chunks on; but when it
\* fails the open result of another scan may go with it.
LEMMA PrepareSource ==
  ASSUME SourceInv, NEW s \in Scans, PrepareRequest(s)
  PROVE  Source!SourceNext \/ UNCHANGED Source!sourceVars
<1> USE DEF SourceInv, SetPhase, workerVars
<1>p. phase[s] = "new" /\ phase \in [Scans -> {"new", "prepared", "scanning", "ended", "failed"}]
  BY DEF PrepareRequest, PrepareForbidden, PrepareFails, PrepareFirstBatchFails,
         Prepare, PrepareCut, PlaceInv, TypeOK
<1>1. CASE PrepareForbidden(s) \/ PrepareFirstBatchFails(s)
  <2>1. phase' = [phase EXCEPT ![s] = "failed"] /\ UNCHANGED <<total, out, dropped>>
    BY <1>1 DEF PrepareForbidden, PrepareFirstBatchFails
  <2>2. States[s] = "open" /\ States' = [States EXCEPT ![s] = "failed"]
    BY <1>p, <2>1, StateTurns
  <2> QED
    BY <2>1, <2>2 DEF Source!SourceNext, Source!Fail, States
<1>2. CASE PrepareFails(s)
  <2>1. phase' = [phase EXCEPT ![s] = "failed"] /\ UNCHANGED <<total, out>>
    BY <1>2 DEF PrepareFails
  <2>2. States[s] = "open" /\ States' = [States EXCEPT ![s] = "failed"]
    BY <1>p, <2>1, StateTurns
  <2>3. dropped' = dropped \/ \E r \in Scans \ {s} : Source!Lose(r)
    <3>1. CASE result = NoScan
      BY <1>2, <3>1 DEF PrepareFails, DropResult
    <3>2. CASE result # NoScan
      <4>1. PICK r \in Scans : r = result
        BY <3>2 DEF PlaceInv, TypeOK
      <4>2. r # s /\ phase[r] \in {"prepared", "scanning"}
        BY <1>p, <4>1 DEF OpenInv, OpenAt
      <4>3. dropped' = dropped \/ dropped' = dropped \union {r}
        BY <1>2, <4>1 DEF PrepareFails, DropResult
      <4>4. States[r] = "open"
        BY <4>2 DEF States, Seen
      <4> QED
        BY <4>2, <4>3, <4>4 DEF Source!Lose, States
    <3> QED
      BY <3>1, <3>2
  <2> QED
    BY <2>1, <2>2, <2>3 DEF Source!SourceNext, Source!Fail, States
<1>3. CASE Prepare(s) \/ PrepareCut(s)
  <2>1. phase' = [phase EXCEPT ![s] = "prepared"] /\ UNCHANGED <<total, out>>
    BY <1>3 DEF Prepare, PrepareCut
  <2>2. \A q \in Scans : Seen(q)' = Seen(q)
    BY <1>p, <2>1 DEF Seen
  <2>3. CASE dropped' = dropped
    BY <2>1, <2>2, <2>3, UnseenByQuery
  <2>4. CASE dropped' = dropped \union {s}
    <3>1. States[s] = "open" /\ States' = States
      BY <1>p, <2>2 DEF States, Seen
    <3> QED
      BY <2>1, <2>4, <3>1
         DEF Source!SourceNext, Source!LoseOnly, Source!Lose, States
  <2> QED
    BY <1>3, <2>3, <2>4 DEF Prepare, PrepareCut
<1> QED
  BY <1>1, <1>2, <1>3 DEF PrepareRequest

\* The server's answers to FETCH change nothing the query sees, except that an
\* interrupt loses the rest of the result.
LEMMA FetchSource ==
  ASSUME SourceInv, NEW s \in Scans, NEW w \in Workers, FetchRequest(s, w)
  PROVE  Source!SourceNext \/ UNCHANGED Source!sourceVars
<1> USE DEF SourceInv, Answer
<1>1. UNCHANGED <<total, phase, out>>
  BY DEF FetchRequest, FetchClosed, FetchNothing, FetchFails, Fetch, Batch, FetchCut
<1>2. \A q \in Scans : Seen(q)' = Seen(q)
  BY <1>1 DEF Seen
<1>3. CASE dropped' = dropped
  BY <1>1, <1>2, <1>3, UnseenByQuery
<1>4. CASE FetchCut(s, w)
  <2>1. result = s
    BY <1>4 DEF FetchCut, PlaceInv, ServerInv
  <2>2. dropped' = dropped \/ dropped' = dropped \union {s}
    BY <1>4, <2>1 DEF FetchCut, DropResult
  <2>3. States[s] = "open" /\ States' = States
    BY <1>2, <2>1 DEF OpenInv, OpenAt, States, Seen
  <2> QED
    BY <1>1, <1>3, <2>2, <2>3
       DEF Source!SourceNext, Source!LoseOnly, Source!Lose, States
<1> QED
  BY <1>3, <1>4 DEF FetchRequest, FetchClosed, FetchNothing, FetchFails, Fetch, Batch

\* A worker gives with Emit only, and fails the scan with an error it receives.
LEMMA WorkerSource ==
  ASSUME SourceInv, BatchOrder', NEW s \in Scans, NEW w \in Workers, WorkerStep(s, w)
  PROVE  Source!SourceNext \/ UNCHANGED Source!sourceVars
<1> USE DEF SourceInv, serverVars, workerVars, Worker, SetWorker, SetPhase
<1>1. CASE Emit(s, w)
  BY <1>1, EmitGives DEF Source!SourceNext
<1>2. CASE ReceiveError(s, w)
  <2>1. phase' = [phase EXCEPT ![s] = "failed"] /\ UNCHANGED <<total, out, dropped>>
    BY <1>2 DEF ReceiveError
  <2>2. CASE phase[s] \in {"ended", "failed"}
    <3>1. phase[s] = "failed"
      BY <1>2, <2>2 DEF ReceiveError, DoneInv
    <3>2. \A q \in Scans : Seen(q)' = Seen(q)
      BY <2>1, <3>1 DEF Seen, PlaceInv, TypeOK
    <3> QED
      BY <2>1, <3>2, UnseenByQuery
  <2>3. CASE phase[s] \notin {"ended", "failed"}
    <3>1. States[s] = "open" /\ States' = [States EXCEPT ![s] = "failed"]
      BY <2>1, <2>3, StateTurns
    <3> QED
      BY <2>1, <3>1 DEF Source!SourceNext, Source!Fail, States
  <2> QED
    BY <2>2, <2>3
<1>3. CASE InitLocal(s, w) \/ SendFetch(s, w) \/ WorkerEnds(s, w)
           \/ ReceiveNothing(s, w) \/ Receive(s, w)
  <2>1. UNCHANGED <<total, phase, out, dropped>>
    BY <1>3 DEF InitLocal, SendFetch, WorkerEnds, ReceiveNothing, Receive
  <2>2. \A q \in Scans : Seen(q)' = Seen(q)
    BY <2>1 DEF Seen
  <2> QED
    BY <2>1, <2>2, UnseenByQuery
<1> QED
  BY <1>1, <1>2, <1>3 DEF WorkerStep

\* A scan ends when all of its result has been given, unless it was lost.
LEMMA EndSource ==
  ASSUME SourceInv, EndedIsCompleteUnlessDropped', NEW s \in Scans, Ends(s)
  PROVE  Source!End(s)
<1> USE DEF Ends, SetPhase, workerVars, SourceInv
<1>1. States[s] = "open" /\ States' = [States EXCEPT ![s] = "ended"]
  BY StateTurns
<1>2. phase'[s] = "ended" /\ UNCHANGED <<total, out, dropped>>
  BY DEF PlaceInv, TypeOK
<1>3. s \in dropped \/ Source!All(s)
  <2> SUFFICES ASSUME s \notin dropped PROVE Source!All(s)
    OBVIOUS
  <2>1. Chunks(s, 1, total[s]) \subseteq Handed(s)
    BY <1>2 DEF EndedIsCompleteUnlessDropped, Chunks, Handed
  <2>2. \A n \in 1..total[s] : <<s, n>> \in Handed(s)
    BY <2>1 DEF Chunks
  <2>3. ASSUME NEW n \in 1..total[s]
        PROVE  \E w \in Workers : \E g \in out[s][w] : g.chunk = <<s, n>>
    <3>1. PICK w \in Workers : <<s, n>> \in {o.chunk : o \in out[s][w]}
      BY <2>2 DEF Handed
    <3> QED
      BY <3>1
  <2> QED
    BY <2>3 DEF Source!All
<1> QED
  BY <1>1, <1>2, <1>3 DEF Source!End, States

\* The parallel scans of a connection keep the promise of BatchSource, for any
\* scans, sizes, workers and batch size: sessions, FETCH requests and local
\* queues together hand every chunk on once and in an order DuckDB can restore,
\* however the PREPAREs of other statements replace the result meanwhile.
THEOREM Refinement == Spec => ImplementsBatchSource
<1>1. SourceInv /\ SourceInv' /\ [Next]_vars => [Source!SourceNext]_(Source!sourceVars)
  <2> SUFFICES ASSUME SourceInv, SourceInv', [Next]_vars
               PROVE  Source!SourceNext \/ UNCHANGED Source!sourceVars
    OBVIOUS
  <2>0. BatchOrder' /\ EndedIsCompleteUnlessDropped'
    BY DEF SourceInv
  <2>1. ASSUME NEW s \in Scans, InitGlobal(s)
        PROVE  UNCHANGED Source!sourceVars
    <3>1. /\ phase[s] = "prepared" /\ phase' = [phase EXCEPT ![s] = "scanning"]
          /\ UNCHANGED <<total, out, dropped>>
      BY <2>1 DEF InitGlobal, SetPhase
    <3>2. \A q \in Scans : Seen(q)' = Seen(q)
      BY <3>1 DEF Seen, SourceInv, PlaceInv, TypeOK
    <3> QED
      BY <3>1, <3>2, UnseenByQuery
  <2>2. ASSUME NEW s \in Scans, Ends(s)
        PROVE  Source!SourceNext
    BY <2>0, <2>2, EndSource DEF Source!SourceNext
  <2>3. CASE UNCHANGED vars
    <3>1. UNCHANGED <<total, phase, out, dropped>>
      BY <2>3 DEF vars, workerVars
    <3> QED
      BY <3>1, UnseenByQuery DEF Seen
  <2> QED
    BY <2>0, <2>1, <2>2, <2>3, PrepareSource, FetchSource, WorkerSource
       DEF Next, ScanStep
<1> QED
  BY <1>1, InitSource, SourceInvHolds, PTL DEF Spec, ImplementsBatchSource, Source!SourceSpec

=============================================================================
