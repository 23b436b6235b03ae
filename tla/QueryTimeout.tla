---------------------------- MODULE QueryTimeout ----------------------------
(***************************************************************************)
(* One query at a time on a pooled session, and the three threads that     *)
(* meet on it: the /sql handler that runs the query under a                *)
(* QueryExecutionGuard, the timeout sweeper of the SessionManager, and the *)
(* handlers that cancel by session id.  The atomics of HarborSession are   *)
(* separate variables and every load or store of one is a step of its own, *)
(* because the code takes no lock around them.                             *)
(***************************************************************************)
EXTENDS Integers

CONSTANTS
    Sessions,    \* the sessions of the pool
    Requests,    \* handler threads that can be inside POST /sql
    Cancels,     \* handler threads that can be inside /sql/cancel or /interrupt
    NoSession, NoRequest,
    Timeouts,    \* values harbor_query_timeout_s may have when a query starts
    MaxClock,    \* bound: last tick of the steady clock
    MaxQueries   \* bound: guards constructed on one session

ASSUME ConstantsAssumption ==
    /\ NoSession \notin Sessions
    /\ NoRequest \notin Requests
    /\ Timeouts \subseteq Nat
    /\ MaxClock \in Nat
    /\ MaxQueries \in Nat

VARIABLES
    clock,        \* steady_clock
    registered,   \* keys of SessionManager::active
    lock,         \* HarborSession::lock: the request that owns it
    gen,          \* query_generation
    deadline,     \* query_deadline_ms, 0 when there is none
    inFlight,     \* query_in_flight
    cause,        \* interrupt_cause
    timedOut,     \* timed_out_generation
    interrupted,  \* the connection's interrupt flag (DuckDB)
    pc, sess, mine, shape, seen, outcome,  \* a /sql request
    spc, todo, now, cur, mark,             \* the sweeper
    cpc, csess, caim,                      \* a canceller
    causeGen,     \* history: generation in which the last cause was recorded
    observed,     \* history: generation whose deadline the sweeper last found
                  \* overdue
    hits,         \* history: generations aimed at by the interrupts that
                  \* landed since the running query started
    cutBy         \* history: hits when the request's fetch came back cut

sessionVars == <<registered, lock, gen, deadline, inFlight, cause, timedOut,
                 interrupted>>
requestVars == <<pc, sess, mine, shape, seen, outcome>>
sweepVars   == <<spc, todo, now, cur, mark>>
cancelVars  == <<cpc, csess, caim>>
historyVars == <<causeGen, observed, hits, cutBy>>
vars == <<clock, sessionVars, requestVars, sweepVars, cancelVars, historyVars>>

Shapes   == {"write", "json", "ndjson"}
Outcomes == {"none", "ok", "timeout", "cancelled", "error", "gone"}

\* What the last Execute or Fetch gave: a natural end, an empty chunk because
\* of an interrupt, an error, the row cap, or a client that went away.
Seen == {"none", "end", "cut", "error", "cap", "gone"}

RequestPC == {"idle", "resolved", "admitted", "bumped", "cleared", "armed",
              "guarded", "executing", "fetching", "failed", "classify",
              "readCause", "answered", "disarmed", "unguarded"}

\* Between the first store of the guard's constructor and the last store of
\* its destructor.
UnderGuard == {"bumped", "cleared", "armed", "guarded", "executing",
               "fetching", "failed", "classify", "readCause", "answered",
               "disarmed"}
Locked == UnderGuard \union {"admitted", "unguarded"}

Init ==
    /\ clock = 0
    /\ registered = Sessions
    /\ lock = [s \in Sessions |-> NoRequest]
    /\ gen = [s \in Sessions |-> 0]
    /\ deadline = [s \in Sessions |-> 0]
    /\ inFlight = [s \in Sessions |-> FALSE]
    /\ cause = [s \in Sessions |-> "NONE"]
    /\ timedOut = [s \in Sessions |-> 0]
    /\ interrupted = [s \in Sessions |-> FALSE]
    /\ pc = [r \in Requests |-> "idle"]
    /\ sess = [r \in Requests |-> NoSession]
    /\ mine = [r \in Requests |-> 0]
    /\ shape = [r \in Requests |-> "json"]
    /\ seen = [r \in Requests |-> "none"]
    /\ outcome = [r \in Requests |-> "none"]
    /\ spc = "sleep"
    /\ todo = {}
    /\ now = 0
    /\ cur = NoSession
    /\ mark = 0
    /\ cpc = [c \in Cancels |-> "idle"]
    /\ csess = [c \in Cancels |-> NoSession]
    /\ caim = [c \in Cancels |-> 0]
    /\ causeGen = [s \in Sessions |-> 0]
    /\ observed = [s \in Sessions |-> 0]
    /\ hits = [s \in Sessions |-> {}]
    /\ cutBy = [r \in Requests |-> {}]

-----------------------------------------------------------------------------
(* POST /sql on a named session.                                           *)

Goto(r, l) == pc' = [pc EXCEPT ![r] = l]

Step(r, from, to) == pc[r] = from /\ Goto(r, to)

\* The handler returns: its response is out and its shared_ptr is dropped.
Return(r) ==
    /\ Goto(r, "idle")
    /\ sess' = [sess EXCEPT ![r] = NoSession]
    /\ mine' = [mine EXCEPT ![r] = 0]
    /\ shape' = [shape EXCEPT ![r] = "json"]
    /\ seen' = [seen EXCEPT ![r] = "none"]
    /\ outcome' = [outcome EXCEPT ![r] = "none"]
    /\ cutBy' = [cutBy EXCEPT ![r] = {}]

\* ResolveSession finds the session in the map and takes a reference.
Resolve(r, s) ==
    /\ Step(r, "idle", "resolved")
    /\ s \in registered
    /\ sess' = [sess EXCEPT ![r] = s]
    /\ UNCHANGED <<clock, sessionVars, mine, shape, seen, outcome, sweepVars,
                   cancelVars, historyVars>>

TryLock(r) ==
    /\ Step(r, "resolved", "admitted")
    /\ lock[sess[r]] = NoRequest
    /\ lock' = [lock EXCEPT ![sess[r]] = r]
    /\ UNCHANGED <<clock, registered, gen, deadline, inFlight, cause, timedOut,
                   interrupted, sess, mine, shape, seen, outcome, sweepVars,
                   cancelVars, historyVars>>

\* 409 SESSION_BUSY: the handler does not wait.
Busy(r) ==
    /\ pc[r] = "resolved"
    /\ lock[sess[r]] # NoRequest
    /\ Return(r)
    /\ UNCHANGED <<clock, sessionVars, sweepVars, cancelVars, causeGen,
                   observed, hits>>

\* Every early return between the lock and the guard: authorization, parse
\* error, several statements, prepare error, bad parameters.
Reject(r) ==
    /\ pc[r] = "admitted"
    /\ lock' = [lock EXCEPT ![sess[r]] = NoRequest]
    /\ Return(r)
    /\ UNCHANGED <<clock, registered, gen, deadline, inFlight, cause, timedOut,
                   interrupted, sweepVars, cancelVars, causeGen, observed,
                   hits>>

\* The four stores of the guard's constructor, in its order.
GuardGeneration(r) ==
    LET s == sess[r] IN
    /\ Step(r, "admitted", "bumped")
    /\ gen[s] < MaxQueries
    /\ gen' = [gen EXCEPT ![s] = @ + 1]
    /\ mine' = [mine EXCEPT ![r] = gen[s] + 1]
    /\ UNCHANGED <<clock, registered, lock, deadline, inFlight, cause,
                   timedOut, interrupted, sess, shape, seen, outcome,
                   sweepVars, cancelVars, historyVars>>

\* Slip: the constructor leaves the cause of the previous query.
GuardKeepsCause(r) ==
    /\ Step(r, "bumped", "cleared")
    /\ UNCHANGED <<clock, sessionVars, sess, mine, shape, seen, outcome,
                   sweepVars, cancelVars, historyVars>>

GuardCause(r) ==
    /\ Step(r, "bumped", "cleared")
    /\ cause' = [cause EXCEPT ![sess[r]] = "NONE"]
    /\ UNCHANGED <<clock, registered, lock, gen, deadline, inFlight, timedOut,
                   interrupted, sess, mine, shape, seen, outcome, sweepVars,
                   cancelVars, historyVars>>

GuardDeadline(r) ==
    /\ Step(r, "cleared", "armed")
    /\ \E t \in Timeouts :
         deadline' = [deadline EXCEPT ![sess[r]] =
                        IF t > 0 THEN clock + t ELSE 0]
    /\ UNCHANGED <<clock, registered, lock, gen, inFlight, cause, timedOut,
                   interrupted, sess, mine, shape, seen, outcome, sweepVars,
                   cancelVars, historyVars>>

GuardInFlight(r) ==
    /\ Step(r, "armed", "guarded")
    /\ inFlight' = [inFlight EXCEPT ![sess[r]] = TRUE]
    /\ UNCHANGED <<clock, registered, lock, gen, deadline, cause, timedOut,
                   interrupted, sess, mine, shape, seen, outcome, sweepVars,
                   cancelVars, historyVars>>

\* DuckDB drops a pending interrupt when it starts a statement.
ExecuteStart(r) ==
    /\ Step(r, "guarded", "executing")
    /\ interrupted' = [interrupted EXCEPT ![sess[r]] = FALSE]
    /\ hits' = [hits EXCEPT ![sess[r]] = {}]
    /\ UNCHANGED <<clock, registered, lock, gen, deadline, inFlight, cause,
                   timedOut, sess, mine, shape, seen, outcome, sweepVars,
                   cancelVars, causeGen, observed, cutBy>>

\* Execute fails (of its own accord or because it was interrupted) ...
ExecuteFails(r) ==
    /\ Step(r, "executing", "failed")
    /\ UNCHANGED <<clock, sessionVars, sess, mine, shape, seen, outcome,
                   sweepVars, cancelVars, historyVars>>

\* ... or returns a result, and the statement and the Accept header choose the
\* shape of the response.
ExecuteReturns(r) ==
    /\ Step(r, "executing", "fetching")
    /\ \E h \in Shapes : shape' = [shape EXCEPT ![r] = h]
    /\ UNCHANGED <<clock, sessionVars, sess, mine, seen, outcome, sweepVars,
                   cancelVars, historyVars>>

\* 504 when the generation is marked, 400 otherwise.
AnswerFailed(r) ==
    /\ Step(r, "failed", "answered")
    /\ outcome' = [outcome EXCEPT ![r] =
                     IF timedOut[sess[r]] = mine[r] THEN "timeout" ELSE "error"]
    /\ UNCHANGED <<clock, sessionVars, sess, mine, shape, seen, sweepVars,
                   cancelVars, historyVars>>

\* The fetch loop ends.  A fetch that yields a full chunk only goes round the
\* loop and is not a step.  An interrupted stream gives an empty chunk or an
\* exception; only a stream sees its client go; only the SELECT shapes have a
\* row cap.
Fetch(r) ==
    /\ Step(r, "fetching", "classify")
    /\ \E e \in Seen \ {"none"} :
         /\ e = "cut"  => interrupted[sess[r]]
         /\ e = "gone" => shape[r] = "ndjson"
         /\ e = "cap"  => shape[r] # "write"
         /\ seen' = [seen EXCEPT ![r] = e]
         /\ cutBy' = [cutBy EXCEPT ![r] = IF e = "cut" THEN hits[sess[r]] ELSE {}]
    /\ UNCHANGED <<clock, sessionVars, sess, mine, shape, outcome, sweepVars,
                   cancelVars, causeGen, observed, hits>>

\* The write shape swallows a failed fetch, the JSON shape asks TimedOut()
\* only after an exception.
AnswerOneShot(r) ==
    /\ shape[r] \in {"write", "json"}
    /\ Step(r, "classify", "answered")
    /\ outcome' = [outcome EXCEPT ![r] =
                     IF shape[r] = "write" \/ seen[r] # "error" THEN "ok"
                     ELSE IF timedOut[sess[r]] = mine[r] THEN "timeout"
                     ELSE "error"]
    /\ UNCHANGED <<clock, sessionVars, sess, mine, shape, seen, sweepVars,
                   cancelVars, historyVars>>

\* The row cap ends a stream with an end record, a closed socket with nothing.
AnswerStreamStop(r) ==
    /\ shape[r] = "ndjson"
    /\ seen[r] \in {"cap", "gone"}
    /\ Step(r, "classify", "answered")
    /\ outcome' = [outcome EXCEPT ![r] = IF seen[r] = "cap" THEN "ok" ELSE "gone"]
    /\ UNCHANGED <<clock, sessionVars, sess, mine, shape, seen, sweepVars,
                   cancelVars, historyVars>>

\* Cause(): first the generation mark ...
StreamTimedOut(r) ==
    /\ shape[r] = "ndjson"
    /\ seen[r] \in {"end", "cut", "error"}
    /\ pc[r] = "classify"
    /\ IF timedOut[sess[r]] = mine[r]
         THEN /\ Goto(r, "answered")
              /\ outcome' = [outcome EXCEPT ![r] = "timeout"]
         ELSE Goto(r, "readCause") /\ UNCHANGED outcome
    /\ UNCHANGED <<clock, sessionVars, sess, mine, shape, seen, sweepVars,
                   cancelVars, historyVars>>

\* Slip: an empty chunk after a cancellation is taken for the end.
StreamIgnoresCause(r) ==
    /\ Step(r, "readCause", "answered")
    /\ outcome' = [outcome EXCEPT ![r] =
                     IF seen[r] = "error" THEN "error" ELSE "ok"]
    /\ UNCHANGED <<clock, sessionVars, sess, mine, shape, seen, sweepVars,
                   cancelVars, historyVars>>

\* ... then the recorded cause; without one an empty chunk is the end record.
StreamCause(r) ==
    /\ Step(r, "readCause", "answered")
    /\ outcome' = [outcome EXCEPT ![r] =
                     IF cause[sess[r]] = "USER_CANCEL" THEN "cancelled"
                     ELSE IF seen[r] = "error" THEN "error" ELSE "ok"]
    /\ UNCHANGED <<clock, sessionVars, sess, mine, shape, seen, sweepVars,
                   cancelVars, historyVars>>

\* Slip: session_lock declared after session_guard, hence released first.
UnlockBeforeGuard(r) ==
    /\ Step(r, "answered", "disarmed")
    /\ deadline' = [deadline EXCEPT ![sess[r]] = 0]
    /\ lock' = [lock EXCEPT ![sess[r]] = NoRequest]
    /\ UNCHANGED <<clock, registered, gen, inFlight, cause, timedOut,
                   interrupted, sess, mine, shape, seen, outcome, sweepVars,
                   cancelVars, historyVars>>

\* The two stores of the guard's destructor, then the unlock: members of
\* StreamingCtx and locals of the handler are destroyed in that order.
GuardClearDeadline(r) ==
    /\ Step(r, "answered", "disarmed")
    /\ deadline' = [deadline EXCEPT ![sess[r]] = 0]
    /\ UNCHANGED <<clock, registered, lock, gen, inFlight, cause, timedOut,
                   interrupted, sess, mine, shape, seen, outcome, sweepVars,
                   cancelVars, historyVars>>

GuardClearInFlight(r) ==
    /\ Step(r, "disarmed", "unguarded")
    /\ inFlight' = [inFlight EXCEPT ![sess[r]] = FALSE]
    /\ UNCHANGED <<clock, registered, lock, gen, deadline, cause, timedOut,
                   interrupted, sess, mine, shape, seen, outcome, sweepVars,
                   cancelVars, historyVars>>

Unlock(r) ==
    /\ pc[r] = "unguarded"
    /\ lock' = [lock EXCEPT ![sess[r]] = NoRequest]
    /\ Return(r)
    /\ UNCHANGED <<clock, registered, gen, deadline, inFlight, cause, timedOut,
                   interrupted, sweepVars, cancelVars, causeGen, observed,
                   hits>>

-----------------------------------------------------------------------------
(* The sweeper thread: TimeoutSweepOnce every 250 ms.                      *)

SweepCopy ==
    /\ spc = "sleep"
    /\ spc' = "clock"
    /\ todo' = registered
    /\ UNCHANGED <<clock, sessionVars, requestVars, now, cur, mark, cancelVars,
                   historyVars>>

SweepClock ==
    /\ spc = "clock"
    /\ spc' = "next"
    /\ now' = clock
    /\ UNCHANGED <<clock, sessionVars, requestVars, todo, cur, mark,
                   cancelVars, historyVars>>

SweepDone ==
    /\ spc = "next"
    /\ todo = {}
    /\ spc' = "sleep"
    /\ now' = 0
    /\ mark' = 0
    /\ UNCHANGED <<clock, sessionVars, requestVars, todo, cur, cancelVars,
                   historyVars>>

\* Leave the session under inspection and go on with the next one.
SweepContinue ==
    /\ spc' = "next"
    /\ cur' = NoSession

SweepInFlight(s) ==
    /\ spc = "next"
    /\ s \in todo
    /\ todo' = todo \ {s}
    /\ IF inFlight[s] THEN spc' = "deadline" /\ cur' = s ELSE SweepContinue
    /\ UNCHANGED <<clock, sessionVars, requestVars, now, mark, cancelVars,
                   historyVars>>

\* Slip: the deadline itself counts as overdue.
SweepDeadlineInclusive ==
    /\ spc = "deadline"
    /\ IF deadline[cur] = 0 \/ now < deadline[cur]
         THEN SweepContinue /\ UNCHANGED observed
         ELSE /\ spc' = "generation"
              /\ observed' = [observed EXCEPT ![cur] = gen[cur]]
              /\ UNCHANGED cur
    /\ UNCHANGED <<clock, sessionVars, requestVars, todo, now, mark,
                   cancelVars, causeGen, hits, cutBy>>

\* Slip: a query that is marked already is not interrupted again.
SweepDeadlineOnce ==
    /\ spc = "deadline"
    /\ IF \/ deadline[cur] = 0
          \/ now <= deadline[cur]
          \/ timedOut[cur] = gen[cur]
         THEN SweepContinue /\ UNCHANGED observed
         ELSE /\ spc' = "generation"
              /\ observed' = [observed EXCEPT ![cur] = gen[cur]]
              /\ UNCHANGED cur
    /\ UNCHANGED <<clock, sessionVars, requestVars, todo, now, mark,
                   cancelVars, causeGen, hits, cutBy>>

SweepDeadline ==
    /\ spc = "deadline"
    /\ IF deadline[cur] = 0 \/ now <= deadline[cur]
         THEN SweepContinue /\ UNCHANGED observed
         ELSE /\ spc' = "generation"
              /\ observed' = [observed EXCEPT ![cur] = gen[cur]]
              /\ UNCHANGED cur
    /\ UNCHANGED <<clock, sessionVars, requestVars, todo, now, mark,
                   cancelVars, causeGen, hits, cutBy>>

SweepGeneration ==
    /\ spc = "generation"
    /\ spc' = "mark"
    /\ mark' = gen[cur]
    /\ UNCHANGED <<clock, sessionVars, requestVars, todo, now, cur, cancelVars,
                   historyVars>>

SweepMark ==
    /\ spc = "mark"
    /\ spc' = "interrupt"
    /\ timedOut' = [timedOut EXCEPT ![cur] = mark]
    /\ UNCHANGED <<clock, registered, lock, gen, deadline, inFlight, cause,
                   interrupted, requestVars, todo, now, cur, mark, cancelVars,
                   historyVars>>

SweepInterrupt ==
    /\ spc = "interrupt"
    /\ SweepContinue
    /\ interrupted' = [interrupted EXCEPT ![cur] = TRUE]
    /\ hits' = [hits EXCEPT ![cur] = @ \union {mark}]
    /\ UNCHANGED <<clock, registered, lock, gen, deadline, inFlight, cause,
                   timedOut, requestVars, todo, now, mark, cancelVars,
                   causeGen, observed, cutBy>>

-----------------------------------------------------------------------------
(* InterruptSession, called by POST /sql/cancel and POST /interrupt.       *)

CancelLookup(c, s) ==
    /\ cpc[c] = "idle"
    /\ s \in registered
    /\ cpc' = [cpc EXCEPT ![c] = "found"]
    /\ csess' = [csess EXCEPT ![c] = s]
    /\ UNCHANGED <<clock, sessionVars, requestVars, sweepVars, caim,
                   historyVars>>

\* The cause is recorded before the interrupt.  The history variable notes at
\* which query it was aimed: the one in flight, or none (generation 0).
CancelStore(c) ==
    LET s == csess[c] IN
    /\ cpc[c] = "found"
    /\ cpc' = [cpc EXCEPT ![c] = "stored"]
    /\ cause' = [cause EXCEPT ![s] = "USER_CANCEL"]
    /\ caim' = [caim EXCEPT ![c] = IF inFlight[s] THEN gen[s] ELSE 0]
    /\ causeGen' = [causeGen EXCEPT ![s] = gen[s]]
    /\ UNCHANGED <<clock, registered, lock, gen, deadline, inFlight, timedOut,
                   interrupted, requestVars, sweepVars, csess, observed, hits,
                   cutBy>>

CancelInterrupt(c) ==
    LET s == csess[c] IN
    /\ cpc[c] = "stored"
    /\ cpc' = [cpc EXCEPT ![c] = "idle"]
    /\ interrupted' = [interrupted EXCEPT ![s] = TRUE]
    /\ hits' = [hits EXCEPT ![s] = @ \union {caim[c]}]
    /\ csess' = [csess EXCEPT ![c] = NoSession]
    /\ caim' = [caim EXCEPT ![c] = 0]
    /\ UNCHANGED <<clock, registered, lock, gen, deadline, inFlight, cause,
                   timedOut, requestVars, sweepVars, causeGen, observed, cutBy>>

-----------------------------------------------------------------------------
(* The rest of the world.                                                  *)

\* DELETE /sql/sessions/:id, logout and Quack DISCONNECT erase the map entry;
\* a request that holds a reference goes on with the session.
Destroy(s) ==
    /\ s \in registered
    /\ registered' = registered \ {s}
    /\ UNCHANGED <<clock, lock, gen, deadline, inFlight, cause, timedOut,
                   interrupted, requestVars, sweepVars, cancelVars,
                   historyVars>>

Tick ==
    /\ clock < MaxClock
    /\ clock' = clock + 1
    /\ UNCHANGED <<sessionVars, requestVars, sweepVars, cancelVars,
                   historyVars>>

-----------------------------------------------------------------------------

GuardSteps(r) ==
    \/ GuardGeneration(r) \/ GuardCause(r) \/ GuardDeadline(r)
    \/ GuardInFlight(r) \/ GuardClearDeadline(r) \/ GuardClearInFlight(r)

AnswerSteps(r) ==
    \/ AnswerFailed(r) \/ AnswerOneShot(r) \/ AnswerStreamStop(r)
    \/ StreamTimedOut(r) \/ StreamCause(r)

Handler(r) ==
    \/ TryLock(r) \/ Busy(r) \/ Reject(r) \/ GuardSteps(r) \/ ExecuteStart(r)
    \/ AnswerSteps(r) \/ Unlock(r)

QuerySteps(r) == ExecuteFails(r) \/ ExecuteReturns(r) \/ Fetch(r)

Sweeper ==
    \/ SweepCopy \/ SweepClock \/ SweepDone
    \/ \E s \in Sessions : SweepInFlight(s)
    \/ SweepDeadline \/ SweepGeneration \/ SweepMark \/ SweepInterrupt

Canceller(c) ==
    \/ \E s \in Sessions : CancelLookup(c, s)
    \/ CancelStore(c) \/ CancelInterrupt(c)

Next ==
    \/ \E r \in Requests :
         \/ \E s \in Sessions : Resolve(r, s)
         \/ Handler(r)
         \/ QuerySteps(r)
    \/ Sweeper
    \/ \E c \in Cancels : Canceller(c)
    \/ \E s \in Sessions : Destroy(s)
    \/ Tick

Spec == Init /\ [][Next]_vars

\* The sweeper thread never stops ticking, a handler thread keeps running, and
\* DuckDB polls its interrupt flag: an interrupted query comes back.  A query
\* that nobody interrupts may run for ever; clients and the clock owe nothing.
InterruptedReturns(r) ==
    /\ pc[r] \in {"executing", "fetching"}
    /\ interrupted[sess[r]]
    /\ QuerySteps(r)

Fairness ==
    /\ WF_vars(Sweeper)
    /\ \A r \in Requests :
         WF_vars(Handler(r)) /\ WF_vars(InterruptedReturns(r))

FairSpec == Spec /\ Fairness

-----------------------------------------------------------------------------
(* Properties.                                                             *)

\* Every variable has its type, and a request holds a reference to a session
\* exactly while it is inside the handler (resolved.session, sql_handlers.cpp).
TypeOK ==
    /\ clock \in 0..MaxClock
    /\ registered \subseteq Sessions
    /\ lock \in [Sessions -> Requests \union {NoRequest}]
    /\ gen \in [Sessions -> Nat]
    /\ deadline \in [Sessions -> Nat]
    /\ inFlight \in [Sessions -> BOOLEAN]
    /\ cause \in [Sessions -> {"NONE", "USER_CANCEL"}]
    /\ timedOut \in [Sessions -> Nat]
    /\ interrupted \in [Sessions -> BOOLEAN]
    /\ pc \in [Requests -> RequestPC]
    /\ sess \in [Requests -> Sessions \union {NoSession}]
    /\ mine \in [Requests -> Nat]
    /\ shape \in [Requests -> Shapes]
    /\ seen \in [Requests -> Seen]
    /\ outcome \in [Requests -> Outcomes]
    /\ spc \in {"sleep", "clock", "next", "deadline", "generation", "mark",
                "interrupt"}
    /\ todo \subseteq Sessions
    /\ now \in Nat
    /\ cur \in Sessions \union {NoSession}
    /\ mark \in Nat
    /\ cpc \in [Cancels -> {"idle", "found", "stored"}]
    /\ csess \in [Cancels -> Sessions \union {NoSession}]
    /\ caim \in [Cancels -> Nat]
    /\ causeGen \in [Sessions -> Nat]
    /\ observed \in [Sessions -> Nat]
    /\ hits \in [Sessions -> SUBSET Nat]
    /\ cutBy \in [Requests -> SUBSET Nat]
    /\ \A r \in Requests : sess[r] = NoSession <=> pc[r] = "idle"

Overdue(s) == deadline[s] # 0 /\ clock > deadline[s]

\* The caller of the guard's constructor holds session.lock until after the
\* destructor: whatever a session shows of a query (in flight, a deadline) is
\* the state of the one request that owns its lock, and the generation is the
\* one that request remembers as my_generation.
GuardBelongsToLockOwner ==
    /\ \A r \in Requests : pc[r] \in Locked => lock[sess[r]] = r
    /\ \A r \in Requests : pc[r] \in UnderGuard => gen[sess[r]] = mine[r]
    /\ \A s \in Sessions : inFlight[s] \/ deadline[s] # 0 =>
         \E r \in Requests : lock[s] = r /\ sess[r] = s /\ pc[r] \in UnderGuard

\* QUERY_TIMEOUT is told to a query that is over its deadline, as long as the
\* deadline the sweeper compared was that query's own.  It may not be: the
\* sweep reads the generation after the deadline.
TimeoutIsOverdueUnlessStale ==
    \A r \in Requests :
      /\ pc[r] = "answered"
      /\ outcome[r] = "timeout"
      /\ observed[sess[r]] = mine[r]
      => Overdue(sess[r])

\* A cancelled outcome is the consequence of a cancellation recorded during
\* this very query: no USER_CANCEL leaks from the query before it.
CancelledWasAsked ==
    \A r \in Requests :
      outcome[r] = "cancelled" => causeGen[sess[r]] = mine[r]

\* A stream that was cut by an interrupt aimed at its own query never closes
\* with an end record: the client learns that rows are missing.
AimedInterruptReported ==
    \A r \in Requests :
      /\ shape[r] = "ndjson"
      /\ outcome[r] = "ok"
      /\ seen[r] = "cut"
      => mine[r] \notin cutBy[r]

\* query_generation only grows, the mark only moves to later generations, and
\* it never names a query that has not started: a mark left behind by one
\* query cannot be taken for the next one's.
GenerationsGrow ==
    [][\A s \in Sessions :
         /\ gen'[s] >= gen[s]
         /\ timedOut'[s] >= timedOut[s]
         /\ timedOut'[s] <= gen'[s]]_<<gen, timedOut>>

\* A query over its deadline ends, unless its session leaves the map: the
\* sweeper interrupts it again at every tick until it does.
OverdueStops ==
    \A s \in Sessions :
      Overdue(s) /\ s \in registered ~> ~Overdue(s) \/ s \notin registered

\* A pooled session keeps the promises of SerialSession: one query at a time,
\* 409 for the others, one answer each, and no timeout or cancellation out of
\* the blue.
Serial == INSTANCE SerialSession WITH
    open <- registered,
    owner <- lock,
    phase <- [r \in Requests |-> IF pc[r] = "idle" THEN "idle"
                                ELSE IF pc[r] = "resolved" THEN "waiting"
                                ELSE "running"],
    at <- sess,
    answer <- outcome,
    late <- {s \in Sessions : observed[s] # 0},
    asked <- {s \in Sessions : cause[s] = "USER_CANCEL"}

ImplementsSerialSession == Serial!SerialSpec

\* sql_handlers.cpp: causes are classified so that an interrupted stream does
\* not "emit {"type":"end"} and the client would think the query succeeded
\* with fewer rows".
StreamEndIsComplete ==
    \A r \in Requests :
      shape[r] = "ndjson" /\ outcome[r] = "ok" => seen[r] # "cut"

=============================================================================
