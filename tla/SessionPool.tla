----------------------------- MODULE SessionPool -----------------------------
(***************************************************************************)
(* The SessionManager: the map of DB sessions under active_mutex, the      *)
(* mutex of every session, and the requests that create, look up, use,     *)
(* list, interrupt and destroy sessions over POST /sql, /sql/sessions/new, *)
(* DELETE /sql/sessions/:id, /auth/logout, GET /sessions, /sql/cancel and  *)
(* the Quack messages.  A session is named by its id; requests keep a      *)
(* session alive by the shared_ptr they hold.                              *)
(***************************************************************************)
EXTENDS Integers, FiniteSets

CONSTANTS
    Principals,  \* principals that log in
    Ids,         \* session ids GenerateSessionId may draw
    Requests,    \* request threads
    Settings,    \* values of harbor_max_sessions
    DefaultMax,  \* kDefaultMaxSessions
    None         \* no request, no id, and the owner "" of a Quack session

ASSUME PoolAssumption ==
    /\ Settings \subseteq Nat
    /\ DefaultMax \in Nat
    /\ IsFiniteSet(Ids)
    /\ None \notin Principals \union Ids \union Requests

VARIABLES
    active,   \* SessionManager::active: the ids in the map
    owner,    \* id -> owner_principal_id of the session of that id
    mapLock,  \* active_mutex, where it is held over more than one step
    lock,     \* id -> holder of HarborSession::lock
    setting,  \* harbor_max_sessions
    kind, pc, who, at, \* per request: route, progress, principal, session id
    limit,    \* per request: max_sessions read before the insert
    refs,     \* per request: sessions it holds a shared_ptr to
    todo,     \* per GET /sessions: sessions it has yet to copy
    cancelling, \* a POST /sql/cancel is about to look its session up
    largest,  \* history: the largest limit there was
    quit      \* history: principals without a session or a creation since
              \* they logged out

requestVars == <<kind, pc, who, at, limit, refs, todo>>
vars == <<active, owner, mapLock, lock, setting, requestVars,
          cancelling, largest, quit>>

Owners == Principals \union {None}
Kinds  == {"none", "sql", "quack", "new", "sessions"}
PC     == {"idle", "found", "waiting", "running", "drop",
           "insert", "copy", "visit", "reading"}

\* ReadMaxSessionsSetting.
MaxSessions(s) == IF s = 0 THEN DefaultMax ELSE s

Init ==
    /\ active = {}
    /\ owner = [i \in Ids |-> None]
    /\ mapLock = None
    /\ lock = [i \in Ids |-> None]
    /\ setting \in Settings
    /\ kind = [r \in Requests |-> "none"]
    /\ pc = [r \in Requests |-> "idle"]
    /\ who = [r \in Requests |-> None]
    /\ at = [r \in Requests |-> None]
    /\ limit = [r \in Requests |-> 0]
    /\ refs = [r \in Requests |-> {}]
    /\ todo = [r \in Requests |-> {}]
    /\ cancelling = FALSE
    /\ largest = MaxSessions(setting)
    /\ quit = Principals

-----------------------------------------------------------------------------
Step(r, from, to) == pc[r] = from /\ pc' = [pc EXCEPT ![r] = to]

\* A request of principal p about session i arrives.
Arrive(r, k, p, i, to) ==
    /\ Step(r, "idle", to)
    /\ kind' = [kind EXCEPT ![r] = k]
    /\ who' = [who EXCEPT ![r] = p]
    /\ at' = [at EXCEPT ![r] = i]

\* The request is answered, or has only its references to give up.
Answered(r, from, to) ==
    /\ Step(r, from, to)
    /\ kind' = [kind EXCEPT ![r] = "none"]
    /\ who' = [who EXCEPT ![r] = None]
    /\ at' = [at EXCEPT ![r] = None]

\* Its thread is free for another.
Leave(r, from) ==
    /\ Answered(r, from, "idle")
    /\ limit' = [limit EXCEPT ![r] = 0]
    /\ refs' = [refs EXCEPT ![r] = {}]
    /\ UNCHANGED <<mapLock, lock, setting, todo, cancelling, largest, quit>>

MapFree == mapLock = None

\* The sessions that are left when ids are in the map and held of them in
\* use: the last shared_ptr to go destroys its session.
Left(ids, held) ==
    [i \in Ids |-> IF i \in ids \/ \E r \in Requests : i \in held[r]
                   THEN owner[i] ELSE None]

\* Ids are random and a draw may meet a session in the map, but it does not
\* bring back the id of a session that left the map and is still in use: a
\* session is named by its id for as long as it exists.
Unambiguous(i) == i \in active \/ \A r \in Requests : i \notin refs[r]

-----------------------------------------------------------------------------
(* Creating a session.                                                     *)

\* Slip: the size is compared with the limit before the lock is taken.
NewComparedEarly(r, p, i) ==
    /\ Arrive(r, "new", p, i, "insert")
    /\ Unambiguous(i)
    /\ limit' = [limit EXCEPT ![r] =
                   IF Cardinality(active) < MaxSessions(setting)
                   THEN Cardinality(Ids) + 1 ELSE 0]
    /\ quit' = quit \ {p}
    /\ UNCHANGED <<active, owner, mapLock, lock, setting, refs, todo,
                   cancelling, largest>>

\* POST /sql/sessions/new: the id is drawn and the limit read before the
\* map is locked.
New(r, p, i) ==
    /\ Arrive(r, "new", p, i, "insert")
    /\ Unambiguous(i)
    /\ limit' = [limit EXCEPT ![r] = MaxSessions(setting)]
    /\ quit' = quit \ {p}
    /\ UNCHANGED <<active, owner, mapLock, lock, setting, refs, todo,
                   cancelling, largest>>

\* A Quack CONNECTION_REQUEST has no limit; a collision is an error.
Connect(i) ==
    /\ MapFree
    /\ Unambiguous(i) /\ i \notin active
    /\ active' = active \union {i}
    /\ owner' = [owner EXCEPT ![i] = None]
    /\ UNCHANGED <<mapLock, lock, setting, requestVars, cancelling, largest,
                   quit>>

Full(r) == Cardinality(active) >= limit[r]

Refused(r) == Full(r) \/ at[r] \in active

Insert(r) ==
    /\ Leave(r, "insert")
    /\ MapFree
    /\ Unambiguous(at[r])
    /\ ~Refused(r)
    /\ active' = active \union {at[r]}
    /\ owner' = [owner EXCEPT ![at[r]] = who[r]]

\* 429 SESSION_LIMIT, or 500 for the collision.
InsertRefused(r) ==
    /\ Leave(r, "insert")
    /\ MapFree
    /\ Unambiguous(at[r])
    /\ Refused(r)
    /\ UNCHANGED <<active, owner>>

-----------------------------------------------------------------------------
(* Using a session.                                                        *)

\* A session is looked up by its id.  (For an unknown id the request is
\* answered with an error and nothing happens.)
Find(r, k, p, i) ==
    /\ Arrive(r, k, p, i, IF k = "sql" THEN "found" ELSE "waiting")
    /\ MapFree
    /\ i \in active
    /\ refs' = [refs EXCEPT ![r] = {i}]
    /\ UNCHANGED <<active, owner, mapLock, lock, setting, limit, todo,
                   cancelling, largest, quit>>

\* Slip: the lookup does not compare the owner.
SqlOfAnyOwner(r, p, i) == Find(r, "sql", p, i)

\* LookupOwnedSession for POST /sql: a foreign session is answered 404 as an
\* unknown one is.
Sql(r, p, i) == owner[i] = p /\ Find(r, "sql", p, i)

\* GetConnection for a Quack message: it comes from no principal, and the
\* session is the one its connection_id names, whoever owns it.
Statement(r, i) == Find(r, "quack", None, i)

Lock(r) ==
    /\ lock[at[r]] = None
    /\ lock' = [lock EXCEPT ![at[r]] = r]
    /\ UNCHANGED <<active, owner, mapLock, setting, kind, who, at, limit, refs,
                   todo, cancelling, largest, quit>>

TryLock(r) == Step(r, "found", "running") /\ Lock(r)

\* 409 SESSION_BUSY.
Busy(r) ==
    /\ Answered(r, "found", "drop")
    /\ lock[at[r]] # None
    /\ UNCHANGED <<active, owner, mapLock, lock, setting, limit, refs, todo,
                   cancelling, largest, quit>>

\* A Quack statement waits for the lock, and so does GET /sessions.
Acquire(r) ==
    /\ Step(r, "waiting", IF kind[r] = "quack" THEN "running" ELSE "reading")
    /\ Lock(r)

\* The query is over and its answer sent, or it was refused under the lock:
\* the lock is declared after the shared_ptr, so it goes first.
Finish(r) ==
    /\ Answered(r, "running", "drop")
    /\ lock' = [lock EXCEPT ![at[r]] = None]
    /\ UNCHANGED <<active, owner, mapLock, setting, limit, refs, todo,
                   cancelling, largest, quit>>

Drop(r) ==
    /\ Leave(r, "drop")
    /\ owner' = Left(active, refs')
    /\ UNCHANGED active

-----------------------------------------------------------------------------
(* Destroying sessions.                                                    *)

\* DisconnectConnection for a Quack DISCONNECT: no owner is compared, and
\* whether the session is in use makes no difference.  (The message looks the
\* session up twice; only the second time counts, and the reference held in
\* between is dropped with it.)
Disconnect(i) ==
    /\ MapFree
    /\ i \in active
    /\ active' = active \ {i}
    /\ owner' = Left(active', refs)
    /\ UNCHANGED <<mapLock, lock, setting, requestVars, cancelling,
                   largest, quit>>

\* DestroyOwnedSession for DELETE /sql/sessions/:id of principal p.
Delete(p, i) == owner[i] = p /\ Disconnect(i)

Creating(p) == \E r \in Requests : pc[r] = "insert" /\ who[r] = p

\* Slip: the loop steps over the entry after the one it erased.
LogoutSkips(p) ==
    /\ MapFree
    /\ \E gone \in SUBSET {i \in active : owner[i] = p} :
         /\ gone = {} => \A i \in active : owner[i] # p
         /\ active' = active \ gone
    /\ quit' = IF Creating(p) THEN quit ELSE quit \union {p}
    /\ owner' = Left(active', refs)
    /\ UNCHANGED <<mapLock, lock, setting, requestVars, cancelling,
                   largest>>

\* POST /auth/logout?destroy_sessions=true of principal p.
Logout(p) ==
    /\ MapFree
    /\ active' = {i \in active : owner[i] # p}
    /\ quit' = IF Creating(p) THEN quit ELSE quit \union {p}
    /\ owner' = Left(active', refs)
    /\ UNCHANGED <<mapLock, lock, setting, requestVars, cancelling,
                   largest>>

-----------------------------------------------------------------------------
(* GET /sessions and POST /sql/cancel.                                     *)

SnapshotLock(r) ==
    /\ Arrive(r, "sessions", None, None, "copy")
    /\ MapFree
    /\ mapLock' = r
    /\ UNCHANGED <<active, owner, lock, setting, limit, refs, todo, cancelling,
                   largest, quit>>

\* Slip: the sessions are locked one by one before the map is unlocked.
SnapshotCopyUnderLocks(r) ==
    /\ Step(r, "copy", "visit")
    /\ \A i \in active : lock[i] = None
    /\ refs' = [refs EXCEPT ![r] = active]
    /\ todo' = [todo EXCEPT ![r] = active]
    /\ mapLock' = None
    /\ UNCHANGED <<active, owner, lock, setting, kind, who, at, limit,
                   cancelling, largest, quit>>

\* The shared_ptrs are copied out and the map is unlocked.
SnapshotCopy(r) ==
    /\ Step(r, "copy", "visit")
    /\ refs' = [refs EXCEPT ![r] = active]
    /\ todo' = [todo EXCEPT ![r] = active]
    /\ mapLock' = None
    /\ UNCHANGED <<active, owner, lock, setting, kind, who, at, limit,
                   cancelling, largest, quit>>

Visit(r, i) ==
    /\ Step(r, "visit", "waiting")
    /\ i \in todo[r]
    /\ at' = [at EXCEPT ![r] = i]
    /\ todo' = [todo EXCEPT ![r] = @ \ {i}]
    /\ UNCHANGED <<active, owner, mapLock, lock, setting, kind, who, limit,
                   refs, cancelling, largest, quit>>

\* last_query is copied under the session's lock.
ReadLastQuery(r) ==
    /\ Step(r, "reading", "visit")
    /\ lock' = [lock EXCEPT ![at[r]] = None]
    /\ at' = [at EXCEPT ![r] = None]
    /\ UNCHANGED <<active, owner, mapLock, setting, kind, who, limit, refs,
                   todo, cancelling, largest, quit>>

SnapshotEnd(r) ==
    /\ Answered(r, "visit", "drop")
    /\ todo[r] = {}
    /\ UNCHANGED <<active, owner, mapLock, lock, setting, limit, refs, todo,
                   cancelling, largest, quit>>

Cancel ==
    /\ ~cancelling
    /\ cancelling' = TRUE
    /\ UNCHANGED <<active, owner, mapLock, lock, setting, requestVars, largest,
                   quit>>

\* InterruptSession looks in the map and leaves the session's lock alone.
CancelLookup ==
    /\ cancelling
    /\ MapFree
    /\ cancelling' = FALSE
    /\ UNCHANGED <<active, owner, mapLock, lock, setting, requestVars, largest,
                   quit>>

-----------------------------------------------------------------------------
\* SET harbor_max_sessions.
Set(s) ==
    /\ s # setting
    /\ setting' = s
    /\ largest' = IF MaxSessions(s) > largest THEN MaxSessions(s) ELSE largest
    /\ UNCHANGED <<active, owner, mapLock, lock, requestVars, cancelling,
                   quit>>

Work(r) ==
    \/ Insert(r) \/ InsertRefused(r)
    \/ TryLock(r) \/ Busy(r) \/ Drop(r)
    \/ SnapshotCopy(r) \/ ReadLastQuery(r) \/ SnapshotEnd(r)
    \/ \E i \in Ids : Visit(r, i)

Next ==
    \/ \E r \in Requests, p \in Principals, i \in Ids : New(r, p, i) \/ Sql(r, p, i)
    \/ \E r \in Requests, i \in Ids : Statement(r, i)
    \/ \E i \in Ids : Connect(i)
    \/ \E r \in Requests :
         Acquire(r) \/ Finish(r) \/ SnapshotLock(r) \/ Work(r)
    \/ Cancel \/ CancelLookup
    \/ \E i \in Ids : Disconnect(i) \/ \E p \in Principals : Delete(p, i)
    \/ \E p \in Principals : Logout(p)
    \/ \E s \in Settings : Set(s)

Spec == Init /\ [][Next]_vars

\* A thread goes on, and a mutex that is free again and again is obtained.
\* No query has to end.
Fairness ==
    /\ \A r \in Requests : WF_vars(Work(r)) /\ SF_vars(Acquire(r))
    /\ SF_vars(CancelLookup)

FairSpec == Spec /\ Fairness

-----------------------------------------------------------------------------
(* Properties.                                                             *)

TypeOK ==
    /\ active \subseteq Ids
    /\ owner \in [Ids -> Owners]
    /\ mapLock \in Requests \union {None}
    /\ lock \in [Ids -> Requests \union {None}]
    /\ setting \in Settings
    /\ kind \in [Requests -> Kinds]
    /\ pc \in [Requests -> PC]
    /\ who \in [Requests -> Owners]
    /\ at \in [Requests -> Ids \union {None}]
    /\ limit \in [Requests -> Nat]
    /\ refs \in [Requests -> SUBSET Ids]
    /\ todo \in [Requests -> SUBSET Ids]
    /\ cancelling \in BOOLEAN
    /\ largest \in Nat
    /\ quit \subseteq Principals

\* A statement of POST /sql runs in a session of its own principal, whatever
\* was destroyed by anybody, created again or listed meanwhile.  A statement
\* of Quack runs in the session its message names, owned or not.  Both hold
\* the session's lock and no other request is in it.
OwnSessionUnlessQuack ==
    \A r \in Requests : pc[r] = "running" =>
        /\ kind[r] = "sql" => owner[at[r]] = who[r]
        /\ lock[at[r]] = r
        /\ \A q \in Requests \ {r} :
             pc[q] \in {"running", "reading"} => at[q] # at[r]

\* harbor_session.cpp reads harbor_max_sessions before it locks the map, and
\* Quack connections take no notice of it: still the sessions that /sql
\* created never outnumber the largest limit there was.
SessionLimit ==
    Cardinality({i \in active : owner[i] # None}) <= largest

\* A mutex is not destroyed while it is held: the holder of a session's lock
\* keeps the session alive, in the map or not.  And GET /sessions waits for
\* queries and for nothing else: the holder runs a statement in the session
\* or is copying its last_query, also after an early return.
LockHolderIsInside ==
    \A i \in Ids, r \in Requests : lock[i] = r =>
        /\ i \in refs[r]
        /\ at[r] = i
        /\ pc[r] \in {"running", "reading"}

\* After POST /auth/logout?destroy_sessions=true a principal has no session,
\* unless a creation of theirs was under way or has begun since.
LogoutEndsSessions ==
    \A i \in active : owner[i] \notin quit

\* The session a request was given, until it is answered.
Asks(r) ==
    IF pc[r] \in {"found", "waiting", "running"} /\ kind[r] # "sessions"
    THEN <<who[r], at[r]>> ELSE <<None, None>>

\* The SessionManager is a table of sessions with their owners and one limit:
\* requests of a principal are given only sessions of that principal, those
\* that come from nobody (Quack) the one they name, and a session is used by
\* one request at a time, whatever is between the manager's locks.
Table == INSTANCE OwnedSessions WITH
    table  <- [i \in active |-> owner[i]],
    asks   <- [r \in Requests |-> Asks(r)],
    inside <- lock,
    most   <- largest

ImplementsOwnedSessions == Table!SessionsSpec

\* POST /sql/cancel is answered however long the queries run, also when
\* GET /sessions waits for one of them.
CancelAnswered == cancelling ~> ~cancelling
=============================================================================
