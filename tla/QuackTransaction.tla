-------------------------- MODULE QuackTransaction ---------------------------
(***************************************************************************)
(* Local transactions on an attached Quack catalog.  Every catalog has one *)
(* connection to its server, so all local transactions share the one       *)
(* transaction that connection can have.  BEGIN is sent with the first DDL *)
(* statement; appended rows are sent without it.  A request reaches the    *)
(* server in a step of its own, in any order with those of others, or not  *)
(* at all, and its answer may be lost.                                     *)
(***************************************************************************)
EXTENDS Naturals, FiniteSets

CONSTANTS
    Txns,          \* QuackTransactions, each in a ClientContext of its own
    NoTxn,
    Tables,
    MaxStatements  \* bound: statements of one local transaction

ASSUME TransactionAssumption == NoTxn \notin Txns /\ MaxStatements \in Nat

Statements ==
    [op : {"create", "drop", "insert"}, table : Tables]
NoStatement == [op |-> "none", table |-> "none"]

\* What is stored: that a table exists, or a row in it; who put it there, and
\* whether that was in the first DDL statement of its transaction or later.
Facts == [kind : {"table", "row"}, table : Tables, by : Txns, begun : BOOLEAN]

VARIABLES
    db,         \* facts committed at the server
    open,       \* has the server's connection a transaction?
    aborted,    \* has an error invalidated it?
    work,       \* facts it sees
    owner,      \* history: the local transaction whose BEGIN opened it
    cache,      \* QuackTableSet::entries, the local catalog
    state,      \* transaction_state
    pc,         \* where a local transaction is
    stmt,       \* the statement it executes
    count,      \* statements it has executed
    touched,    \* history: tables of its DDL statements
    made,       \* history: facts the server has acknowledged since then
    mixed,      \* history: transactions whose requests met another's BEGIN
    unsent      \* history: transactions whose last request never arrived

serverVars  == <<db, open, aborted, work, owner>>
localVars   == <<state, pc, stmt, count>>
historyVars == <<touched, made, mixed, unsent>>
vars == <<serverVars, cache, localVars, historyVars>>

Ended == {"committed", "commitFailed", "rolledBack", "lost"}

Init ==
    /\ db = {} /\ open = FALSE /\ aborted = FALSE /\ work = {}
    /\ owner = NoTxn
    /\ cache = {}
    /\ state = [t \in Txns |-> "NOT_YET_STARTED"]
    /\ pc = [t \in Txns |-> "none"]
    /\ stmt = [t \in Txns |-> NoStatement]
    /\ count = [t \in Txns |-> 0]
    /\ touched = [t \in Txns |-> {}]
    /\ made = [t \in Txns |-> {}]
    /\ mixed = {} /\ unsent = {}

Goto(t, l) == pc' = [pc EXCEPT ![t] = l]

Step(t, from, to) == pc[t] = from /\ Goto(t, to)

SetState(t, s) == state' = [state EXCEPT ![t] = s]

-----------------------------------------------------------------------------
(* The client's steps.                                                     *)

\* QuackTransactionManager::StartTransaction: nothing is sent.
StartTransaction(t) ==
    /\ Step(t, "none", "idle")
    /\ UNCHANGED <<serverVars, cache, state, stmt, count, historyVars>>

\* A table is looked up in the local catalog before it is dropped or written.
Execute(t, s) ==
    /\ pc[t] = "idle"
    /\ s.op = "create" \/ s.table \in cache
    /\ count[t] < MaxStatements
    /\ count' = [count EXCEPT ![t] = @ + 1]
    /\ stmt' = [stmt EXCEPT ![t] = s]

\* Slip: a DDL statement is sent without ForceStart.
DdlUnstarted(t, s) ==
    /\ s.op # "insert"
    /\ Execute(t, s)
    /\ Goto(t, "statement")
    /\ touched' = [touched EXCEPT ![t] = @ \union {s.table}]
    /\ UNCHANGED <<serverVars, cache, state, made, mixed, unsent>>

\* CreateTable, CreateView, DropEntry: QuackTransaction::Query, which sends
\* BEGIN first unless one has been sent; the state says so before the server
\* has answered.
Ddl(t, s) ==
    /\ s.op # "insert"
    /\ Execute(t, s)
    /\ Goto(t, IF state[t] = "NOT_YET_STARTED" THEN "begin" ELSE "statement")
    /\ SetState(t, "STARTED")
    /\ touched' = [touched EXCEPT ![t] = @ \union {s.table}]
    /\ UNCHANGED <<serverVars, cache, made, mixed, unsent>>

\* QuackInsert::Sink: an APPEND, with or without a transaction at the server.
Insert(t, s) ==
    /\ s.op = "insert"
    /\ Execute(t, s)
    /\ Goto(t, "statement")
    /\ UNCHANGED <<serverVars, cache, state, historyVars>>

\* After the server's success the entry is made or dropped locally.
Register(t) ==
    /\ Step(t, "register", "idle")
    /\ cache' = IF stmt[t].op = "create" THEN cache \union {stmt[t].table}
                                         ELSE cache \ {stmt[t].table}
    /\ UNCHANGED <<serverVars, state, stmt, count, historyVars>>

\* Slip: the state is set first and then looked at.
CommitUnsent(t) ==
    /\ Step(t, "idle", "committed")
    /\ SetState(t, "FINISHED")
    /\ UNCHANGED <<serverVars, cache, stmt, count, historyVars>>

\* QuackTransaction::Commit: COMMIT is sent if BEGIN was.
Commit(t) ==
    /\ \/ /\ state[t] = "STARTED"
          /\ Step(t, "idle", "commit")
          /\ SetState(t, "FINISHED")
       \/ /\ state[t] # "STARTED"
          /\ Step(t, "idle", "committed")
          /\ UNCHANGED state
    /\ UNCHANGED <<serverVars, cache, stmt, count, historyVars>>

\* Slip: after an error nothing is rolled back at the server.
RollbackIdle(t) ==
    /\ \/ /\ state[t] = "STARTED"
          /\ Step(t, "idle", "rollback")
          /\ SetState(t, "FINISHED")
       \/ /\ pc[t] = "doomed" \/ (pc[t] = "idle" /\ state[t] # "STARTED")
          /\ Goto(t, "rolledBack")
          /\ UNCHANGED state
    /\ UNCHANGED <<serverVars, cache, stmt, count, historyVars>>

\* QuackTransaction::Rollback, after an error or on demand.
Rollback(t) ==
    /\ pc[t] \in {"idle", "doomed"}
    /\ \/ /\ state[t] = "STARTED"
          /\ Goto(t, "rollback")
          /\ SetState(t, "FINISHED")
       \/ /\ state[t] # "STARTED"
          /\ Goto(t, "rolledBack")
          /\ UNCHANGED state
    /\ UNCHANGED <<serverVars, cache, stmt, count, historyVars>>

\* The ClientContext is destroyed: Rollback finds no context and Query drops
\* the ROLLBACK without a word.
ContextDestroyed(t) ==
    /\ pc[t] \in {"idle", "doomed"}
    /\ Goto(t, "lost")
    /\ IF state[t] = "STARTED" THEN SetState(t, "FINISHED") ELSE UNCHANGED state
    /\ unsent' = unsent \union {t}
    /\ UNCHANGED <<serverVars, cache, stmt, count, touched, made, mixed>>

-----------------------------------------------------------------------------
(* Requests at the server, one at a time under the session lock, and their *)
(* answers.                                                                *)

\* A request while somebody else's BEGIN is in force concerns both.
Meets(t) ==
    mixed' = IF open /\ owner # t THEN mixed \union {t, owner} ELSE mixed

\* What statement s of t makes of the facts d.
Fact(t, s) ==
    [kind |-> IF s.op = "create" THEN "table" ELSE "row",
     table |-> s.table, by |-> t, begun |-> touched[t] # {}]

Apply(t, s, d) ==
    IF s.op = "drop" THEN {f \in d : f.table # s.table} ELSE d \union {Fact(t, s)}

Exists(k, d) == \E f \in d : f.kind = "table" /\ f.table = k

Possible(s, d) == (s.op = "create") # Exists(s.table, d)

View == IF open THEN work ELSE db

\* The answer takes t to l unless it is lost ("Failed to send message").
Answer(t, l, lost) == Goto(t, l) \/ Goto(t, lost)

\* BEGIN TRANSACTION.
BeginAccepted(t) ==
    /\ pc[t] = "begin" /\ Answer(t, "statement", "doomed")
    /\ ~open
    /\ open' = TRUE /\ aborted' = FALSE /\ work' = db /\ owner' = t
    /\ UNCHANGED <<db, cache, state, stmt, count, historyVars>>

\* "cannot start a transaction within a transaction"
BeginRefused(t) ==
    /\ Step(t, "begin", "doomed")
    /\ open
    /\ Meets(t)
    /\ aborted' \in {aborted, TRUE}
    /\ UNCHANGED <<db, open, work, owner, cache, state, stmt, count, touched,
                   made, unsent>>

\* PREPARE with the DDL statement, or APPEND; in autocommit if no transaction
\* is open.
StatementSucceeds(t) ==
    /\ pc[t] = "statement"
    /\ ~(open /\ aborted)
    /\ Possible(stmt[t], View)
    /\ IF open THEN work' = Apply(t, stmt[t], work) /\ UNCHANGED db
               ELSE db' = Apply(t, stmt[t], db) /\ UNCHANGED work
    /\ made' = [made EXCEPT ![t] =
                  IF touched[t] # {} THEN Apply(t, stmt[t], @) ELSE @]
    /\ Meets(t)
    /\ Answer(t, IF stmt[t].op = "insert" THEN "idle" ELSE "register", "doomed")
    /\ UNCHANGED <<open, aborted, owner, cache, state, stmt, count, touched,
                   unsent>>

\* Slip: the local entry is made whatever the server answers.
StatementFailsUnseen(t) ==
    /\ pc[t] = "statement"
    /\ Meets(t)
    /\ Goto(t, IF stmt[t].op = "insert" THEN "idle" ELSE "register")
    /\ UNCHANGED <<serverVars, cache, state, stmt, count, touched, made,
                   unsent>>

\* Any error: one of the kind that leaves transactions alone, or another.
StatementFails(t) ==
    /\ pc[t] = "statement"
    /\ Meets(t)
    /\ \/ Goto(t, "idle") /\ ~aborted /\ UNCHANGED aborted
       \/ Goto(t, "doomed") /\ aborted' \in {aborted, open}
    /\ UNCHANGED <<db, open, work, owner, cache, state, stmt, count, touched,
                   made, unsent>>

Close == open' = FALSE /\ aborted' = FALSE /\ work' = {} /\ owner' = NoTxn

CommitSucceeds(t) ==
    /\ pc[t] = "commit" /\ Answer(t, "committed", "commitFailed")
    /\ open /\ ~aborted
    /\ Meets(t)
    /\ db' = work
    /\ Close
    /\ UNCHANGED <<cache, state, stmt, count, touched, made, unsent>>

\* There is no transaction, or it was invalidated and is now gone.
CommitFails(t) ==
    /\ pc[t] = "commit"
    /\ \/ ~open /\ Goto(t, "commitFailed")
       \/ open /\ aborted /\ \E l \in {"committed", "commitFailed"} : Goto(t, l)
    /\ Meets(t)
    /\ Close
    /\ UNCHANGED <<db, cache, state, stmt, count, touched, made, unsent>>

\* ROLLBACK of whatever transaction the connection has, if any.
RollbackArrives(t) ==
    /\ Step(t, "rollback", "rolledBack")
    /\ Meets(t)
    /\ Close
    /\ UNCHANGED <<db, cache, state, stmt, count, touched, made, unsent>>

\* "Failed to send message": the request never reaches the server.
Undelivered(t) ==
    /\ \/ pc[t] \in {"begin", "statement"} /\ Goto(t, "doomed")
       \/ Step(t, "commit", "commitFailed")
       \/ Step(t, "rollback", "rolledBack")
    /\ unsent' = IF pc[t] \in {"commit", "rollback"} THEN unsent \union {t}
                                                      ELSE unsent
    /\ UNCHANGED <<serverVars, cache, state, stmt, count, touched, made, mixed>>

-----------------------------------------------------------------------------

ClientStep(t) ==
    \/ StartTransaction(t) \/ Register(t) \/ Commit(t) \/ Rollback(t)
    \/ ContextDestroyed(t)
    \/ \E s \in Statements : Ddl(t, s) \/ Insert(t, s)

ServerStep(t) ==
    \/ BeginAccepted(t) \/ BeginRefused(t)
    \/ StatementSucceeds(t) \/ StatementFails(t)
    \/ CommitSucceeds(t) \/ CommitFails(t) \/ RollbackArrives(t)
    \/ Undelivered(t)

Next == \E t \in Txns : ClientStep(t) \/ ServerStep(t)

Spec == Init /\ [][Next]_vars

-----------------------------------------------------------------------------
(* Properties.                                                             *)

\* Types; the state is STARTED from the BEGIN to the COMMIT or ROLLBACK and
\* FINISHED after it (QuackTransactionState).
TypeOK ==
    /\ db \subseteq Facts /\ work \subseteq Facts
    /\ open \in BOOLEAN /\ aborted \in BOOLEAN
    /\ owner \in Txns \union {NoTxn}
    /\ open <=> owner # NoTxn
    /\ cache \subseteq Tables
    /\ state \in [Txns -> {"NOT_YET_STARTED", "STARTED", "FINISHED"}]
    /\ pc \in [Txns -> {"none", "idle", "begin", "statement", "register",
                        "doomed", "commit", "rollback"} \union Ended]
    /\ stmt \in [Txns -> Statements \union {NoStatement}]
    /\ count \in [Txns -> 0..MaxStatements]
    /\ touched \in [Txns -> SUBSET Tables]
    /\ made \in [Txns -> SUBSET Facts]
    /\ mixed \subseteq Txns /\ unsent \subseteq Txns
    /\ \A t \in Txns :
         /\ pc[t] \in {"begin", "register"} => state[t] = "STARTED"
         /\ pc[t] \in {"commit", "rollback"} => state[t] = "FINISHED"
         /\ pc[t] \in Ended => state[t] # "STARTED"

\* The connection's transaction does not outlive the local transaction that
\* began it, unless that one's last request never reached the server
\* (QuackTransaction::Commit, Rollback, Query).
LeftOpenOnlyIfUnsent ==
    open => owner \in unsent \/ pc[owner] \notin Ended

\* A transaction that shared the connection with nobody else's leaves nothing
\* of its DDL, nor of what it did afterwards, when it is not committed; what it
\* inserted before stays (QuackTransaction::ForceStart, Rollback).
RollbackUndoesUnlessMixed ==
    \A t \in Txns \ mixed :
        pc[t] \in {"rolledBack", "lost"} => \A f \in db : f.by = t => ~f.begun

\* Facts that t made from its first DDL statement on.
Begun(t, d) == {f \in d : f.by = t /\ f.begun}

\* ... and none of that is in the database before it sends COMMIT: then all the
\* server has acknowledged gets there at once, and has when the transaction is
\* told that it is committed (QuackTransactionManager::CommitTransaction).
CommitIsAtomicUnlessMixed ==
    [][\A t \in Txns \ mixed' :
         /\ \/ Begun(t, db') \subseteq db
            \/ pc[t] = "commit" /\ Begun(t, db') = made[t]
         /\ pc[t] # "committed" /\ pc'[t] = "committed" =>
               made[t] \subseteq db']_vars

\* The local catalog has exactly the tables of the server, but for those whose
\* DDL is under way, was undone, or shared the connection with another
\* transaction (QuackSchemaCatalogEntry, QuackCatalogSet).
CacheAgreesUnlessUndone ==
    LET open_ == UNION {touched[t] : t \in {x \in Txns :
                            x \in mixed \/ pc[x] # "committed"}}
    IN  \A k \in Tables \ open_ : k \in cache <=> Exists(k, db)

=============================================================================
