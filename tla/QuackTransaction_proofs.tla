----------------------- MODULE QuackTransaction_proofs -----------------------
(***************************************************************************)
(* Proofs about QuackTransaction, for any local transactions and tables.   *)
(* The inductive invariant says what the server's connection holds for a   *)
(* local transaction that has met no other one, and what the local catalog *)
(* knows of a table that at most one of them is changing.                  *)
(***************************************************************************)
EXTENDS QuackTransaction, TLAPS

\* Where a local transaction can go on with a statement.
Running == {"idle", "statement", "register"}

\* What a local transaction's state says of its statements.
StateInv ==
    \A t \in Txns :
      /\ pc[t] = "none" => state[t] = "NOT_YET_STARTED" /\ touched[t] = {}
      /\ pc[t] \in Running =>
           state[t] = IF touched[t] = {} THEN "NOT_YET_STARTED" ELSE "STARTED"
      /\ pc[t] \in {"begin", "statement", "register"} => stmt[t] \in Statements
      /\ pc[t] = "statement" /\ stmt[t].op # "insert" => state[t] = "STARTED"
      /\ pc[t] = "begin" => touched[t] # {} /\ made[t] = {}
      /\ touched[t] = {} => made[t] = {}

PhaseInv == TypeOK /\ StateInv

\* The connection's transaction is that of a local transaction that knows it.
OwnerInv ==
    open =>
      /\ pc[owner] # "none"
      /\ pc[owner] \in Running \union {"doomed"} => state[owner] = "STARTED"
      /\ pc[owner] \in Ended => owner \in unsent

\* A local transaction that met no other one has the connection to itself, from
\* its BEGIN to its COMMIT.
AloneInv ==
    \A t \in Txns \ mixed :
        \/ pc[t] \in Running /\ state[t] = "STARTED"
        \/ pc[t] = "commit"
        => open /\ owner = t /\ ~aborted /\ made[t] \subseteq work

\* Who can have committed what it did from its first DDL statement on.
Kept(t) == t \in mixed \/ pc[t] \in {"committed", "commitFailed"}

UndoInv ==
    /\ \A f \in db : f.begun => Kept(f.by)
    /\ open => \A f \in work : f.begun => f.by = owner \/ Kept(f.by)

\* A DDL statement is on a table its transaction has touched; only DDL is
\* registered.
StatementInv ==
    \A t \in Txns :
      /\ pc[t] = "register" => stmt[t].op # "insert"
      /\ pc[t] \in {"begin", "statement", "register"} /\ stmt[t].op # "insert"
           => stmt[t].table \in touched[t]

\* t has done nothing to table k at the server, or all of it for good.
Quiet(t, k) ==
    k \in touched[t] => t \notin mixed /\ pc[t] \in {"begin", "committed"}

\* A table nobody is about to change is in the local catalog, at the server and
\* in the connection's transaction, or in none of them.
QuietInv ==
    \A k \in Tables :
      (\A t \in Txns : Quiet(t, k)) =>
         /\ k \in cache <=> Exists(k, db)
         /\ open => (Exists(k, work) <=> Exists(k, db))

\* Has t the connection to itself (AloneInv)?
Alone(t) ==
    /\ t \notin mixed
    /\ \/ pc[t] \in Running /\ state[t] = "STARTED"
       \/ pc[t] = "commit"

\* Has the server done t's statement on k that the local catalog has yet to?
Unregistered(t, k) == pc[t] = "register" /\ stmt[t].table = k

\* A table that only t changes, with the connection to itself, is in the local
\* catalog iff t sees it, but for the statement about to be registered.
UnderwayInv ==
    \A t \in Txns, k \in Tables :
      Alone(t) /\ k \in touched[t] /\ (\A x \in Txns \ {t} : Quiet(x, k)) =>
         Exists(k, work) <=> IF Unregistered(t, k) THEN stmt[t].op = "create"
                                                   ELSE k \in cache

CacheInv == StatementInv /\ QuietInv /\ UnderwayInv

\* What the connection's transaction has of t from its first DDL statement on:
\* if it is t's own, what the server has acknowledged, and if not, nothing that
\* is not committed.
AtomicInv ==
    \A t \in Txns \ mixed :
      /\ Alone(t) => Begun(t, work) = made[t]
      /\ open /\ owner # t => Begun(t, work) \subseteq db

IInv == PhaseInv /\ OwnerInv /\ AloneInv /\ UndoInv /\ CacheInv /\ AtomicInv

-----------------------------------------------------------------------------

\* A statement makes facts of facts.
LEMMA ApplyFacts ==
    ASSUME PhaseInv, NEW t \in Txns, pc[t] = "statement",
           NEW d \in SUBSET Facts
    PROVE  Apply(t, stmt[t], d) \in SUBSET Facts
<1>1. Fact(t, stmt[t]) \in Facts
  <2> DEFINE b == touched[t] # {}
             k == IF stmt[t].op = "create" THEN "table" ELSE "row"
  <2>1. b \in BOOLEAN /\ k \in {"table", "row"}  OBVIOUS
  <2>2. stmt[t].table \in Tables  BY DEF PhaseInv, StateInv, Statements
  <2> HIDE DEF b, k
  <2>3. [kind |-> k, table |-> stmt[t].table, by |-> t, begun |-> b] \in Facts
    BY <2>1, <2>2, Zenon DEF Facts
  <2> QED  BY <2>3, Zenon DEF Fact, b, k
<1> HIDE DEF Fact
<1> QED  BY <1>1 DEF Apply

\* The only new fact is one by t, and it is begun iff t has begun.
LEMMA ApplyBegun ==
    ASSUME NEW t, NEW d, NEW f \in Apply(t, stmt[t], d), f.begun
    PROVE  f \in d \/ (f.by = t /\ touched[t] # {})
<1>1. f \in d \/ f = Fact(t, stmt[t])  BY Zenon DEF Apply
<1>2. Fact(t, stmt[t]).begun = (touched[t] # {})  BY Zenon DEF Fact
<1>3. Fact(t, stmt[t]).by = t  BY Zenon DEF Fact
<1> QED  BY <1>1, <1>2, <1>3, Zenon

\* A statement does to a smaller set what it does to a larger one.
LEMMA ApplyMonotonic ==
    ASSUME NEW t, NEW d, NEW e, d \subseteq e
    PROVE  Apply(t, stmt[t], d) \subseteq Apply(t, stmt[t], e)
BY DEF Apply

\* From its BEGIN on, t finds of its own what it has put there.
LEMMA ApplyOwn ==
    ASSUME NEW t, touched[t] # {}, NEW d
    PROVE  Begun(t, Apply(t, stmt[t], d)) = Apply(t, stmt[t], Begun(t, d))
<1>1. Fact(t, stmt[t]).begun  BY Zenon DEF Fact
<1>2. Fact(t, stmt[t]).by = t  BY Zenon DEF Fact
<1> HIDE DEF Fact
<1> QED  BY <1>1, <1>2 DEF Apply, Begun

\* A statement adds nothing that others made, or that t made before its BEGIN.
LEMMA ApplyOthers ==
    ASSUME NEW t, NEW x, x # t \/ touched[t] = {}, NEW d
    PROVE  Begun(x, Apply(t, stmt[t], d)) \subseteq Begun(x, d)
<1> SUFFICES ASSUME NEW f \in Apply(t, stmt[t], d), f.by = x, f.begun
             PROVE  f \in d
  BY Zenon DEF Begun
<1> QED  BY ApplyBegun, Zenon

\* A statement changes the existence of its own table only, and only by DDL.
LEMMA ApplyExists ==
    ASSUME NEW t \in Txns, stmt[t] \in Statements, NEW d, NEW k
    PROVE  Exists(k, Apply(t, stmt[t], d)) <=>
             IF stmt[t].op # "insert" /\ stmt[t].table = k
             THEN stmt[t].op = "create" ELSE Exists(k, d)
<1>1. Fact(t, stmt[t]).kind = IF stmt[t].op = "create" THEN "table" ELSE "row"
  BY Zenon DEF Fact
<1>2. Fact(t, stmt[t]).table = stmt[t].table  BY Zenon DEF Fact
<1>3. stmt[t].op \in {"create", "drop", "insert"}  BY DEF Statements
<1> HIDE DEF Fact
<1> QED  BY <1>1, <1>2, <1>3 DEF Apply, Exists

LEMMA InitIInv == Init => IInv
<1> SUFFICES ASSUME Init  PROVE IInv  OBVIOUS
<1> USE TransactionAssumption DEF Init, Running, Ended
<1>1. TypeOK
  <2>1. stmt \in [Txns -> Statements \union {NoStatement}]  OBVIOUS
  <2>2. count \in [Txns -> 0..MaxStatements]  OBVIOUS
  <2>3. touched \in [Txns -> SUBSET Tables] /\ made \in [Txns -> SUBSET Facts]
    OBVIOUS
  <2> QED  BY <2>1, <2>2, <2>3 DEF TypeOK
<1>2. StateInv  BY DEF StateInv
<1>3. OwnerInv  BY DEF OwnerInv
<1>4. AloneInv  BY DEF AloneInv
<1>5. UndoInv  BY DEF UndoInv
<1>6. CacheInv
  BY DEF CacheInv, StatementInv, QuietInv, UnderwayInv, Alone, Exists
<1>7. AtomicInv  BY DEF AtomicInv, Alone
<1> QED  BY <1>1, <1>2, <1>3, <1>4, <1>5, <1>6, <1>7 DEF IInv, PhaseInv

\* Types.
LEMMA TypeStep ==
    ASSUME PhaseInv, [Next]_vars
    PROVE  TypeOK'
<1> USE TransactionAssumption DEF PhaseInv, StateInv, TypeOK, Running, Ended
<1>1. CASE UNCHANGED vars
    BY <1>1 DEF vars, serverVars, localVars, historyVars
<1>2. ASSUME NEW t \in Txns, ClientStep(t) \/ ServerStep(t)  PROVE TypeOK'
  <2>1. ASSUME StartTransaction(t)  PROVE TypeOK'
    BY <2>1 DEF StartTransaction, Step, Goto,
           serverVars, localVars, historyVars
  <2>2. ASSUME Register(t)  PROVE TypeOK'
    <3>1. stmt[t].table \in Tables
      BY <2>2 DEF Register, Step, Statements
    <3>2. cache' \subseteq Tables
      BY <2>2, <3>1 DEF Register
    <3> QED
      BY <2>2, <3>2 DEF Register, Step, Goto,
             serverVars, localVars, historyVars
  <2>3. ASSUME Commit(t)  PROVE TypeOK'
    BY <2>3 DEF Commit, Step, Goto, SetState,
           serverVars, localVars, historyVars
  <2>4. ASSUME Rollback(t)  PROVE TypeOK'
    BY <2>4 DEF Rollback, Goto, SetState,
           serverVars, localVars, historyVars
  <2>5. ASSUME ContextDestroyed(t)  PROVE TypeOK'
    BY <2>5 DEF ContextDestroyed, Goto, SetState,
           serverVars, localVars, historyVars
  <2>6. ASSUME NEW s \in Statements, Ddl(t, s)  PROVE TypeOK'
    <3>1. touched' \in [Txns -> SUBSET Tables]
      BY <2>6 DEF Ddl, Statements
    <3>2. /\ stmt' \in [Txns -> Statements \union {NoStatement}]
          /\ count' \in [Txns -> 0..MaxStatements]
      BY <2>6 DEF Ddl, Execute
    <3>3. /\ pc' = [pc EXCEPT ![t] = pc'[t]]
          /\ pc'[t] \in {"begin", "statement"}
          /\ state' = [state EXCEPT ![t] = "STARTED"]
      BY <2>6 DEF Ddl, Goto, SetState
    <3> QED
      BY <2>6, <3>1, <3>2, <3>3 DEF Ddl, serverVars
  <2>7. ASSUME NEW s \in Statements, Insert(t, s)  PROVE TypeOK'
    BY <2>7 DEF Insert, Execute, Goto,
           serverVars, localVars, historyVars
  <2>8. ASSUME BeginAccepted(t)  PROVE TypeOK'
    BY <2>8 DEF BeginAccepted, Answer, Goto,
           serverVars, localVars, historyVars
  <2>9. ASSUME BeginRefused(t)  PROVE TypeOK'
    BY <2>9 DEF BeginRefused, Step, Goto, Meets,
           serverVars, localVars, historyVars
  <2>10. ASSUME StatementSucceeds(t)  PROVE TypeOK'
    BY <2>10, ApplyFacts
       DEF StatementSucceeds, Answer, Goto, Meets, View, PhaseInv
  <2>11. ASSUME StatementFails(t)  PROVE TypeOK'
    BY <2>11 DEF StatementFails, Goto, Meets,
           serverVars, localVars, historyVars
  <2>12. ASSUME CommitSucceeds(t)  PROVE TypeOK'
    BY <2>12 DEF CommitSucceeds, Answer, Goto, Meets, Close,
           serverVars, localVars, historyVars
  <2>13. ASSUME CommitFails(t)  PROVE TypeOK'
    <3>1. mixed' \subseteq Txns
      BY <2>13 DEF CommitFails, Meets
    <3>2. /\ pc' = [pc EXCEPT ![t] = pc'[t]]
          /\ pc'[t] \in {"committed", "commitFailed"}
      BY <2>13 DEF CommitFails, Goto
    <3>3. state[t] = "FINISHED"
      BY <2>13 DEF CommitFails
    <3>4. /\ pc' \in [Txns -> {"none", "idle", "begin", "statement", "register",
                            "doomed", "commit", "rollback"} \union Ended]
          /\ \A x \in Txns : pc'[x] = pc[x] \/ (x = t /\ pc'[x] \in Ended)
      BY <3>2
    <3>5. \A x \in Txns :
            /\ pc'[x] \in {"begin", "register"} => state[x] = "STARTED"
            /\ pc'[x] \in {"commit", "rollback"} => state[x] = "FINISHED"
            /\ pc'[x] \in Ended => state[x] # "STARTED"
      BY <3>3, <3>4
    <3> QED
      BY <2>13, <3>1, <3>4, <3>5 DEF CommitFails, Close
  <2>14. ASSUME RollbackArrives(t)  PROVE TypeOK'
    BY <2>14 DEF RollbackArrives, Step, Goto, Meets, Close,
           serverVars, localVars, historyVars
  <2>15. ASSUME Undelivered(t)  PROVE TypeOK'
    BY <2>15 DEF Undelivered, Step, Goto,
           serverVars, localVars, historyVars
  <2> QED
    BY <1>2, <2>1, <2>2, <2>3, <2>4, <2>5, <2>6, <2>7, <2>8,
       <2>9, <2>10, <2>11, <2>12, <2>13, <2>14, <2>15
       DEF ClientStep, ServerStep
<1> QED  BY <1>1, <1>2 DEF Next

\* The states of local transactions.
LEMMA StateStep ==
    ASSUME PhaseInv, [Next]_vars
    PROVE  StateInv'
<1> USE TransactionAssumption DEF PhaseInv, StateInv, TypeOK, Running, Ended
<1>1. CASE UNCHANGED vars
    BY <1>1 DEF vars, serverVars, localVars, historyVars
<1>2. ASSUME NEW t \in Txns, ClientStep(t) \/ ServerStep(t)  PROVE StateInv'
  <2>1. ASSUME StartTransaction(t)  PROVE StateInv'
    BY <2>1 DEF StartTransaction, Step, Goto,
           serverVars, localVars, historyVars
  <2>2. ASSUME Register(t)  PROVE StateInv'
    BY <2>2 DEF Register, Step, Goto,
           serverVars, localVars, historyVars
  <2>3. ASSUME Commit(t)  PROVE StateInv'
    BY <2>3 DEF Commit, Step, Goto, SetState,
           serverVars, localVars, historyVars
  <2>4. ASSUME Rollback(t)  PROVE StateInv'
    BY <2>4 DEF Rollback, Goto, SetState,
           serverVars, localVars, historyVars
  <2>5. ASSUME ContextDestroyed(t)  PROVE StateInv'
    BY <2>5 DEF ContextDestroyed, Goto, SetState,
           serverVars, localVars, historyVars
  <2>6. ASSUME NEW s \in Statements, Ddl(t, s)  PROVE StateInv'
    BY <2>6 DEF Ddl, Execute, Goto, SetState,
           serverVars, localVars, historyVars
  <2>7. ASSUME NEW s \in Statements, Insert(t, s)  PROVE StateInv'
    BY <2>7 DEF Insert, Execute, Goto,
           serverVars, localVars, historyVars
  <2>8. ASSUME BeginAccepted(t)  PROVE StateInv'
    BY <2>8 DEF BeginAccepted, Answer, Goto,
           serverVars, localVars, historyVars
  <2>9. ASSUME BeginRefused(t)  PROVE StateInv'
    BY <2>9 DEF BeginRefused, Step, Goto, Meets,
           serverVars, localVars, historyVars
  <2>10. ASSUME StatementSucceeds(t)  PROVE StateInv'
    BY <2>10 DEF StatementSucceeds, Answer, Goto, Meets,
           serverVars, localVars, historyVars
  <2>11. ASSUME StatementFails(t)  PROVE StateInv'
    BY <2>11 DEF StatementFails, Goto, Meets,
           serverVars, localVars, historyVars
  <2>12. ASSUME CommitSucceeds(t)  PROVE StateInv'
    BY <2>12 DEF CommitSucceeds, Answer, Goto, Meets, Close,
           serverVars, localVars, historyVars
  <2>13. ASSUME CommitFails(t)  PROVE StateInv'
    BY <2>13 DEF CommitFails, Goto, Meets, Close,
           serverVars, localVars, historyVars
  <2>14. ASSUME RollbackArrives(t)  PROVE StateInv'
    BY <2>14 DEF RollbackArrives, Step, Goto, Meets, Close,
           serverVars, localVars, historyVars
  <2>15. ASSUME Undelivered(t)  PROVE StateInv'
    BY <2>15 DEF Undelivered, Step, Goto,
           serverVars, localVars, historyVars
  <2> QED
    BY <1>2, <2>1, <2>2, <2>3, <2>4, <2>5, <2>6, <2>7, <2>8,
       <2>9, <2>10, <2>11, <2>12, <2>13, <2>14, <2>15
       DEF ClientStep, ServerStep
<1> QED  BY <1>1, <1>2 DEF Next

\* The connection's transaction.
LEMMA OwnerStep ==
    ASSUME PhaseInv, OwnerInv, [Next]_vars
    PROVE  OwnerInv'
<1> USE TransactionAssumption DEF PhaseInv, StateInv, TypeOK, OwnerInv, Running, Ended
<1>1. CASE UNCHANGED vars
    BY <1>1 DEF vars, serverVars, localVars, historyVars
<1>2. ASSUME NEW t \in Txns, ClientStep(t) \/ ServerStep(t)  PROVE OwnerInv'
  <2>1. ASSUME StartTransaction(t)  PROVE OwnerInv'
    BY <2>1 DEF StartTransaction, Step, Goto,
           serverVars, localVars, historyVars
  <2>2. ASSUME Register(t)  PROVE OwnerInv'
    BY <2>2 DEF Register, Step, Goto,
           serverVars, localVars, historyVars
  <2>3. ASSUME Commit(t)  PROVE OwnerInv'
    BY <2>3 DEF Commit, Step, Goto, SetState,
           serverVars, localVars, historyVars
  <2>4. ASSUME Rollback(t)  PROVE OwnerInv'
    BY <2>4 DEF Rollback, Goto, SetState,
           serverVars, localVars, historyVars
  <2>5. ASSUME ContextDestroyed(t)  PROVE OwnerInv'
    BY <2>5 DEF ContextDestroyed, Goto, SetState,
           serverVars, localVars, historyVars
  <2>6. ASSUME NEW s \in Statements, Ddl(t, s)  PROVE OwnerInv'
    BY <2>6 DEF Ddl, Execute, Goto, SetState,
           serverVars, localVars, historyVars
  <2>7. ASSUME NEW s \in Statements, Insert(t, s)  PROVE OwnerInv'
    BY <2>7 DEF Insert, Execute, Goto,
           serverVars, localVars, historyVars
  <2>8. ASSUME BeginAccepted(t)  PROVE OwnerInv'
    BY <2>8 DEF BeginAccepted, Answer, Goto,
           serverVars, localVars, historyVars
  <2>9. ASSUME BeginRefused(t)  PROVE OwnerInv'
    BY <2>9 DEF BeginRefused, Step, Goto, Meets,
           serverVars, localVars, historyVars
  <2>10. ASSUME StatementSucceeds(t)  PROVE OwnerInv'
    BY <2>10 DEF StatementSucceeds, Answer, Goto, Meets,
           serverVars, localVars, historyVars
  <2>11. ASSUME StatementFails(t)  PROVE OwnerInv'
    BY <2>11 DEF StatementFails, Goto, Meets,
           serverVars, localVars, historyVars
  <2>12. ASSUME CommitSucceeds(t)  PROVE OwnerInv'
    BY <2>12 DEF CommitSucceeds, Answer, Goto, Meets, Close,
           serverVars, localVars, historyVars
  <2>13. ASSUME CommitFails(t)  PROVE OwnerInv'
    BY <2>13 DEF CommitFails, Goto, Meets, Close,
           serverVars, localVars, historyVars
  <2>14. ASSUME RollbackArrives(t)  PROVE OwnerInv'
    BY <2>14 DEF RollbackArrives, Step, Goto, Meets, Close,
           serverVars, localVars, historyVars
  <2>15. ASSUME Undelivered(t)  PROVE OwnerInv'
    BY <2>15 DEF Undelivered, Step, Goto,
           serverVars, localVars, historyVars
  <2> QED
    BY <1>2, <2>1, <2>2, <2>3, <2>4, <2>5, <2>6, <2>7, <2>8,
       <2>9, <2>10, <2>11, <2>12, <2>13, <2>14, <2>15
       DEF ClientStep, ServerStep
<1> QED  BY <1>1, <1>2 DEF Next

\* Only its own requests touch the transaction of one that met no other.
LEMMA AloneStep ==
    ASSUME PhaseInv, AloneInv, [Next]_vars
    PROVE  AloneInv'
<1> USE TransactionAssumption DEF PhaseInv, StateInv, TypeOK, AloneInv, Running
<1>1. CASE UNCHANGED vars
    BY <1>1 DEF vars, serverVars, localVars, historyVars
<1>2. ASSUME NEW t \in Txns, ClientStep(t) \/ ServerStep(t)  PROVE AloneInv'
  <2>1. ASSUME StartTransaction(t)  PROVE AloneInv'
    BY <2>1 DEF StartTransaction, Step, Goto,
           serverVars, localVars, historyVars
  <2>2. ASSUME Register(t)  PROVE AloneInv'
    BY <2>2 DEF Register, Step, Goto,
           serverVars, localVars, historyVars
  <2>3. ASSUME Commit(t)  PROVE AloneInv'
    BY <2>3 DEF Commit, Step, Goto, SetState,
           serverVars, localVars, historyVars
  <2>4. ASSUME Rollback(t)  PROVE AloneInv'
    BY <2>4 DEF Rollback, Goto, SetState,
           serverVars, localVars, historyVars
  <2>5. ASSUME ContextDestroyed(t)  PROVE AloneInv'
    BY <2>5 DEF ContextDestroyed, Goto, SetState,
           serverVars, localVars, historyVars
  <2>6. ASSUME NEW s \in Statements, Ddl(t, s)  PROVE AloneInv'
    <3>1. CASE state[t] = "NOT_YET_STARTED"
      BY <2>6, <3>1 DEF Ddl, Execute, Goto, SetState, serverVars
    <3>2. CASE state[t] = "STARTED"
      BY <2>6, <3>2 DEF Ddl, Execute, Goto, SetState, serverVars
    <3> QED  BY <2>6, <3>1, <3>2 DEF Ddl, Execute
  <2>7. ASSUME NEW s \in Statements, Insert(t, s)  PROVE AloneInv'
    BY <2>7 DEF Insert, Execute, Goto,
           serverVars, localVars, historyVars
  <2>8. ASSUME BeginAccepted(t)  PROVE AloneInv'
    BY <2>8 DEF BeginAccepted, Answer, Goto,
           serverVars, localVars, historyVars
  <2>9. ASSUME BeginRefused(t)  PROVE AloneInv'
    BY <2>9 DEF BeginRefused, Step, Goto, Meets,
           serverVars, localVars, historyVars
  <2>10. ASSUME StatementSucceeds(t)  PROVE AloneInv'
    <3> SUFFICES ASSUME NEW x \in Txns \ mixed',
                        \/ pc'[x] \in Running /\ state'[x] = "STARTED"
                        \/ pc'[x] = "commit"
                 PROVE  open' /\ owner' = x /\ ~aborted' /\ made'[x] \subseteq work'
      BY DEF AloneInv
    <3>1. x \notin mixed /\ open' = open /\ owner' = owner /\ aborted' = aborted
      BY <2>10 DEF StatementSucceeds, Meets
    <3>2. CASE x = t
      <4>1. open /\ owner = t /\ ~aborted /\ made[t] \subseteq work
        BY <2>10, <3>1, <3>2 DEF StatementSucceeds, Answer, Goto
      <4>2. work' = Apply(t, stmt[t], work)
        BY <2>10, <4>1 DEF StatementSucceeds
      <4>3. touched[t] # {}
        BY <2>10, <3>2 DEF StatementSucceeds, Answer, Goto
      <4>4. made'[t] = Apply(t, stmt[t], made[t])
        BY <2>10, <4>3 DEF StatementSucceeds
      <4>5. Apply(t, stmt[t], made[t]) \subseteq Apply(t, stmt[t], work)
        BY <4>1, ApplyMonotonic
      <4>6. made'[t] \subseteq work'
        BY <4>2, <4>4, <4>5
      <4> QED  BY <3>1, <3>2, <4>1, <4>6
    <3>3. CASE x # t
      <4>1. pc'[x] = pc[x] /\ state' = state /\ made'[x] = made[x]
        BY <2>10, <3>3 DEF StatementSucceeds, Answer, Goto
      <4>2. open /\ owner = x
        BY <3>1, <4>1
      <4> QED  BY <2>10, <3>3, <4>2 DEF StatementSucceeds, Meets
    <3> QED  BY <3>2, <3>3
  <2>11. ASSUME StatementFails(t)  PROVE AloneInv'
    BY <2>11 DEF StatementFails, Goto, Meets,
           serverVars, localVars, historyVars
  <2>12. ASSUME CommitSucceeds(t)  PROVE AloneInv'
    BY <2>12 DEF CommitSucceeds, Answer, Goto, Meets, Close,
           serverVars, localVars, historyVars
  <2>13. ASSUME CommitFails(t)  PROVE AloneInv'
    BY <2>13 DEF CommitFails, Goto, Meets, Close,
           serverVars, localVars, historyVars
  <2>14. ASSUME RollbackArrives(t)  PROVE AloneInv'
    BY <2>14 DEF RollbackArrives, Step, Goto, Meets, Close,
           serverVars, localVars, historyVars
  <2>15. ASSUME Undelivered(t)  PROVE AloneInv'
    BY <2>15 DEF Undelivered, Step, Goto,
           serverVars, localVars, historyVars
  <2> QED
    BY <1>2, <2>1, <2>2, <2>3, <2>4, <2>5, <2>6, <2>7, <2>8,
       <2>9, <2>10, <2>11, <2>12, <2>13, <2>14, <2>15
       DEF ClientStep, ServerStep
<1> QED  BY <1>1, <1>2 DEF Next

\* What is committed comes from transactions that commit, or met another.
LEMMA UndoStep ==
    ASSUME PhaseInv, AloneInv, UndoInv, [Next]_vars
    PROVE  UndoInv'
<1> USE TransactionAssumption DEF PhaseInv, StateInv, TypeOK, AloneInv, UndoInv, Kept, Running, Facts
<1>1. CASE UNCHANGED vars
    BY <1>1 DEF vars, serverVars, localVars, historyVars
<1>2. ASSUME NEW t \in Txns, ClientStep(t) \/ ServerStep(t)  PROVE UndoInv'
  <2>1. ASSUME StartTransaction(t)  PROVE UndoInv'
    BY <2>1 DEF StartTransaction, Step, Goto,
           serverVars, localVars, historyVars
  <2>2. ASSUME Register(t)  PROVE UndoInv'
    BY <2>2 DEF Register, Step, Goto,
           serverVars, localVars, historyVars
  <2>3. ASSUME Commit(t)  PROVE UndoInv'
    BY <2>3 DEF Commit, Step, Goto, SetState,
           serverVars, localVars, historyVars
  <2>4. ASSUME Rollback(t)  PROVE UndoInv'
    BY <2>4 DEF Rollback, Goto, SetState,
           serverVars, localVars, historyVars
  <2>5. ASSUME ContextDestroyed(t)  PROVE UndoInv'
    BY <2>5 DEF ContextDestroyed, Goto, SetState,
           serverVars, localVars, historyVars
  <2>6. ASSUME NEW s \in Statements, Ddl(t, s)  PROVE UndoInv'
    BY <2>6 DEF Ddl, Execute, Goto, SetState,
           serverVars, localVars, historyVars
  <2>7. ASSUME NEW s \in Statements, Insert(t, s)  PROVE UndoInv'
    BY <2>7 DEF Insert, Execute, Goto,
           serverVars, localVars, historyVars
  <2>8. ASSUME BeginAccepted(t)  PROVE UndoInv'
    BY <2>8 DEF BeginAccepted, Answer, Goto,
           serverVars, localVars, historyVars
  <2>9. ASSUME BeginRefused(t)  PROVE UndoInv'
    BY <2>9 DEF BeginRefused, Step, Goto, Meets,
           serverVars, localVars, historyVars
  <2>10. ASSUME StatementSucceeds(t)  PROVE UndoInv'
    BY <2>10, ApplyBegun, ApplyFacts
       DEF StatementSucceeds, Answer, Goto, Meets
  <2>11. ASSUME StatementFails(t)  PROVE UndoInv'
    BY <2>11 DEF StatementFails, Goto, Meets,
           serverVars, localVars, historyVars
  <2>12. ASSUME CommitSucceeds(t)  PROVE UndoInv'
    BY <2>12 DEF CommitSucceeds, Answer, Goto, Meets, Close,
           serverVars, localVars, historyVars
  <2>13. ASSUME CommitFails(t)  PROVE UndoInv'
    BY <2>13 DEF CommitFails, Goto, Meets, Close,
           serverVars, localVars, historyVars
  <2>14. ASSUME RollbackArrives(t)  PROVE UndoInv'
    BY <2>14 DEF RollbackArrives, Step, Goto, Meets, Close,
           serverVars, localVars, historyVars
  <2>15. ASSUME Undelivered(t)  PROVE UndoInv'
    BY <2>15 DEF Undelivered, Step, Goto,
           serverVars, localVars, historyVars
  <2> QED
    BY <1>2, <2>1, <2>2, <2>3, <2>4, <2>5, <2>6, <2>7, <2>8,
       <2>9, <2>10, <2>11, <2>12, <2>13, <2>14, <2>15
       DEF ClientStep, ServerStep
<1> QED  BY <1>1, <1>2 DEF Next

\* Statements and the tables they touch.
LEMMA StatementStep ==
    ASSUME PhaseInv, StatementInv, [Next]_vars
    PROVE  StatementInv'
<1> USE TransactionAssumption DEF PhaseInv, StateInv, TypeOK, StatementInv, Statements, Running, Ended
<1>1. CASE UNCHANGED vars
    BY <1>1 DEF vars, serverVars, localVars, historyVars
<1>2. ASSUME NEW t \in Txns, ClientStep(t) \/ ServerStep(t)  PROVE StatementInv'
  <2>1. ASSUME StartTransaction(t)  PROVE StatementInv'
    BY <2>1 DEF StartTransaction, Step, Goto,
           serverVars, localVars, historyVars
  <2>2. ASSUME Register(t)  PROVE StatementInv'
    BY <2>2 DEF Register, Step, Goto,
           serverVars, localVars, historyVars
  <2>3. ASSUME Commit(t)  PROVE StatementInv'
    BY <2>3 DEF Commit, Step, Goto, SetState,
           serverVars, localVars, historyVars
  <2>4. ASSUME Rollback(t)  PROVE StatementInv'
    BY <2>4 DEF Rollback, Goto, SetState,
           serverVars, localVars, historyVars
  <2>5. ASSUME ContextDestroyed(t)  PROVE StatementInv'
    BY <2>5 DEF ContextDestroyed, Goto, SetState,
           serverVars, localVars, historyVars
  <2>6. ASSUME NEW s \in Statements, Ddl(t, s)  PROVE StatementInv'
    BY <2>6 DEF Ddl, Execute, Goto, SetState,
           serverVars, localVars, historyVars
  <2>7. ASSUME NEW s \in Statements, Insert(t, s)  PROVE StatementInv'
    BY <2>7 DEF Insert, Execute, Goto,
           serverVars, localVars, historyVars
  <2>8. ASSUME BeginAccepted(t)  PROVE StatementInv'
    BY <2>8 DEF BeginAccepted, Answer, Goto,
           serverVars, localVars, historyVars
  <2>9. ASSUME BeginRefused(t)  PROVE StatementInv'
    BY <2>9 DEF BeginRefused, Step, Goto, Meets,
           serverVars, localVars, historyVars
  <2>10. ASSUME StatementSucceeds(t)  PROVE StatementInv'
    BY <2>10 DEF StatementSucceeds, Answer, Goto, Meets,
           serverVars, localVars, historyVars
  <2>11. ASSUME StatementFails(t)  PROVE StatementInv'
    BY <2>11 DEF StatementFails, Goto, Meets,
           serverVars, localVars, historyVars
  <2>12. ASSUME CommitSucceeds(t)  PROVE StatementInv'
    BY <2>12 DEF CommitSucceeds, Answer, Goto, Meets, Close,
           serverVars, localVars, historyVars
  <2>13. ASSUME CommitFails(t)  PROVE StatementInv'
    BY <2>13 DEF CommitFails, Goto, Meets, Close,
           serverVars, localVars, historyVars
  <2>14. ASSUME RollbackArrives(t)  PROVE StatementInv'
    BY <2>14 DEF RollbackArrives, Step, Goto, Meets, Close,
           serverVars, localVars, historyVars
  <2>15. ASSUME Undelivered(t)  PROVE StatementInv'
    BY <2>15 DEF Undelivered, Step, Goto,
           serverVars, localVars, historyVars
  <2> QED
    BY <1>2, <2>1, <2>2, <2>3, <2>4, <2>5, <2>6, <2>7, <2>8,
       <2>9, <2>10, <2>11, <2>12, <2>13, <2>14, <2>15
       DEF ClientStep, ServerStep
<1> QED  BY <1>1, <1>2 DEF Next

\* A table nobody is about to change.
LEMMA QuietStep ==
    ASSUME PhaseInv, AloneInv, CacheInv, [Next]_vars
    PROVE  QuietInv'
<1> USE TransactionAssumption DEF PhaseInv, StateInv, TypeOK, AloneInv, CacheInv, StatementInv,
            QuietInv, UnderwayInv, Quiet, Alone, Unregistered, Running, Ended
<1>1. CASE UNCHANGED vars
    BY <1>1 DEF vars, serverVars, localVars, historyVars
<1>2. ASSUME NEW t \in Txns, ClientStep(t) \/ ServerStep(t)  PROVE QuietInv'
  <2>1. ASSUME StartTransaction(t)  PROVE QuietInv'
    BY <2>1 DEF StartTransaction, Step, Goto,
           serverVars, localVars, historyVars
  <2>2. ASSUME Register(t)  PROVE QuietInv'
    BY <2>2 DEF Register, Step, Goto,
           serverVars, localVars, historyVars
  <2>3. ASSUME Commit(t)  PROVE QuietInv'
    BY <2>3 DEF Commit, Step, Goto, SetState,
           serverVars, localVars, historyVars
  <2>4. ASSUME Rollback(t)  PROVE QuietInv'
    BY <2>4 DEF Rollback, Goto, SetState,
           serverVars, localVars, historyVars
  <2>5. ASSUME ContextDestroyed(t)  PROVE QuietInv'
    BY <2>5 DEF ContextDestroyed, Goto, SetState,
           serverVars, localVars, historyVars
  <2>6. ASSUME NEW s \in Statements, Ddl(t, s)  PROVE QuietInv'
    BY <2>6 DEF Ddl, Execute, Goto, SetState,
           serverVars, localVars, historyVars
  <2>7. ASSUME NEW s \in Statements, Insert(t, s)  PROVE QuietInv'
    BY <2>7 DEF Insert, Execute, Goto,
           serverVars, localVars, historyVars
  <2>8. ASSUME BeginAccepted(t)  PROVE QuietInv'
    BY <2>8 DEF BeginAccepted, Answer, Goto,
           serverVars, localVars, historyVars
  <2>9. ASSUME BeginRefused(t)  PROVE QuietInv'
    BY <2>9 DEF BeginRefused, Step, Goto, Meets,
           serverVars, localVars, historyVars
  <2>10. ASSUME StatementSucceeds(t)  PROVE QuietInv'
    <3> SUFFICES ASSUME NEW k \in Tables, \A x \in Txns : Quiet(x, k)'
                 PROVE  /\ k \in cache' <=> Exists(k, db)'
                        /\ open' => (Exists(k, work)' <=> Exists(k, db)')
      BY Zenon DEF QuietInv
    <3>1. \A x \in Txns : Quiet(x, k)
      BY <2>10 DEF StatementSucceeds, Answer, Goto, Meets
    <3>2. ~(stmt[t].op # "insert" /\ stmt[t].table = k)
      BY <2>10, <3>1 DEF StatementSucceeds
    <3>3. \A d : Exists(k, Apply(t, stmt[t], d)) <=> Exists(k, d)
      BY <2>10, <3>2, ApplyExists DEF StatementSucceeds
    <3>4. /\ k \in cache <=> Exists(k, db)
          /\ open => (Exists(k, work) <=> Exists(k, db))
      BY <3>1
    <3>5. /\ cache' = cache /\ open' = open
          /\ db' = db \/ db' = Apply(t, stmt[t], db)
          /\ open => work' = Apply(t, stmt[t], work) /\ db' = db
      BY <2>10 DEF StatementSucceeds
    <3>6. /\ Exists(k, db)' <=> Exists(k, db')
          /\ Exists(k, work)' <=> Exists(k, work')
      BY DEF Exists
    <3> HIDE DEF Apply, Exists
    <3> QED  BY <3>3, <3>4, <3>5, <3>6
  <2>11. ASSUME StatementFails(t)  PROVE QuietInv'
    BY <2>11 DEF StatementFails, Goto, Meets,
           serverVars, localVars, historyVars
  <2>12. ASSUME CommitSucceeds(t)  PROVE QuietInv'
    BY <2>12 DEF CommitSucceeds, Answer, Goto, Meets, Close,
           serverVars, localVars, historyVars
  <2>13. ASSUME CommitFails(t)  PROVE QuietInv'
    BY <2>13 DEF CommitFails, Goto, Meets, Close,
           serverVars, localVars, historyVars
  <2>14. ASSUME RollbackArrives(t)  PROVE QuietInv'
    BY <2>14 DEF RollbackArrives, Step, Goto, Meets, Close,
           serverVars, localVars, historyVars
  <2>15. ASSUME Undelivered(t)  PROVE QuietInv'
    BY <2>15 DEF Undelivered, Step, Goto,
           serverVars, localVars, historyVars
  <2> QED
    BY <1>2, <2>1, <2>2, <2>3, <2>4, <2>5, <2>6, <2>7, <2>8,
       <2>9, <2>10, <2>11, <2>12, <2>13, <2>14, <2>15
       DEF ClientStep, ServerStep
<1> QED  BY <1>1, <1>2 DEF Next

\* A table only one transaction changes.
LEMMA UnderwayStep ==
    ASSUME PhaseInv, AloneInv, CacheInv, [Next]_vars
    PROVE  UnderwayInv'
<1> USE TransactionAssumption DEF PhaseInv, StateInv, TypeOK, AloneInv, CacheInv, StatementInv,
            QuietInv, UnderwayInv, Quiet, Alone, Unregistered, Running, Ended
<1>1. CASE UNCHANGED vars
    BY <1>1 DEF vars, serverVars, localVars, historyVars
<1>2. ASSUME NEW t \in Txns, ClientStep(t) \/ ServerStep(t)  PROVE UnderwayInv'
  <2>1. ASSUME StartTransaction(t)  PROVE UnderwayInv'
    BY <2>1 DEF StartTransaction, Step, Goto,
           serverVars, localVars, historyVars
  <2>2. ASSUME Register(t)  PROVE UnderwayInv'
    BY <2>2 DEF Register, Step, Goto,
           serverVars, localVars, historyVars
  <2>3. ASSUME Commit(t)  PROVE UnderwayInv'
    BY <2>3 DEF Commit, Step, Goto, SetState,
           serverVars, localVars, historyVars
  <2>4. ASSUME Rollback(t)  PROVE UnderwayInv'
    BY <2>4 DEF Rollback, Goto, SetState,
           serverVars, localVars, historyVars
  <2>5. ASSUME ContextDestroyed(t)  PROVE UnderwayInv'
    BY <2>5 DEF ContextDestroyed, Goto, SetState,
           serverVars, localVars, historyVars
  <2>6. ASSUME NEW s \in Statements, Ddl(t, s)  PROVE UnderwayInv'
    BY <2>6 DEF Ddl, Execute, Goto, SetState,
           serverVars, localVars, historyVars
  <2>7. ASSUME NEW s \in Statements, Insert(t, s)  PROVE UnderwayInv'
    BY <2>7 DEF Insert, Execute, Goto,
           serverVars, localVars, historyVars
  <2>8. ASSUME BeginAccepted(t)  PROVE UnderwayInv'
    BY <2>8 DEF BeginAccepted, Answer, Goto,
           serverVars, localVars, historyVars
  <2>9. ASSUME BeginRefused(t)  PROVE UnderwayInv'
    BY <2>9 DEF BeginRefused, Step, Goto, Meets,
           serverVars, localVars, historyVars
  <2>10. ASSUME StatementSucceeds(t)  PROVE UnderwayInv'
    <3> SUFFICES ASSUME NEW x \in Txns, NEW k \in Tables, Alone(x)', k \in touched'[x],
                        \A y \in Txns \ {x} : Quiet(y, k)'
                 PROVE  Exists(k, work') <=>
                          IF Unregistered(x, k)' THEN stmt'[x].op = "create"
                                                 ELSE k \in cache'
      BY Zenon DEF UnderwayInv, Exists
    <3>1. /\ touched' = touched /\ stmt' = stmt /\ cache' = cache /\ state' = state
          /\ mixed \subseteq mixed' /\ open' = open /\ owner' = owner
          /\ \A y \in Txns \ {t} : pc'[y] = pc[y]
          /\ pc[t] = "statement" /\ pc'[t] \in {"idle", "register", "doomed"}
          /\ pc'[t] = "register" <=> (pc'[t] # "doomed" /\ stmt[t].op # "insert")
      BY <2>10 DEF StatementSucceeds, Answer, Goto, Meets
    <3>2. Alone(x)
      BY <3>1
    <3>3. \A y \in Txns \ {x} : Quiet(y, k)
      BY <3>1
    <3>4. open /\ owner = x
      BY <3>2
    <3>5. x = t
      BY <2>10, <3>4 DEF StatementSucceeds, Meets
    <3>6. work' = Apply(t, stmt[t], work)
      BY <2>10, <3>4 DEF StatementSucceeds
    <3>7. Exists(k, work) <=> k \in cache
      BY <3>1, <3>2, <3>3, <3>5
    <3>8. Exists(k, work') <=>
             IF stmt[t].op # "insert" /\ stmt[t].table = k
             THEN stmt[t].op = "create" ELSE Exists(k, work)
      BY <3>1, <3>6, ApplyExists
    <3>9. pc'[t] # "doomed"
      BY <3>5
    <3> QED  BY <3>1, <3>5, <3>7, <3>8, <3>9
  <2>11. ASSUME StatementFails(t)  PROVE UnderwayInv'
    BY <2>11 DEF StatementFails, Goto, Meets,
           serverVars, localVars, historyVars
  <2>12. ASSUME CommitSucceeds(t)  PROVE UnderwayInv'
    BY <2>12 DEF CommitSucceeds, Answer, Goto, Meets, Close,
           serverVars, localVars, historyVars
  <2>13. ASSUME CommitFails(t)  PROVE UnderwayInv'
    BY <2>13 DEF CommitFails, Goto, Meets, Close,
           serverVars, localVars, historyVars
  <2>14. ASSUME RollbackArrives(t)  PROVE UnderwayInv'
    BY <2>14 DEF RollbackArrives, Step, Goto, Meets, Close,
           serverVars, localVars, historyVars
  <2>15. ASSUME Undelivered(t)  PROVE UnderwayInv'
    BY <2>15 DEF Undelivered, Step, Goto,
           serverVars, localVars, historyVars
  <2> QED
    BY <1>2, <2>1, <2>2, <2>3, <2>4, <2>5, <2>6, <2>7, <2>8,
       <2>9, <2>10, <2>11, <2>12, <2>13, <2>14, <2>15
       DEF ClientStep, ServerStep
<1> QED  BY <1>1, <1>2 DEF Next

\* What is under way is the own statements', or committed.
LEMMA AtomicStep ==
    ASSUME PhaseInv, AloneInv, UndoInv, AtomicInv, [Next]_vars
    PROVE  AtomicInv'
<1> USE TransactionAssumption DEF PhaseInv, StateInv, TypeOK, AloneInv, AtomicInv, Alone, Running
<1>1. CASE UNCHANGED vars
    BY <1>1 DEF vars, serverVars, localVars, historyVars, Begun
<1>2. ASSUME NEW t \in Txns, ClientStep(t) \/ ServerStep(t)  PROVE AtomicInv'
  <2>1. ASSUME StartTransaction(t)  PROVE AtomicInv'
    BY <2>1 DEF StartTransaction, Step, Goto, Begun,
           serverVars, localVars, historyVars
  <2>2. ASSUME Register(t)  PROVE AtomicInv'
    BY <2>2 DEF Register, Step, Goto, Begun,
           serverVars, localVars, historyVars
  <2>3. ASSUME Commit(t)  PROVE AtomicInv'
    BY <2>3 DEF Commit, Step, Goto, SetState, Begun,
           serverVars, localVars, historyVars
  <2>4. ASSUME Rollback(t)  PROVE AtomicInv'
    BY <2>4 DEF Rollback, Goto, SetState, Begun,
           serverVars, localVars, historyVars
  <2>5. ASSUME ContextDestroyed(t)  PROVE AtomicInv'
    BY <2>5 DEF ContextDestroyed, Goto, SetState, Begun,
           serverVars, localVars, historyVars
  <2>6. ASSUME NEW s \in Statements, Ddl(t, s)  PROVE AtomicInv'
    BY <2>6 DEF Ddl, Execute, Goto, SetState, Begun,
           serverVars, localVars, historyVars
  <2>7. ASSUME NEW s \in Statements, Insert(t, s)  PROVE AtomicInv'
    BY <2>7 DEF Insert, Execute, Goto, Begun,
           serverVars, localVars, historyVars
  <2>8. ASSUME BeginAccepted(t)  PROVE AtomicInv'
    <3>1. t \notin mixed => Begun(t, db) = {}
      BY <2>8 DEF BeginAccepted, UndoInv, Kept, Begun
    <3> QED
      BY <2>8, <3>1 DEF BeginAccepted, Answer, Goto, Begun, historyVars
  <2>9. ASSUME BeginRefused(t)  PROVE AtomicInv'
    BY <2>9 DEF BeginRefused, Step, Goto, Meets, Begun,
           serverVars, localVars, historyVars
  <2>10. ASSUME StatementSucceeds(t)  PROVE AtomicInv'
    <3> SUFFICES ASSUME NEW x \in Txns \ mixed'
                 PROVE  /\ Alone(x)' => Begun(x, work') = made'[x]
                        /\ open' /\ owner' # x => Begun(x, work') \subseteq db'
      BY DEF AtomicInv, Begun
    <3>1. x \notin mixed /\ open' = open /\ owner' = owner
      BY <2>10 DEF StatementSucceeds, Meets
    <3>2. ASSUME Alone(x)'  PROVE Begun(x, work') = made'[x]
      <4>1. Alone(x)
        BY <2>10, <3>1, <3>2 DEF StatementSucceeds, Answer, Goto
      <4>2. open /\ owner = x /\ state[x] = "STARTED"
        BY <2>10, <3>1, <3>2, <4>1 DEF StatementSucceeds, Meets
      <4>3. x = t
        BY <2>10, <4>2 DEF StatementSucceeds, Meets
      <4>4. touched[t] # {}
        BY <2>10, <4>2, <4>3 DEF StatementSucceeds
      <4>5. /\ work' = Apply(t, stmt[t], work)
            /\ made'[t] = Apply(t, stmt[t], made[t])
        BY <2>10, <4>2, <4>4 DEF StatementSucceeds
      <4>6. Begun(t, work) = made[t]
        BY <3>1, <4>1, <4>3
      <4>7. Begun(t, Apply(t, stmt[t], work)) = Apply(t, stmt[t], Begun(t, work))
        BY <4>4, ApplyOwn, Zenon
      <4> HIDE DEF Apply, Begun
      <4> QED  BY <4>3, <4>5, <4>6, <4>7
    <3>3. ASSUME open, owner # x  PROVE Begun(x, work') \subseteq db'
      <4>1. x # t
        BY <2>10, <3>3 DEF StatementSucceeds, Meets
      <4>2. work' = Apply(t, stmt[t], work) /\ db' = db
        BY <2>10, <3>3 DEF StatementSucceeds
      <4>3. Begun(x, work) \subseteq db
        BY <3>1, <3>3
      <4>4. Begun(x, Apply(t, stmt[t], work)) \subseteq Begun(x, work)
        BY <4>1, ApplyOthers, Zenon
      <4> QED  BY <4>2, <4>3, <4>4, Zenon
    <3> QED  BY <3>1, <3>2, <3>3
  <2>11. ASSUME StatementFails(t)  PROVE AtomicInv'
    BY <2>11 DEF StatementFails, Goto, Meets, Begun,
           serverVars, localVars, historyVars
  <2>12. ASSUME CommitSucceeds(t)  PROVE AtomicInv'
    BY <2>12 DEF CommitSucceeds, Answer, Goto, Meets, Close, Begun,
           serverVars, localVars, historyVars
  <2>13. ASSUME CommitFails(t)  PROVE AtomicInv'
    BY <2>13 DEF CommitFails, Goto, Meets, Close, Begun,
           serverVars, localVars, historyVars
  <2>14. ASSUME RollbackArrives(t)  PROVE AtomicInv'
    BY <2>14 DEF RollbackArrives, Step, Goto, Meets, Close, Begun,
           serverVars, localVars, historyVars
  <2>15. ASSUME Undelivered(t)  PROVE AtomicInv'
    BY <2>15 DEF Undelivered, Step, Goto, Begun,
           serverVars, localVars, historyVars
  <2> QED
    BY <1>2, <2>1, <2>2, <2>3, <2>4, <2>5, <2>6, <2>7, <2>8,
       <2>9, <2>10, <2>11, <2>12, <2>13, <2>14, <2>15
       DEF ClientStep, ServerStep
<1> QED  BY <1>1, <1>2 DEF Next

-----------------------------------------------------------------------------

LEMMA NextIInv == IInv /\ [Next]_vars => IInv'
BY TypeStep, StateStep, OwnerStep, AloneStep, UndoStep, StatementStep,
   QuietStep, UnderwayStep, AtomicStep DEF IInv, PhaseInv, CacheInv

\* The inductive invariant holds in every state.
THEOREM Invariance == Spec => []IInv
<1>1. Init => IInv  BY InitIInv
<1>2. IInv /\ [Next]_vars => IInv'  BY NextIInv
<1> QED  BY <1>1, <1>2, PTL DEF Spec

\* Types; BEGIN has been sent exactly in the states that say so.
THEOREM TypeCorrect == Spec => []TypeOK
<1>1. IInv => TypeOK  BY DEF IInv, PhaseInv
<1> QED  BY <1>1, Invariance, PTL

\* A transaction at the server ends with the local one that began it, but for a
\* request that never arrived (QuackTransaction::Commit, Rollback, Query).
THEOREM NothingLeftOpen == Spec => []LeftOpenOnlyIfUnsent
<1>1. IInv => LeftOpenOnlyIfUnsent
    BY DEF IInv, OwnerInv, LeftOpenOnlyIfUnsent
<1> QED  BY <1>1, Invariance, PTL

\* Nothing remains of an uncommitted transaction that met no other one, from
\* its first DDL statement on (QuackTransaction::ForceStart, Rollback).
THEOREM RollbackUndoes == Spec => []RollbackUndoesUnlessMixed
<1>1. IInv => RollbackUndoesUnlessMixed
    BY DEF IInv, UndoInv, Kept, RollbackUndoesUnlessMixed
<1> QED  BY <1>1, Invariance, PTL

\* A table is in the local catalog iff it is at the server, unless its DDL is
\* under way, was undone, or shared the connection with another transaction
\* (QuackSchemaCatalogEntry, QuackCatalogSet).
THEOREM CacheAgrees == Spec => []CacheAgreesUnlessUndone
<1>1. IInv => CacheAgreesUnlessUndone
  <2> SUFFICES ASSUME IInv,
                      NEW k \in Tables \ UNION {touched[t] : t \in {x \in Txns :
                            x \in mixed \/ pc[x] # "committed"}}
               PROVE  k \in cache <=> Exists(k, db)
    BY DEF CacheAgreesUnlessUndone
  <2>1. \A t \in Txns : Quiet(t, k)  BY DEF Quiet
  <2> QED  BY <2>1 DEF IInv, CacheInv, QuietInv
<1> QED  BY <1>1, Invariance, PTL

\* A step that changes the database.
LEMMA DbSteps ==
    ASSUME IInv, NEW x \in Txns, ClientStep(x) \/ ServerStep(x), db' # db
    PROVE  StatementSucceeds(x) \/ CommitSucceeds(x)
<1>1. ~ClientStep(x)
  BY DEF ClientStep, StartTransaction, Register, Commit, Rollback,
         ContextDestroyed, Ddl, Insert, serverVars
<1>2. ~(BeginAccepted(x) \/ BeginRefused(x) \/ StatementFails(x))
  BY DEF BeginAccepted, BeginRefused, StatementFails
<1>3. ~(CommitFails(x) \/ RollbackArrives(x) \/ Undelivered(x))
  BY DEF CommitFails, RollbackArrives, Undelivered, serverVars
<1> QED  BY <1>1, <1>2, <1>3, Zenon DEF ServerStep

\* What a transaction that met no other one does gets into the database by its
\* COMMIT alone.
LEMMA CommitsAtOnce ==
    ASSUME IInv, [Next]_vars, NEW t \in Txns \ mixed'
    PROVE  \/ Begun(t, db') \subseteq db
           \/ pc[t] = "commit" /\ Begun(t, db') = made[t]
<1> USE TransactionAssumption
<1>1. CASE db' = db
  BY <1>1 DEF Begun
<1>2. CASE db' # db
  <2>1. PICK x \in Txns : ClientStep(x) \/ ServerStep(x)
    BY <1>2 DEF Next, vars, serverVars
  <2>2. CASE StatementSucceeds(x)
    <3>1. ~open /\ db' = Apply(x, stmt[x], db) /\ pc[x] = "statement" /\ t \notin mixed
      BY <1>2, <2>2 DEF StatementSucceeds, Meets
    <3>2. t # x \/ touched[x] = {}
      BY <3>1 DEF IInv, PhaseInv, StateInv, AloneInv, Running
    <3>3. Begun(t, Apply(x, stmt[x], db)) \subseteq Begun(t, db)
      BY <3>2, ApplyOthers, Zenon
    <3>4. Begun(t, db) \subseteq db
      BY DEF Begun
    <3> QED  BY <3>1, <3>3, <3>4, Zenon
  <2>3. CASE CommitSucceeds(x)
    <3>1. /\ open /\ db' = work /\ pc[x] = "commit" /\ t \notin mixed
          /\ owner = x \/ (t # x /\ t # owner)
      BY <2>3 DEF CommitSucceeds, Meets
    <3>2. CASE t = x
      BY <3>1, <3>2 DEF IInv, AtomicInv, Alone
    <3>3. CASE t # x
      BY <3>1, <3>3 DEF IInv, AtomicInv
    <3> QED  BY <3>2, <3>3
  <2> QED  BY <1>2, <2>1, <2>2, <2>3, DbSteps
<1> QED  BY <1>1, <1>2

\* A transaction that met no other one and is told that it is committed keeps
\* all the server has acknowledged.
LEMMA CommitKeeps ==
    ASSUME IInv, [Next]_vars, NEW t \in Txns,
           pc[t] # "committed", pc'[t] = "committed", t \notin mixed'
    PROVE  made[t] \subseteq db'
<1> USE TransactionAssumption DEF IInv, PhaseInv, StateInv, TypeOK, AloneInv, Running
<1>1. PICK x \in Txns : ClientStep(x) \/ ServerStep(x)
  BY DEF Next, vars, localVars
<1>2. x = t
  <2>1. CASE ClientStep(x)
    BY <2>1
       DEF ClientStep, StartTransaction, Register, Commit, Rollback,
           ContextDestroyed, Ddl, Insert, Step, Goto
  <2>2. CASE BeginAccepted(x) \/ StatementSucceeds(x) \/ CommitSucceeds(x)
    BY <2>2
       DEF BeginAccepted, StatementSucceeds, CommitSucceeds, Answer, Goto
  <2>3. CASE \/ BeginRefused(x) \/ StatementFails(x) \/ CommitFails(x)
             \/ RollbackArrives(x) \/ Undelivered(x)
    BY <2>3
       DEF BeginRefused, StatementFails, CommitFails, RollbackArrives,
           Undelivered, Step, Goto
  <2> QED  BY <1>1, <2>1, <2>2, <2>3 DEF ServerStep
<1>3. Commit(t) \/ CommitSucceeds(t) \/ CommitFails(t)
  BY <1>1, <1>2
     DEF ClientStep, ServerStep, StartTransaction, Register, Rollback,
         ContextDestroyed, Ddl, Insert, BeginAccepted, BeginRefused,
         StatementSucceeds, StatementFails, RollbackArrives, Undelivered,
         Step, Goto, Answer
<1>4. CASE Commit(t)
  BY <1>4 DEF Commit, Step, Goto
<1>5. CASE CommitSucceeds(t)
  BY <1>5 DEF CommitSucceeds, Meets
<1>6. CASE CommitFails(t)
  BY <1>6 DEF CommitFails, Meets, Goto
<1> QED  BY <1>4, <1>5, <1>6, <1>3

\* The database gets what a transaction that met no other one does from its
\* first DDL statement on at once, by its COMMIT, all the server has acknowledged
\* (QuackTransactionManager::CommitTransaction, QuackTransaction::ForceStart).
THEOREM CommitIsAtomic == Spec => CommitIsAtomicUnlessMixed
<1>1. IInv /\ [Next]_vars =>
        [\A t \in Txns \ mixed' :
           /\ \/ Begun(t, db') \subseteq db
              \/ pc[t] = "commit" /\ Begun(t, db') = made[t]
           /\ pc[t] # "committed" /\ pc'[t] = "committed" =>
                 made[t] \subseteq db']_vars
  BY CommitsAtOnce, CommitKeeps
<1> QED  BY <1>1, Invariance, PTL DEF Spec, CommitIsAtomicUnlessMixed

=============================================================================
