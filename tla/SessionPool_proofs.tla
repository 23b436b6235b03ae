-------------------------- MODULE SessionPool_proofs --------------------------
(***************************************************************************)
(* Theorems about SessionPool for any numbers of principals, requests, ids *)
(* and any settings of harbor_max_sessions: a statement runs alone, and    *)
(* one of POST /sql in a session of its own principal, the holder of a     *)
(* session's lock keeps the session, the limit holds, a logout ends every  *)
(* session, and the whole is the table of OwnedSessions.                   *)
(***************************************************************************)
EXTENDS SessionPool, FiniteSetTheorems, TLAPS

InSession == {"found", "waiting", "running", "reading"}

\* What a request holds at each place.
RequestKnows ==
    \A r \in Requests :
        /\ pc[r] \in {"idle", "insert", "copy"} => refs[r] = {}
        /\ pc[r] \in {"found", "running"} => kind[r] \in {"sql", "quack"}
        /\ pc[r] = "waiting" => kind[r] \in {"quack", "sessions"}
        /\ pc[r] \in InSession => at[r] \in refs[r]
        /\ pc[r] \in {"running", "reading"} => lock[at[r]] = r
        /\ pc[r] \in {"copy", "visit", "reading"} => kind[r] = "sessions"
        /\ pc[r] \in InSession /\ kind[r] = "sql" => owner[at[r]] = who[r]
        /\ pc[r] = "insert" => at[r] \in Ids

\* GET /sessions holds what it has yet to visit.
TodoIsHeld ==
    \A r \in Requests :
        /\ todo[r] \subseteq refs[r]
        /\ (pc[r] \notin {"visit", "waiting", "reading"} \/ kind[r] = "quack") => todo[r] = {}

\* A creation under way has its principal out of quit, and a limit that was
\* the setting once.
CreationKnows ==
    \A r \in Requests :
        /\ pc[r] = "insert" => who[r] \in Principals \ quit
        /\ limit[r] <= largest

SettingCounts == MaxSessions(setting) <= largest

IInv == TypeOK /\ RequestKnows /\ TodoIsHeld /\ LockHolderIsInside

CInv == IInv /\ CreationKnows /\ SettingCounts

\* The sessions that the limit counts.
Owned == {i \in active : owner[i] # None}

\* Every action keeps the type invariant.
LEMMA TypeStep == IInv /\ [Next]_vars => TypeOK'
<1> SUFFICES ASSUME IInv, [Next]_vars PROVE TypeOK'
  OBVIOUS
<1> USE PoolAssumption DEF PoolAssumption, IInv, RequestKnows, TypeOK, Owners, Kinds, PC, Step, Answered, requestVars
<1>1. ASSUME NEW r \in Requests, NEW p \in Principals, NEW i \in Ids, New(r, p, i)
      PROVE TypeOK'
  BY <1>1 DEF New, Arrive, MaxSessions
<1>2. ASSUME NEW r \in Requests, NEW k \in {"sql", "quack"}, NEW p \in Owners,
              NEW i \in Ids, Find(r, k, p, i)
      PROVE TypeOK'
  BY <1>2 DEF Find, Arrive
<1>3. ASSUME NEW i \in Ids, Connect(i)
      PROVE TypeOK'
  BY <1>3 DEF Connect
<1>4. ASSUME NEW r \in Requests, Acquire(r)
      PROVE TypeOK'
  BY <1>4 DEF Acquire, Lock
<1>5. ASSUME NEW r \in Requests, Finish(r)
      PROVE TypeOK'
  BY <1>5 DEF Finish
<1>6. ASSUME NEW r \in Requests, SnapshotLock(r)
      PROVE TypeOK'
  BY <1>6 DEF SnapshotLock, Arrive
<1>7. ASSUME NEW r \in Requests, Insert(r)
      PROVE TypeOK'
  BY <1>7 DEF Insert, Leave
<1>8. ASSUME NEW r \in Requests, InsertRefused(r)
      PROVE TypeOK'
  BY <1>8 DEF InsertRefused, Leave
<1>9. ASSUME NEW r \in Requests, TryLock(r)
      PROVE TypeOK'
  BY <1>9 DEF TryLock, Lock
<1>10. ASSUME NEW r \in Requests, Busy(r)
      PROVE TypeOK'
  BY <1>10 DEF Busy
<1>11. ASSUME NEW r \in Requests, Drop(r)
      PROVE TypeOK'
  BY <1>11 DEF Drop, Leave, Left
<1>12. ASSUME NEW r \in Requests, SnapshotCopy(r)
      PROVE TypeOK'
  BY <1>12 DEF SnapshotCopy
<1>13. ASSUME NEW r \in Requests, ReadLastQuery(r)
      PROVE TypeOK'
  BY <1>13 DEF ReadLastQuery
<1>14. ASSUME NEW r \in Requests, SnapshotEnd(r)
      PROVE TypeOK'
  BY <1>14 DEF SnapshotEnd
<1>15. ASSUME NEW r \in Requests, NEW i \in Ids, Visit(r, i)
      PROVE TypeOK'
  BY <1>15 DEF Visit
<1>16. CASE Cancel
  BY <1>16 DEF Cancel
<1>17. CASE CancelLookup
  BY <1>17 DEF CancelLookup
<1>18. ASSUME NEW i \in Ids, Disconnect(i)
      PROVE TypeOK'
  BY <1>18 DEF Disconnect, Left
<1>19. ASSUME NEW p \in Principals, Logout(p)
      PROVE TypeOK'
  BY <1>19 DEF Logout, Left
<1>20. ASSUME NEW s \in Settings, Set(s)
      PROVE TypeOK'
  BY <1>20 DEF Set, MaxSessions
<1>21. CASE UNCHANGED vars
  BY <1>21 DEF vars
<1> QED
  BY <1>1, <1>2, <1>3, <1>4, <1>5, <1>6, <1>7, <1>8, <1>9, <1>10, <1>11, <1>12, <1>13, <1>14, <1>15, <1>16, <1>17, <1>18, <1>19, <1>20, <1>21 DEF Next, Work, Sql, Statement, Delete

\* A listing gives up its sessions when it has visited all of them.
LEMMA TodoStep == IInv /\ [Next]_vars => TodoIsHeld'
<1> SUFFICES ASSUME IInv, [Next]_vars PROVE TodoIsHeld'
  OBVIOUS
<1> USE PoolAssumption DEF PoolAssumption, IInv, TodoIsHeld, RequestKnows, InSession, TypeOK, Owners, Kinds, PC, Step, Answered, requestVars
<1>1. ASSUME NEW r \in Requests, NEW p \in Principals, NEW i \in Ids, New(r, p, i)
      PROVE TodoIsHeld'
  BY <1>1 DEF New, Arrive
<1>2. ASSUME NEW r \in Requests, NEW k \in {"sql", "quack"}, NEW p \in Owners,
              NEW i \in Ids, Find(r, k, p, i)
      PROVE TodoIsHeld'
  BY <1>2 DEF Find, Arrive
<1>3. ASSUME NEW i \in Ids, Connect(i)
      PROVE TodoIsHeld'
  BY <1>3 DEF Connect
<1>4. ASSUME NEW r \in Requests, Acquire(r)
      PROVE TodoIsHeld'
  BY <1>4 DEF Acquire, Lock
<1>5. ASSUME NEW r \in Requests, Finish(r)
      PROVE TodoIsHeld'
  BY <1>5 DEF Finish
<1>6. ASSUME NEW r \in Requests, SnapshotLock(r)
      PROVE TodoIsHeld'
  BY <1>6 DEF SnapshotLock, Arrive
<1>7. ASSUME NEW r \in Requests, Insert(r)
      PROVE TodoIsHeld'
  BY <1>7 DEF Insert, Leave
<1>8. ASSUME NEW r \in Requests, InsertRefused(r)
      PROVE TodoIsHeld'
  BY <1>8 DEF InsertRefused, Leave
<1>9. ASSUME NEW r \in Requests, TryLock(r)
      PROVE TodoIsHeld'
  BY <1>9 DEF TryLock, Lock
<1>10. ASSUME NEW r \in Requests, Busy(r)
      PROVE TodoIsHeld'
  BY <1>10 DEF Busy
<1>11. ASSUME NEW r \in Requests, Drop(r)
      PROVE TodoIsHeld'
  BY <1>11 DEF Drop, Leave, Left
<1>12. ASSUME NEW r \in Requests, SnapshotCopy(r)
      PROVE TodoIsHeld'
  BY <1>12 DEF SnapshotCopy
<1>13. ASSUME NEW r \in Requests, ReadLastQuery(r)
      PROVE TodoIsHeld'
  BY <1>13 DEF ReadLastQuery
<1>14. ASSUME NEW r \in Requests, SnapshotEnd(r)
      PROVE TodoIsHeld'
  BY <1>14 DEF SnapshotEnd
<1>15. ASSUME NEW r \in Requests, NEW i \in Ids, Visit(r, i)
      PROVE TodoIsHeld'
  BY <1>15 DEF Visit
<1>16. CASE Cancel
  BY <1>16 DEF Cancel
<1>17. CASE CancelLookup
  BY <1>17 DEF CancelLookup
<1>18. ASSUME NEW i \in Ids, Disconnect(i)
      PROVE TodoIsHeld'
  BY <1>18 DEF Disconnect, Left
<1>19. ASSUME NEW p \in Principals, Logout(p)
      PROVE TodoIsHeld'
  BY <1>19 DEF Logout, Left
<1>20. ASSUME NEW s \in Settings, Set(s)
      PROVE TodoIsHeld'
  BY <1>20 DEF Set
<1>21. CASE UNCHANGED vars
  BY <1>21 DEF vars
<1> QED
  BY <1>1, <1>2, <1>3, <1>4, <1>5, <1>6, <1>7, <1>8, <1>9, <1>10, <1>11, <1>12, <1>13, <1>14, <1>15, <1>16, <1>17, <1>18, <1>19, <1>20, <1>21 DEF Next, Work, Sql, Statement, Delete

\* A session keeps its owner while it is in the map or in use.
LEMMA KnowsStep == IInv /\ [Next]_vars => RequestKnows'
<1> SUFFICES ASSUME IInv, [Next]_vars PROVE RequestKnows'
  OBVIOUS
<1> USE PoolAssumption DEF PoolAssumption, IInv, TodoIsHeld, LockHolderIsInside, RequestKnows, InSession, Unambiguous, TypeOK, Owners, Kinds, PC, Step, Answered, requestVars
<1>1. ASSUME NEW r \in Requests, NEW p \in Principals, NEW i \in Ids, New(r, p, i)
      PROVE RequestKnows'
  BY <1>1 DEF New, Arrive
<1>2. ASSUME NEW r \in Requests, NEW k \in {"sql", "quack"}, NEW p \in Owners,
              NEW i \in Ids, Find(r, k, p, i), k = "sql" => owner[i] = p
      PROVE RequestKnows'
  BY <1>2 DEF Find, Arrive
<1>3. ASSUME NEW i \in Ids, Connect(i)
      PROVE RequestKnows'
  BY <1>3 DEF Connect
<1>4. ASSUME NEW r \in Requests, Acquire(r)
      PROVE RequestKnows'
  BY <1>4 DEF Acquire, Lock
<1>5. ASSUME NEW r \in Requests, Finish(r)
      PROVE RequestKnows'
  BY <1>5 DEF Finish
<1>6. ASSUME NEW r \in Requests, SnapshotLock(r)
      PROVE RequestKnows'
  BY <1>6 DEF SnapshotLock, Arrive
<1>7. ASSUME NEW r \in Requests, Insert(r)
      PROVE RequestKnows'
  <2>1. /\ UNCHANGED lock
        /\ pc' = [pc EXCEPT ![r] = "idle"]
        /\ kind' = [kind EXCEPT ![r] = "none"]
        /\ who' = [who EXCEPT ![r] = None]
        /\ at' = [at EXCEPT ![r] = None]
        /\ refs' = [refs EXCEPT ![r] = {}]
        /\ owner' = [owner EXCEPT ![at[r]] = who[r]]
    BY <1>7 DEF Insert, Leave
  <2>2. \A q \in Requests : at[r] \notin refs[q]
    BY <1>7 DEF Insert, Leave, Refused
  <2> QED
    BY <2>1, <2>2
<1>8. ASSUME NEW r \in Requests, InsertRefused(r)
      PROVE RequestKnows'
  BY <1>8 DEF InsertRefused, Leave
<1>9. ASSUME NEW r \in Requests, TryLock(r)
      PROVE RequestKnows'
  BY <1>9 DEF TryLock, Lock
<1>10. ASSUME NEW r \in Requests, Busy(r)
      PROVE RequestKnows'
  BY <1>10 DEF Busy
<1>11. ASSUME NEW r \in Requests, Drop(r)
      PROVE RequestKnows'
  BY <1>11 DEF Drop, Leave, Left
<1>12. ASSUME NEW r \in Requests, SnapshotCopy(r)
      PROVE RequestKnows'
  BY <1>12 DEF SnapshotCopy
<1>13. ASSUME NEW r \in Requests, ReadLastQuery(r)
      PROVE RequestKnows'
  BY <1>13 DEF ReadLastQuery
<1>14. ASSUME NEW r \in Requests, SnapshotEnd(r)
      PROVE RequestKnows'
  BY <1>14 DEF SnapshotEnd
<1>15. ASSUME NEW r \in Requests, NEW i \in Ids, Visit(r, i)
      PROVE RequestKnows'
  BY <1>15 DEF Visit
<1>16. CASE Cancel
  BY <1>16 DEF Cancel
<1>17. CASE CancelLookup
  BY <1>17 DEF CancelLookup
<1>18. ASSUME NEW i \in Ids, Disconnect(i)
      PROVE RequestKnows'
  BY <1>18 DEF Disconnect, Left
<1>19. ASSUME NEW p \in Principals, Logout(p)
      PROVE RequestKnows'
  BY <1>19 DEF Logout, Left
<1>20. ASSUME NEW s \in Settings, Set(s)
      PROVE RequestKnows'
  BY <1>20 DEF Set
<1>21. CASE UNCHANGED vars
  BY <1>21 DEF vars
<1> QED
  BY <1>1, <1>2, <1>3, <1>4, <1>5, <1>6, <1>7, <1>8, <1>9, <1>10, <1>11, <1>12, <1>13, <1>14, <1>15, <1>16, <1>17, <1>18, <1>19, <1>20, <1>21 DEF Next, Work, Sql, Statement, Delete

\* The lock goes before the shared_ptr.
LEMMA HolderStep == IInv /\ [Next]_vars => LockHolderIsInside'
<1> SUFFICES ASSUME IInv, [Next]_vars PROVE LockHolderIsInside'
  OBVIOUS
<1> USE PoolAssumption DEF PoolAssumption, IInv, LockHolderIsInside, RequestKnows, InSession, TypeOK, Owners, Kinds, PC, Step, Answered, requestVars
<1>1. ASSUME NEW r \in Requests, NEW p \in Principals, NEW i \in Ids, New(r, p, i)
      PROVE LockHolderIsInside'
  BY <1>1 DEF New, Arrive
<1>2. ASSUME NEW r \in Requests, NEW k \in {"sql", "quack"}, NEW p \in Owners,
              NEW i \in Ids, Find(r, k, p, i)
      PROVE LockHolderIsInside'
  BY <1>2 DEF Find, Arrive
<1>3. ASSUME NEW i \in Ids, Connect(i)
      PROVE LockHolderIsInside'
  BY <1>3 DEF Connect
<1>4. ASSUME NEW r \in Requests, Acquire(r)
      PROVE LockHolderIsInside'
  BY <1>4 DEF Acquire, Lock
<1>5. ASSUME NEW r \in Requests, Finish(r)
      PROVE LockHolderIsInside'
  BY <1>5 DEF Finish
<1>6. ASSUME NEW r \in Requests, SnapshotLock(r)
      PROVE LockHolderIsInside'
  BY <1>6 DEF SnapshotLock, Arrive
<1>7. ASSUME NEW r \in Requests, Insert(r)
      PROVE LockHolderIsInside'
  BY <1>7 DEF Insert, Leave
<1>8. ASSUME NEW r \in Requests, InsertRefused(r)
      PROVE LockHolderIsInside'
  BY <1>8 DEF InsertRefused, Leave
<1>9. ASSUME NEW r \in Requests, TryLock(r)
      PROVE LockHolderIsInside'
  BY <1>9 DEF TryLock, Lock
<1>10. ASSUME NEW r \in Requests, Busy(r)
      PROVE LockHolderIsInside'
  BY <1>10 DEF Busy
<1>11. ASSUME NEW r \in Requests, Drop(r)
      PROVE LockHolderIsInside'
  BY <1>11 DEF Drop, Leave, Left
<1>12. ASSUME NEW r \in Requests, SnapshotCopy(r)
      PROVE LockHolderIsInside'
  BY <1>12 DEF SnapshotCopy
<1>13. ASSUME NEW r \in Requests, ReadLastQuery(r)
      PROVE LockHolderIsInside'
  BY <1>13 DEF ReadLastQuery
<1>14. ASSUME NEW r \in Requests, SnapshotEnd(r)
      PROVE LockHolderIsInside'
  BY <1>14 DEF SnapshotEnd
<1>15. ASSUME NEW r \in Requests, NEW i \in Ids, Visit(r, i)
      PROVE LockHolderIsInside'
  BY <1>15 DEF Visit
<1>16. CASE Cancel
  BY <1>16 DEF Cancel
<1>17. CASE CancelLookup
  BY <1>17 DEF CancelLookup
<1>18. ASSUME NEW i \in Ids, Disconnect(i)
      PROVE LockHolderIsInside'
  BY <1>18 DEF Disconnect, Left
<1>19. ASSUME NEW p \in Principals, Logout(p)
      PROVE LockHolderIsInside'
  BY <1>19 DEF Logout, Left
<1>20. ASSUME NEW s \in Settings, Set(s)
      PROVE LockHolderIsInside'
  BY <1>20 DEF Set
<1>21. CASE UNCHANGED vars
  BY <1>21 DEF vars
<1> QED
  BY <1>1, <1>2, <1>3, <1>4, <1>5, <1>6, <1>7, <1>8, <1>9, <1>10, <1>11, <1>12, <1>13, <1>14, <1>15, <1>16, <1>17, <1>18, <1>19, <1>20, <1>21 DEF Next, Work, Sql, Statement, Delete

\* New takes its principal out of quit, and a logout does not put it back.
LEMMA CreationStep == CInv /\ [Next]_vars => CreationKnows'
<1> SUFFICES ASSUME CInv, [Next]_vars PROVE CreationKnows'
  OBVIOUS
<1> USE PoolAssumption DEF PoolAssumption, CInv, IInv, CreationKnows, TypeOK, Owners, Kinds, PC, Step, Answered, requestVars
<1>1. ASSUME NEW r \in Requests, NEW p \in Principals, NEW i \in Ids, New(r, p, i)
      PROVE CreationKnows'
  BY <1>1 DEF New, Arrive, MaxSessions, SettingCounts
<1>2. ASSUME NEW r \in Requests, NEW k \in {"sql", "quack"}, NEW p \in Owners,
              NEW i \in Ids, Find(r, k, p, i)
      PROVE CreationKnows'
  BY <1>2 DEF Find, Arrive
<1>3. ASSUME NEW i \in Ids, Connect(i)
      PROVE CreationKnows'
  BY <1>3 DEF Connect
<1>4. ASSUME NEW r \in Requests, Acquire(r)
      PROVE CreationKnows'
  BY <1>4 DEF Acquire, Lock
<1>5. ASSUME NEW r \in Requests, Finish(r)
      PROVE CreationKnows'
  BY <1>5 DEF Finish
<1>6. ASSUME NEW r \in Requests, SnapshotLock(r)
      PROVE CreationKnows'
  BY <1>6 DEF SnapshotLock, Arrive
<1>7. ASSUME NEW r \in Requests, Insert(r)
      PROVE CreationKnows'
  BY <1>7 DEF Insert, Leave
<1>8. ASSUME NEW r \in Requests, InsertRefused(r)
      PROVE CreationKnows'
  BY <1>8 DEF InsertRefused, Leave
<1>9. ASSUME NEW r \in Requests, TryLock(r)
      PROVE CreationKnows'
  BY <1>9 DEF TryLock, Lock
<1>10. ASSUME NEW r \in Requests, Busy(r)
      PROVE CreationKnows'
  BY <1>10 DEF Busy
<1>11. ASSUME NEW r \in Requests, Drop(r)
      PROVE CreationKnows'
  BY <1>11 DEF Drop, Leave, Left
<1>12. ASSUME NEW r \in Requests, SnapshotCopy(r)
      PROVE CreationKnows'
  BY <1>12 DEF SnapshotCopy
<1>13. ASSUME NEW r \in Requests, ReadLastQuery(r)
      PROVE CreationKnows'
  BY <1>13 DEF ReadLastQuery
<1>14. ASSUME NEW r \in Requests, SnapshotEnd(r)
      PROVE CreationKnows'
  BY <1>14 DEF SnapshotEnd
<1>15. ASSUME NEW r \in Requests, NEW i \in Ids, Visit(r, i)
      PROVE CreationKnows'
  BY <1>15 DEF Visit
<1>16. CASE Cancel
  BY <1>16 DEF Cancel
<1>17. CASE CancelLookup
  BY <1>17 DEF CancelLookup
<1>18. ASSUME NEW i \in Ids, Disconnect(i)
      PROVE CreationKnows'
  BY <1>18 DEF Disconnect, Left
<1>19. ASSUME NEW p \in Principals, Logout(p)
      PROVE CreationKnows'
  BY <1>19 DEF Logout, Left, Creating
<1>20. ASSUME NEW s \in Settings, Set(s)
      PROVE CreationKnows'
  BY <1>20 DEF Set, MaxSessions
<1>21. CASE UNCHANGED vars
  BY <1>21 DEF vars
<1> QED
  BY <1>1, <1>2, <1>3, <1>4, <1>5, <1>6, <1>7, <1>8, <1>9, <1>10, <1>11, <1>12, <1>13, <1>14, <1>15, <1>16, <1>17, <1>18, <1>19, <1>20, <1>21 DEF Next, Work, Sql, Statement, Delete

\* largest follows the setting.
LEMMA SettingStep == CInv /\ [Next]_vars => SettingCounts'
<1> SUFFICES ASSUME CInv, [Next]_vars PROVE SettingCounts'
  OBVIOUS
<1> USE PoolAssumption DEF PoolAssumption, CInv, IInv, SettingCounts, TypeOK, Owners, Kinds, PC, Step, Answered, requestVars
<1>1. ASSUME NEW r \in Requests, NEW p \in Principals, NEW i \in Ids, New(r, p, i)
      PROVE SettingCounts'
  BY <1>1 DEF New, Arrive, MaxSessions
<1>2. ASSUME NEW r \in Requests, NEW k \in {"sql", "quack"}, NEW p \in Owners,
              NEW i \in Ids, Find(r, k, p, i)
      PROVE SettingCounts'
  BY <1>2 DEF Find, Arrive
<1>3. ASSUME NEW i \in Ids, Connect(i)
      PROVE SettingCounts'
  BY <1>3 DEF Connect
<1>4. ASSUME NEW r \in Requests, Acquire(r)
      PROVE SettingCounts'
  BY <1>4 DEF Acquire, Lock
<1>5. ASSUME NEW r \in Requests, Finish(r)
      PROVE SettingCounts'
  BY <1>5 DEF Finish
<1>6. ASSUME NEW r \in Requests, SnapshotLock(r)
      PROVE SettingCounts'
  BY <1>6 DEF SnapshotLock, Arrive
<1>7. ASSUME NEW r \in Requests, Insert(r)
      PROVE SettingCounts'
  BY <1>7 DEF Insert, Leave
<1>8. ASSUME NEW r \in Requests, InsertRefused(r)
      PROVE SettingCounts'
  BY <1>8 DEF InsertRefused, Leave
<1>9. ASSUME NEW r \in Requests, TryLock(r)
      PROVE SettingCounts'
  BY <1>9 DEF TryLock, Lock
<1>10. ASSUME NEW r \in Requests, Busy(r)
      PROVE SettingCounts'
  BY <1>10 DEF Busy
<1>11. ASSUME NEW r \in Requests, Drop(r)
      PROVE SettingCounts'
  BY <1>11 DEF Drop, Leave, Left
<1>12. ASSUME NEW r \in Requests, SnapshotCopy(r)
      PROVE SettingCounts'
  BY <1>12 DEF SnapshotCopy
<1>13. ASSUME NEW r \in Requests, ReadLastQuery(r)
      PROVE SettingCounts'
  BY <1>13 DEF ReadLastQuery
<1>14. ASSUME NEW r \in Requests, SnapshotEnd(r)
      PROVE SettingCounts'
  BY <1>14 DEF SnapshotEnd
<1>15. ASSUME NEW r \in Requests, NEW i \in Ids, Visit(r, i)
      PROVE SettingCounts'
  BY <1>15 DEF Visit
<1>16. CASE Cancel
  BY <1>16 DEF Cancel
<1>17. CASE CancelLookup
  BY <1>17 DEF CancelLookup
<1>18. ASSUME NEW i \in Ids, Disconnect(i)
      PROVE SettingCounts'
  BY <1>18 DEF Disconnect, Left
<1>19. ASSUME NEW p \in Principals, Logout(p)
      PROVE SettingCounts'
  BY <1>19 DEF Logout, Left
<1>20. ASSUME NEW s \in Settings, Set(s)
      PROVE SettingCounts'
  BY <1>20 DEF Set, MaxSessions
<1>21. CASE UNCHANGED vars
  BY <1>21 DEF vars
<1> QED
  BY <1>1, <1>2, <1>3, <1>4, <1>5, <1>6, <1>7, <1>8, <1>9, <1>10, <1>11, <1>12, <1>13, <1>14, <1>15, <1>16, <1>17, <1>18, <1>19, <1>20, <1>21 DEF Next, Work, Sql, Statement, Delete

\* Logout destroys every session of its principal.
LEMMA LogoutStep == CInv /\ LogoutEndsSessions /\ [Next]_vars => LogoutEndsSessions'
<1> SUFFICES ASSUME CInv /\ LogoutEndsSessions, [Next]_vars PROVE LogoutEndsSessions'
  OBVIOUS
<1> USE PoolAssumption DEF PoolAssumption, CInv, IInv, CreationKnows, LogoutEndsSessions, TypeOK, Owners, Kinds, PC, Step, Answered, requestVars
<1>1. ASSUME NEW r \in Requests, NEW p \in Principals, NEW i \in Ids, New(r, p, i)
      PROVE LogoutEndsSessions'
  BY <1>1 DEF New, Arrive
<1>2. ASSUME NEW r \in Requests, NEW k \in {"sql", "quack"}, NEW p \in Owners,
              NEW i \in Ids, Find(r, k, p, i)
      PROVE LogoutEndsSessions'
  BY <1>2 DEF Find, Arrive
<1>3. ASSUME NEW i \in Ids, Connect(i)
      PROVE LogoutEndsSessions'
  BY <1>3 DEF Connect
<1>4. ASSUME NEW r \in Requests, Acquire(r)
      PROVE LogoutEndsSessions'
  BY <1>4 DEF Acquire, Lock
<1>5. ASSUME NEW r \in Requests, Finish(r)
      PROVE LogoutEndsSessions'
  BY <1>5 DEF Finish
<1>6. ASSUME NEW r \in Requests, SnapshotLock(r)
      PROVE LogoutEndsSessions'
  BY <1>6 DEF SnapshotLock, Arrive
<1>7. ASSUME NEW r \in Requests, Insert(r)
      PROVE LogoutEndsSessions'
  <2>1. /\ at[r] \in Ids /\ who[r] \in Principals \ quit
        /\ quit' = quit
        /\ active' = active \union {at[r]}
        /\ owner' = [owner EXCEPT ![at[r]] = who[r]]
    BY <1>7 DEF Insert, Leave, RequestKnows
  <2> QED
    BY <2>1
<1>8. ASSUME NEW r \in Requests, InsertRefused(r)
      PROVE LogoutEndsSessions'
  BY <1>8 DEF InsertRefused, Leave
<1>9. ASSUME NEW r \in Requests, TryLock(r)
      PROVE LogoutEndsSessions'
  BY <1>9 DEF TryLock, Lock
<1>10. ASSUME NEW r \in Requests, Busy(r)
      PROVE LogoutEndsSessions'
  BY <1>10 DEF Busy
<1>11. ASSUME NEW r \in Requests, Drop(r)
      PROVE LogoutEndsSessions'
  BY <1>11 DEF Drop, Leave, Left
<1>12. ASSUME NEW r \in Requests, SnapshotCopy(r)
      PROVE LogoutEndsSessions'
  BY <1>12 DEF SnapshotCopy
<1>13. ASSUME NEW r \in Requests, ReadLastQuery(r)
      PROVE LogoutEndsSessions'
  BY <1>13 DEF ReadLastQuery
<1>14. ASSUME NEW r \in Requests, SnapshotEnd(r)
      PROVE LogoutEndsSessions'
  BY <1>14 DEF SnapshotEnd
<1>15. ASSUME NEW r \in Requests, NEW i \in Ids, Visit(r, i)
      PROVE LogoutEndsSessions'
  BY <1>15 DEF Visit
<1>16. CASE Cancel
  BY <1>16 DEF Cancel
<1>17. CASE CancelLookup
  BY <1>17 DEF CancelLookup
<1>18. ASSUME NEW i \in Ids, Disconnect(i)
      PROVE LogoutEndsSessions'
  BY <1>18 DEF Disconnect, Left
<1>19. ASSUME NEW p \in Principals, Logout(p)
      PROVE LogoutEndsSessions'
  BY <1>19 DEF Logout, Left
<1>20. ASSUME NEW s \in Settings, Set(s)
      PROVE LogoutEndsSessions'
  BY <1>20 DEF Set
<1>21. CASE UNCHANGED vars
  BY <1>21 DEF vars
<1> QED
  BY <1>1, <1>2, <1>3, <1>4, <1>5, <1>6, <1>7, <1>8, <1>9, <1>10, <1>11, <1>12, <1>13, <1>14, <1>15, <1>16, <1>17, <1>18, <1>19, <1>20, <1>21 DEF Next, Work, Sql, Statement, Delete

\* Only an Insert adds an owned session, and it adds one.
LEMMA LimitStep == CInv /\ SessionLimit /\ [Next]_vars => SessionLimit'
<1> SUFFICES ASSUME CInv, SessionLimit, [Next]_vars PROVE SessionLimit'
  OBVIOUS
<1> USE PoolAssumption DEF PoolAssumption, CInv, IInv, CreationKnows, TypeOK, Owners, Kinds, PC, Step, Answered, requestVars
<1>0. ASSUME Owned' \subseteq Owned, largest' >= largest
      PROVE SessionLimit'
  <2>1. IsFiniteSet(Owned)
    BY FS_Subset DEF Owned
  <2>2. /\ IsFiniteSet(Owned') /\ Cardinality(Owned') <= Cardinality(Owned)
        /\ Cardinality(Owned) \in Nat /\ Cardinality(Owned') \in Nat
    BY <1>0, <2>1, FS_Subset, FS_CardinalityType
  <2>3. largest' \in Nat
    BY <1>0, TypeStep DEF CInv
  <2> QED
    BY <1>0, <2>2, <2>3 DEF SessionLimit, Owned
<1>1. ASSUME NEW r \in Requests, NEW p \in Principals, NEW i \in Ids, New(r, p, i)
      PROVE SessionLimit'
  <2> Owned' \subseteq Owned /\ largest' >= largest
    BY <1>1 DEF Owned, New, Arrive
  <2> QED
    BY <1>0
<1>2. ASSUME NEW r \in Requests, NEW k \in {"sql", "quack"}, NEW p \in Owners,
              NEW i \in Ids, Find(r, k, p, i)
      PROVE SessionLimit'
  <2> Owned' \subseteq Owned /\ largest' >= largest
    BY <1>2 DEF Owned, Find, Arrive
  <2> QED
    BY <1>0
<1>3. ASSUME NEW i \in Ids, Connect(i)
      PROVE SessionLimit'
  <2> Owned' \subseteq Owned /\ largest' >= largest
    BY <1>3 DEF Owned, Connect
  <2> QED
    BY <1>0
<1>4. ASSUME NEW r \in Requests, Acquire(r)
      PROVE SessionLimit'
  <2> Owned' \subseteq Owned /\ largest' >= largest
    BY <1>4 DEF Owned, Acquire, Lock
  <2> QED
    BY <1>0
<1>5. ASSUME NEW r \in Requests, Finish(r)
      PROVE SessionLimit'
  <2> Owned' \subseteq Owned /\ largest' >= largest
    BY <1>5 DEF Owned, Finish
  <2> QED
    BY <1>0
<1>6. ASSUME NEW r \in Requests, SnapshotLock(r)
      PROVE SessionLimit'
  <2> Owned' \subseteq Owned /\ largest' >= largest
    BY <1>6 DEF Owned, SnapshotLock, Arrive
  <2> QED
    BY <1>0
<1>7. ASSUME NEW r \in Requests, Insert(r)
      PROVE SessionLimit'
  <2>1. /\ IsFiniteSet(active) /\ Cardinality(active) \in Nat
        /\ Cardinality(active) < largest
    BY <1>7, FS_Subset, FS_CardinalityType DEF Insert, Leave, Refused, Full
  <2>2. /\ active' = active \union {at[r]} /\ at[r] \notin active
        /\ largest' = largest
    BY <1>7 DEF Insert, Leave, Refused
  <2>3. Cardinality(active') = Cardinality(active) + 1 /\ IsFiniteSet(active')
    BY <2>1, <2>2, FS_AddElement
  <2>4. Cardinality(Owned') <= Cardinality(active') /\ Cardinality(Owned') \in Nat
    BY <2>3, FS_Subset, FS_CardinalityType DEF Owned
  <2> QED
    BY <2>1, <2>2, <2>3, <2>4 DEF SessionLimit, Owned
<1>8. ASSUME NEW r \in Requests, InsertRefused(r)
      PROVE SessionLimit'
  <2> Owned' \subseteq Owned /\ largest' >= largest
    BY <1>8 DEF Owned, InsertRefused, Leave
  <2> QED
    BY <1>0
<1>9. ASSUME NEW r \in Requests, TryLock(r)
      PROVE SessionLimit'
  <2> Owned' \subseteq Owned /\ largest' >= largest
    BY <1>9 DEF Owned, TryLock, Lock
  <2> QED
    BY <1>0
<1>10. ASSUME NEW r \in Requests, Busy(r)
      PROVE SessionLimit'
  <2> Owned' \subseteq Owned /\ largest' >= largest
    BY <1>10 DEF Owned, Busy
  <2> QED
    BY <1>0
<1>11. ASSUME NEW r \in Requests, Drop(r)
      PROVE SessionLimit'
  <2> Owned' \subseteq Owned /\ largest' >= largest
    BY <1>11 DEF Owned, Drop, Leave, Left
  <2> QED
    BY <1>0
<1>12. ASSUME NEW r \in Requests, SnapshotCopy(r)
      PROVE SessionLimit'
  <2> Owned' \subseteq Owned /\ largest' >= largest
    BY <1>12 DEF Owned, SnapshotCopy
  <2> QED
    BY <1>0
<1>13. ASSUME NEW r \in Requests, ReadLastQuery(r)
      PROVE SessionLimit'
  <2> Owned' \subseteq Owned /\ largest' >= largest
    BY <1>13 DEF Owned, ReadLastQuery
  <2> QED
    BY <1>0
<1>14. ASSUME NEW r \in Requests, SnapshotEnd(r)
      PROVE SessionLimit'
  <2> Owned' \subseteq Owned /\ largest' >= largest
    BY <1>14 DEF Owned, SnapshotEnd
  <2> QED
    BY <1>0
<1>15. ASSUME NEW r \in Requests, NEW i \in Ids, Visit(r, i)
      PROVE SessionLimit'
  <2> Owned' \subseteq Owned /\ largest' >= largest
    BY <1>15 DEF Owned, Visit
  <2> QED
    BY <1>0
<1>16. CASE Cancel
  <2> Owned' \subseteq Owned /\ largest' >= largest
    BY <1>16 DEF Owned, Cancel
  <2> QED
    BY <1>0
<1>17. CASE CancelLookup
  <2> Owned' \subseteq Owned /\ largest' >= largest
    BY <1>17 DEF Owned, CancelLookup
  <2> QED
    BY <1>0
<1>18. ASSUME NEW i \in Ids, Disconnect(i)
      PROVE SessionLimit'
  <2> Owned' \subseteq Owned /\ largest' >= largest
    BY <1>18 DEF Owned, Disconnect, Left
  <2> QED
    BY <1>0
<1>19. ASSUME NEW p \in Principals, Logout(p)
      PROVE SessionLimit'
  <2> Owned' \subseteq Owned /\ largest' >= largest
    BY <1>19 DEF Owned, Logout, Left
  <2> QED
    BY <1>0
<1>20. ASSUME NEW s \in Settings, Set(s)
      PROVE SessionLimit'
  <2> Owned' \subseteq Owned /\ largest' >= largest
    BY <1>20 DEF Owned, Set, MaxSessions
  <2> QED
    BY <1>0
<1>21. CASE UNCHANGED vars
  <2> Owned' \subseteq Owned /\ largest' >= largest
    BY <1>21 DEF Owned, vars
  <2> QED
    BY <1>0
<1> QED
  BY <1>1, <1>2, <1>3, <1>4, <1>5, <1>6, <1>7, <1>8, <1>9, <1>10, <1>11, <1>12, <1>13, <1>14, <1>15, <1>16, <1>17, <1>18, <1>19, <1>20, <1>21 DEF Next, Work, Sql, Statement, Delete

\* The invariants together.
LEMMA Invariant == Spec => [](CInv /\ SessionLimit /\ LogoutEndsSessions)
<1>1. Init => CInv /\ LogoutEndsSessions
  <2> SUFFICES ASSUME Init PROVE CInv /\ LogoutEndsSessions
    OBVIOUS
  <2> USE PoolAssumption DEF PoolAssumption, Init
  <2>1. setting \in Nat /\ MaxSessions(setting) \in Nat
    BY DEF MaxSessions
  <2>2. TypeOK
    BY <2>1 DEF TypeOK, Owners, Kinds, PC
  <2>3. RequestKnows /\ TodoIsHeld /\ LockHolderIsInside
    BY DEF RequestKnows, InSession, TodoIsHeld, LockHolderIsInside
  <2>4. CreationKnows /\ SettingCounts /\ LogoutEndsSessions
    BY <2>1 DEF CreationKnows, SettingCounts, LogoutEndsSessions
  <2> QED
    BY <2>2, <2>3, <2>4 DEF CInv, IInv
<1>2. Init => SessionLimit
  <2> SUFFICES ASSUME Init PROVE SessionLimit
    OBVIOUS
  <2>1. Owned = {} /\ largest \in Nat
    BY PoolAssumption DEF PoolAssumption, Init, Owned, MaxSessions
  <2> QED
    BY <2>1, FS_EmptySet DEF SessionLimit, Owned
<1>3. /\ CInv /\ SessionLimit /\ LogoutEndsSessions
      /\ [Next]_vars
      => (CInv /\ SessionLimit /\ LogoutEndsSessions)'
  BY TypeStep, KnowsStep, TodoStep, HolderStep, CreationStep, SettingStep,
    LimitStep, LogoutStep DEF CInv, IInv
<1> QED
  BY <1>1, <1>2, <1>3, PTL DEF Spec

\* The variables of the session manager and of its requests keep their types.
THEOREM TypeCorrect == Spec => []TypeOK
<1>1. CInv => TypeOK
  BY DEF CInv, IInv
<1> QED
  BY <1>1, Invariant, PTL

\* The holder of a session's mutex keeps the session alive and is inside:
\* GET /sessions waits for queries and for nothing else.
THEOREM HolderIsInside == Spec => []LockHolderIsInside
<1>1. CInv => LockHolderIsInside
  BY DEF CInv, IInv
<1> QED
  BY <1>1, Invariant, PTL

\* A statement runs alone in its session, and one of POST /sql in a session of
\* its own principal, although Quack messages use and end any session.
THEOREM StatementsKeepToTheirSessions == Spec => []OwnSessionUnlessQuack
<1>1. CInv => OwnSessionUnlessQuack
  BY DEF CInv, IInv, RequestKnows, InSession, TypeOK, Kinds, OwnSessionUnlessQuack
<1> QED
  BY <1>1, Invariant, PTL

\* CreateOwnedSession keeps the sessions of /sql within the largest limit
\* there was, although it reads the limit before it takes the lock.
THEOREM LimitHolds == Spec => []SessionLimit
  BY Invariant, PTL

\* After a logout that destroys them a principal has no session.
THEOREM LogoutIsComplete == Spec => []LogoutEndsSessions
  BY Invariant, PTL

-----------------------------------------------------------------------------
(* The session manager implements OwnedSessions.                           *)

Tables == [i \in active |-> owner[i]]

AllAsks == [r \in Requests |-> Asks(r)]

Nothing == <<None, None>>

\* What a step does to the session of one request is all that is seen of it.
LEMMA AsksOfOne ==
  ASSUME NEW r \in Requests,
         \A q \in Requests \ {r} : UNCHANGED <<pc[q], kind[q], who[q], at[q]>>
  PROVE  AllAsks' = [AllAsks EXCEPT ![r] = Asks(r)']
<1>1. \A q \in Requests \ {r} : Asks(q)' = Asks(q)
  BY DEF Asks
<1> QED
  BY <1>1 DEF AllAsks

\* Nobody sees a step that changes neither.
LEMMA UnseenByOwners ==
  ASSUME active' = active, \A i \in active : owner'[i] = owner[i],
         \A r \in Requests : Asks(r)' = Asks(r),
         UNCHANGED <<lock, largest>>
  PROVE  UNCHANGED Table!sessionVars
<1>1. Tables' = Tables
  BY DEF Tables
<1>2. AllAsks' = AllAsks
  BY DEF AllAsks
<1> QED
  BY <1>1, <1>2 DEF Table!sessionVars, Tables, AllAsks

\* The session of a request is one it refers to.
LEMMA AsksWhatItHolds ==
  ASSUME IInv, NEW r \in Requests, Asks(r) # Nothing
  PROVE  Asks(r) = <<who[r], at[r]>> /\ at[r] \in refs[r] /\ at[r] \in Ids
BY DEF Asks, Nothing, IInv, RequestKnows, InSession, TypeOK

\* An id that is drawn anew is not of a session somebody was given or is in,
\* and the session is the next one in the table.
LEMMA CreateAdds ==
  ASSUME IInv, NEW i \in Ids, NEW p \in Owners, i \notin active, Unambiguous(i),
         p # None => Cardinality(Owned) < largest,
         active' = active \union {i}, owner' = [owner EXCEPT ![i] = p],
         UNCHANGED <<lock, largest>>, \A r \in Requests : Asks(r)' = Asks(r)
  PROVE  Table!SessionsNext
<1>1. lock[i] = None
  BY DEF IInv, TypeOK, LockHolderIsInside, Unambiguous
<1>2. \A r \in Requests : Asks(r)[2] # i
  <2> SUFFICES ASSUME NEW r \in Requests PROVE Asks(r)[2] # i
    OBVIOUS
  <2>1. CASE Asks(r) = Nothing
    BY <2>1, PoolAssumption DEF Nothing, PoolAssumption
  <2>2. CASE Asks(r) # Nothing
    BY <2>2, AsksWhatItHolds DEF Unambiguous
  <2> QED
    BY <2>1, <2>2
<1>3. Tables' = [j \in DOMAIN Tables \union {i} |-> IF j = i THEN p ELSE Tables[j]]
  BY DEF Tables, IInv, TypeOK
<1>4. AllAsks' = AllAsks /\ \A r \in Requests : AllAsks[r][2] # i
  BY <1>2 DEF AllAsks
<1>5. DOMAIN Tables \ Table!OwnedBy(None) = Owned
  BY DEF Tables, Owned, Table!OwnedBy
<1>6. p # None => Table!Cardinality(DOMAIN Tables \ Table!OwnedBy(None)) < largest
  <2>1. Table!Cardinality(Owned) = Cardinality(Owned)
    BY DEF Cardinality, Table!Cardinality
  <2> QED
    BY <1>5, <2>1
<1>7. Table!Create(i, p)
  BY <1>1, <1>3, <1>4, <1>6 DEF Table!Create, Tables, AllAsks
<1>8. i \in Ids \ DOMAIN Tables
  BY DEF Tables
<1> QED
  BY <1>7, <1>8 DEF Table!SessionsNext, Owners, Tables

\* A session that is given up leaves the others their owners.
LEMMA RestrictTables ==
  ASSUME NEW S \in SUBSET active, active' = S, \A i \in S : owner'[i] = owner[i],
         UNCHANGED <<lock, largest>>, \A r \in Requests : Asks(r)' = Asks(r)
  PROVE  Table!Restrict(S)
<1>1. Tables' = [i \in S |-> Tables[i]]
  BY DEF Tables
<1>2. AllAsks' = AllAsks
  BY DEF AllAsks
<1> QED
  BY <1>1, <1>2 DEF Table!Restrict, Tables, AllAsks

\* Creating sessions.
LEMMA CreateSessions ==
  ASSUME CInv, NEW r \in Requests, Insert(r) \/ InsertRefused(r)
  PROVE  Table!SessionsNext \/ UNCHANGED Table!sessionVars
<1> USE DEF CInv, IInv, TypeOK, Leave, Answered, Step
<1>1. \A q \in Requests : Asks(q)' = Asks(q)
  BY DEF Insert, InsertRefused, Asks
<1>2. UNCHANGED <<lock, largest>>
  BY DEF Insert, InsertRefused
<1>3. CASE InsertRefused(r)
  BY <1>1, <1>2, <1>3, UnseenByOwners DEF InsertRefused
<1>4. CASE Insert(r)
  <2> DEFINE i == at[r]
             p == who[r]
  <2>1. /\ i \in Ids /\ p \in Principals /\ i \notin active /\ Unambiguous(i)
        /\ active' = active \union {i} /\ owner' = [owner EXCEPT ![i] = p]
    BY <1>4 DEF Insert, Refused, RequestKnows, CreationKnows
  <2>2. Cardinality(Owned) < largest
    <3>1. IsFiniteSet(active)
      BY PoolAssumption, FS_Subset DEF PoolAssumption
    <3>2. /\ Cardinality(Owned) <= Cardinality(active)
          /\ Cardinality(Owned) \in Nat /\ Cardinality(active) \in Nat
      BY <3>1, FS_Subset, FS_CardinalityType DEF Owned
    <3>3. Cardinality(active) < limit[r] /\ limit[r] <= largest
      BY <1>4, <3>2 DEF Insert, Refused, Full, CreationKnows
    <3> QED
      BY <3>2, <3>3
  <2>3. p \in Owners
    BY <2>1 DEF Owners
  <2> HIDE DEF i, p, TypeOK, Leave, Answered
  <2> QED
    BY <1>1, <1>2, <2>1, <2>2, <2>3, CreateAdds
<1> QED
  BY <1>3, <1>4

\* A request enters the session it was given, or the one it is to list, or is
\* refused because another is inside.
LEMMA UseSessions ==
  ASSUME IInv, NEW r \in Requests,
         TryLock(r) \/ Acquire(r) \/ Busy(r) \/ Finish(r) \/ ReadLastQuery(r)
  PROVE  Table!SessionsNext
<1> USE DEF IInv, TypeOK, RequestKnows, InSession, Answered, Step
<1>1. /\ at[r] \in Ids
      /\ UNCHANGED <<active, owner, largest>>
      /\ \A q \in Requests \ {r} : UNCHANGED <<pc[q], kind[q], who[q], at[q]>>
  BY DEF TryLock, Lock, Acquire, Busy, Finish, ReadLastQuery
<1>2. /\ Tables' = Tables
      /\ AllAsks' = [AllAsks EXCEPT ![r] = Asks(r)']
  BY <1>1, AsksOfOne DEF Tables
<1>3. AllAsks[r] = Asks(r) /\ AllAsks = [AllAsks EXCEPT ![r] = Asks(r)]
  BY DEF AllAsks
<1>4. CASE TryLock(r) \/ Acquire(r)
  <2>1. /\ lock[at[r]] = None /\ lock' = [lock EXCEPT ![at[r]] = r]
        /\ pc[r] \in {"found", "waiting"}
    BY <1>4 DEF TryLock, Acquire, Lock
  <2>2. \A j \in Ids : lock[j] # r
    BY <2>1 DEF LockHolderIsInside
  <2>3. Asks(r)' = Asks(r)
    BY <1>1, <1>4 DEF TryLock, Acquire, Lock, Asks
  <2>4. Asks(r) = Nothing \/ Asks(r)[2] = at[r]
    BY <2>1 DEF Asks, Nothing
  <2>5. AllAsks' = AllAsks
    BY <1>2, <1>3, <2>3
  <2>6. Table!Enter(r, at[r])
    BY <1>1, <1>2, <1>3, <2>1, <2>2, <2>4, <2>5
       DEF Table!Enter, Table!Nothing, Tables, AllAsks, Nothing
  <2> QED
    BY <1>1, <2>6 DEF Table!SessionsNext
<1>5. CASE Busy(r)
  <2>1. /\ lock[at[r]] # None /\ lock' = lock /\ pc[r] = "found" /\ pc'[r] = "drop"
    BY <1>5 DEF Busy
  <2>2. lock[at[r]] # r
    BY <1>1, <2>1 DEF LockHolderIsInside
  <2>3. Asks(r)[2] = at[r] /\ Asks(r)' = Nothing
    BY <2>1 DEF Asks, Nothing
  <2>4. Table!Refuse(r, at[r])
    BY <1>1, <1>2, <1>3, <2>1, <2>2, <2>3
       DEF Table!Refuse, Table!Nothing, Tables, AllAsks, Nothing
  <2> QED
    BY <1>1, <2>4 DEF Table!SessionsNext
<1>6. CASE Finish(r) \/ ReadLastQuery(r)
  <2>1. /\ lock[at[r]] = r /\ lock' = [lock EXCEPT ![at[r]] = None]
        /\ pc'[r] \in {"drop", "visit"}
    BY <1>6 DEF Finish, ReadLastQuery
  <2>2. Asks(r)' = Nothing
    BY <2>1 DEF Asks, Nothing
  <2>3. Table!Leave(r, at[r])
    BY <1>1, <1>2, <1>3, <2>1, <2>2
       DEF Table!Leave, Table!Nothing, Tables, AllAsks, Nothing
  <2> QED
    BY <1>1, <2>3 DEF Table!SessionsNext
<1> QED
  BY <1>4, <1>5, <1>6

\* A request finds a session of its own principal, or comes from nobody.
LEMMA FindSessions ==
  ASSUME IInv, NEW r \in Requests, NEW k \in {"sql", "quack"}, NEW p \in Owners,
         NEW i \in Ids, Find(r, k, p, i), p \in {owner[i], None}
  PROVE  Table!SessionsNext
<1> USE DEF IInv, TypeOK, Step, Arrive
<1>1. /\ pc[r] = "idle" /\ i \in active
      /\ UNCHANGED <<active, owner, lock, largest>>
      /\ \A q \in Requests \ {r} : UNCHANGED <<pc[q], kind[q], who[q], at[q]>>
      /\ pc'[r] \in {"found", "waiting"} /\ kind'[r] = k /\ who'[r] = p /\ at'[r] = i
  BY DEF Find
<1>2. Asks(r) = Nothing /\ Asks(r)' = <<p, i>>
  BY <1>1 DEF Asks, Nothing
<1>3. AllAsks' = [AllAsks EXCEPT ![r] = <<p, i>>] /\ AllAsks[r] = Nothing
  BY <1>1, <1>2, AsksOfOne DEF AllAsks
<1>4. \A j \in Ids : lock[j] # r
  BY <1>1 DEF LockHolderIsInside
<1>5. Tables' = Tables /\ i \in DOMAIN Tables /\ Tables[i] = owner[i]
  BY <1>1 DEF Tables
<1>6. Table!Ask(r, p, i)
  BY <1>1, <1>3, <1>4, <1>5 DEF Table!Ask, Table!Nothing, Tables, AllAsks, Nothing
<1> QED
  BY <1>5, <1>6 DEF Table!SessionsNext, Tables, Owners

\* Sessions leave the table alone or with all others of their owner.
LEMMA DestroySessions ==
  ASSUME IInv,
         \/ \E i \in Ids : Disconnect(i)
         \/ \E p \in Principals : Logout(p)
  PROVE  Table!SessionsNext
<1> USE DEF IInv, TypeOK, requestVars
<1>1. ASSUME NEW i \in Ids, Disconnect(i)
      PROVE  Table!SessionsNext
  <2>0. PICK S : S = active \ {i}
    OBVIOUS
  <2>1. /\ i \in active /\ active' = S
        /\ \A j \in S : owner'[j] = owner[j]
        /\ UNCHANGED <<lock, largest>> /\ \A r \in Requests : Asks(r)' = Asks(r)
    BY <1>1, <2>0 DEF Disconnect, Left, Asks
  <2>2. S = DOMAIN Tables \ {i} /\ i \in DOMAIN Tables /\ S \in SUBSET active
    BY <2>0, <2>1 DEF Tables
  <2>3. Table!Restrict(S)
    BY <2>1, <2>2, RestrictTables
  <2>4. Table!Destroy(i)
    BY <2>2, <2>3 DEF Table!Destroy, Table!Restrict, Tables
  <2> QED
    BY <2>2, <2>4 DEF Table!SessionsNext, Tables
<1>2. ASSUME NEW p \in Principals, Logout(p)
      PROVE  Table!SessionsNext
  <2>0. PICK S : S = {i \in active : owner[i] # p}
    OBVIOUS
  <2>1. /\ active' = S
        /\ \A j \in S : owner'[j] = owner[j]
        /\ UNCHANGED <<lock, largest>> /\ \A r \in Requests : Asks(r)' = Asks(r)
    BY <1>2, <2>0 DEF Logout, Left, Asks
  <2>2. S = DOMAIN Tables \ Table!OwnedBy(p) /\ S \in SUBSET active
    BY <2>0 DEF Tables, Table!OwnedBy
  <2>3. Table!Restrict(S)
    BY <2>1, <2>2, RestrictTables
  <2>4. Table!DestroyAll(p)
    BY <2>2, <2>3 DEF Table!DestroyAll, Table!Restrict, Tables
  <2> QED
    BY <2>4 DEF Table!SessionsNext
<1> QED
  BY <1>1, <1>2

\* Listing, cancelling and what a request does outside a session is not seen.
LEMMA ListSessions ==
  ASSUME IInv, NEW r \in Requests,
         \/ \E p \in Principals, i \in Ids : New(r, p, i)
         \/ Drop(r) \/ SnapshotLock(r) \/ SnapshotCopy(r) \/ SnapshotEnd(r)
         \/ \E i \in Ids : Visit(r, i)
  PROVE  UNCHANGED Table!sessionVars
<1> USE DEF IInv, TypeOK, RequestKnows, Step, Answered, Arrive, Leave
<1>1. UNCHANGED <<active, lock, largest>> /\ \A i \in active : owner'[i] = owner[i]
  BY DEF New, Drop, Left, SnapshotLock, SnapshotCopy, SnapshotEnd, Visit
<1>2. \A q \in Requests \ {r} : Asks(q)' = Asks(q)
  BY DEF New, Drop, SnapshotLock, SnapshotCopy, SnapshotEnd, Visit, Asks
<1>3. Asks(r) = Nothing /\ Asks(r)' = Nothing
  BY DEF New, Drop, SnapshotLock, SnapshotCopy, SnapshotEnd, Visit, Asks, Nothing
<1> QED
  BY <1>1, <1>2, <1>3, UnseenByOwners

\* The session manager keeps the promise of OwnedSessions for any principals,
\* ids and requests: the lock of the map, the locks of the sessions, the
\* references requests hold and the limit read too early together amount to a
\* table of owned sessions, each used by one request at a time.
THEOREM Refinement == Spec => ImplementsOwnedSessions
<1>1. Init => Table!SessionsInit
  <2> SUFFICES ASSUME Init PROVE Table!SessionsInit
    OBVIOUS
  <2>1. largest \in Nat
    BY PoolAssumption DEF Init, MaxSessions, PoolAssumption
  <2>2. Tables = [i \in {} |-> None]
    BY DEF Init, Tables
  <2>3. AllAsks = [r \in Requests |-> Nothing]
    BY DEF Init, AllAsks, Asks, Nothing
  <2> QED
    BY <2>1, <2>2, <2>3
       DEF Init, Table!SessionsInit, Table!Nothing, Tables, AllAsks, Nothing
<1>2. CInv /\ [Next]_vars => [Table!SessionsNext]_(Table!sessionVars)
  <2> SUFFICES ASSUME CInv, [Next]_vars
               PROVE  Table!SessionsNext \/ UNCHANGED Table!sessionVars
    OBVIOUS
  <2>0. IInv
    BY DEF CInv
  <2>1. ASSUME NEW i \in Ids, Connect(i)
        PROVE  Table!SessionsNext
    <3>1. \A r \in Requests : Asks(r)' = Asks(r)
      BY <2>1 DEF Connect, requestVars, Asks
    <3> QED
      BY <2>0, <2>1, <3>1, CreateAdds DEF Connect, Owners
  <2>2. ASSUME NEW s \in Settings, Set(s)
        PROVE  Table!SessionsNext \/ UNCHANGED Table!sessionVars
    <3>1. /\ UNCHANGED <<active, owner, lock>> /\ \A r \in Requests : Asks(r)' = Asks(r)
      BY <2>2 DEF Set, requestVars, Asks
    <3>2. CASE largest' = largest
      BY <3>1, <3>2, UnseenByOwners
    <3>3. CASE largest' # largest
      <4>1. largest' \in Nat /\ largest' > largest
        BY <2>0, <2>2, <3>3, PoolAssumption DEF Set, MaxSessions, PoolAssumption, IInv, TypeOK
      <4>2. Tables' = Tables /\ AllAsks' = AllAsks
        BY <3>1 DEF Tables, AllAsks
      <4> QED
        BY <3>1, <4>1, <4>2 DEF Table!SessionsNext, Table!Raise, Tables, AllAsks
    <3> QED
      BY <3>2, <3>3
  <2>3. CASE Cancel \/ CancelLookup \/ UNCHANGED vars
    <3>1. /\ UNCHANGED <<active, owner, lock, largest>>
          /\ \A r \in Requests : Asks(r)' = Asks(r)
      BY <2>3 DEF Cancel, CancelLookup, vars, requestVars, Asks
    <3> QED
      BY <3>1, UnseenByOwners
  <2>4. ASSUME NEW r \in Requests, NEW p \in Principals, NEW i \in Ids,
               New(r, p, i) \/ Sql(r, p, i)
        PROVE  Table!SessionsNext \/ UNCHANGED Table!sessionVars
    BY <2>0, <2>4, ListSessions, FindSessions DEF Sql, Owners
  <2>5. ASSUME NEW r \in Requests, NEW i \in Ids, Statement(r, i)
        PROVE  Table!SessionsNext
    BY <2>0, <2>5, FindSessions DEF Statement, Owners
  <2> QED
    BY <2>0, <2>1, <2>2, <2>3, <2>4, <2>5, CreateSessions, UseSessions, DestroySessions,
       ListSessions DEF Next, Work, Delete
<1> QED
  BY <1>1, <1>2, Invariant, PTL DEF Spec, ImplementsOwnedSessions, Table!SessionsSpec

===============================================================================
