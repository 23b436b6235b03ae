---------------------------- MODULE UiRun_proofs ----------------------------
(***************************************************************************)
(* Theorems about UiRun for any requests, jobs and chunk size: a name      *)
(* reaches one connection and only its own, a request alone on its         *)
(* connection is undisturbed, and an answer and its table hold the rows    *)
(* that were asked for.                                                    *)
(***************************************************************************)
EXTENDS UiRun, TLAPS

PathDomains ==
    /\ DOMAIN path = Connections
    /\ DOMAIN ranUnder = Requests

\* Statements are left to run until the last one is done.
StatementsLeft ==
    \A r \in Requests :
        pc[r] \in {"find", "insert", "set", "ready", "prepared", "running"} => todo[r] > 0

\* A connection bears the key of the request it is named after, and is the one
\* in the pool unless two were made.
KeysAgree ==
    /\ \A r \in Requests : con[r] # NoConn => Key(con[r]) = Key(r)
    /\ \A k \in Keys : pool[k] # NoConn => Key(pool[k]) = k
    /\ \A r \in Requests :
         con[r] # NoConn /\ Key(r) \notin raced => pool[Key(r)] = con[r]

\* Two requests at work on a connection have met, and who works has one.
MetOnConnection ==
    /\ \A r, q \in Requests :
         r # q /\ con[r] = con[q] /\ con[r] # NoConn /\ pc[r] # "gone" /\ pc[q] # "gone"
           => met[r] /\ met[q]
    /\ \A r \in Requests :
         pc[r] \notin {"find", "insert", "leaving", "gone"} => con[r] # NoConn

\* The watchdog lives from SetUp to Leave.
WatchdogIsScoped ==
    \A r \in Requests :
        /\ pc[r] \in {"find", "insert", "set"} => dog[r] = "off" /\ cut[r] = "none"
        /\ dog[r] # "off" => con[r] # NoConn
        /\ dog[r] \in {"armed", "marked"} => pc[r] # "gone"

\* What a request that has met no other knows of its connection.
AloneOnConnection ==
    \A r \in Requests : ~met[r] =>
        /\ pc[r] \in {"ready", "prepared", "running"} /\ job[r].path # NoPath
             => path[con[r]] = job[r].path
        /\ pc[r] \in {"running", "creating", "fetching"} =>
             /\ open[con[r]] = r
             /\ interrupted[con[r]] => dog[r] = "done"

\* Rows go to the answer and to the appender up to each one's limit.
RowsCounted ==
    \A r \in Requests :
        /\ fetched[r] <= job[r].rows
        /\ inResult[r] = AtMost(job[r].limit, fetched[r])
        /\ appended[r] = AtMost(job[r].tableLimit, fetched[r])

\* A result that is closed and was not cut short had no more rows, or no more
\* were wanted.
RowsComplete ==
    \A r \in Requests :
        /\ pc[r] \notin {"leaving", "gone"} => answer[r] = "none"
        /\ cut[r] # "none" => pc[r] \in {"closing", "leaving", "gone"}
        /\ (pc[r] = "closing" \/ (answer[r] = "success" /\ job[r].kind = "run"))
             /\ cut[r] = "none" => fetched[r] >= RowLimit(r) \/ fetched[r] = job[r].rows

\* r has made its result table.
OwnsTable(r) ==
    /\ job[r].kind = "run" /\ job[r].table # NoTable
    /\ pc[r] \in {"fetching", "closing"} \/ answer[r] = "success"

\* A table has one owner.
TablesOwned ==
    /\ \A r \in Requests :
         pc[r] \in {"ready", "prepared", "running", "creating", "fetching", "closing"} =>
           job[r].kind = "run"
    /\ \A r \in Requests : pc[r] = "creating" => job[r].table # NoTable
    /\ \A r \in Requests : OwnsTable(r) => tables[job[r].table] # Absent
    /\ \A r, q \in Requests :
         OwnsTable(r) /\ OwnsTable(q) /\ job[r].table = job[q].table => r = q
    /\ \A r \in Requests :
         OwnsTable(r) /\ answer[r] = "success" => tables[job[r].table] = appended[r]

IInv ==
    /\ TypeOK /\ PathDomains /\ StatementsLeft
    /\ KeysAgree /\ MetOnConnection /\ WatchdogIsScoped /\ AloneOnConnection
    /\ RowsCounted /\ RowsComplete /\ TablesOwned /\ UndisturbedRun

\* What of a chunk of n rows is taken, and what was taken before, are what would
\* be taken of all.
LEMMA TakenAddsUp ==
  ASSUME NEW limit \in Nat, NEW have \in Nat, NEW n \in Nat
  PROVE  AtMost(limit, have) + Taken(AtMost(limit, have), limit, n) = AtMost(limit, have + n)
BY DEF AtMost, Taken

\* Every action keeps the type invariant.
LEMMA TypeStep == IInv /\ [Next]_vars => TypeOK'
<1> SUFFICES ASSUME IInv, [Next]_vars PROVE TypeOK'
  OBVIOUS
<1> USE UiAssumption DEF UiAssumption, IInv, TypeOK, Step, Answer, progress, connVars, Connections, Causes, StatementsLeft, Keys, Key
<1>1. ASSUME NEW r \in Requests, Find(r)
      PROVE TypeOK'
  BY <1>1 DEF Find, TakeUp
<1>2. ASSUME NEW r \in Requests, FindNone(r)
      PROVE TypeOK'
  BY <1>2 DEF FindNone
<1>3. ASSUME NEW r \in Requests, Insert(r)
      PROVE TypeOK'
  BY <1>3 DEF Insert, TakeUp
<1>4. ASSUME NEW r \in Requests, Interrupt(r)
      PROVE TypeOK'
  BY <1>4 DEF Interrupt
<1>5. ASSUME NEW r \in Requests, SetUp(r)
      PROVE TypeOK'
  BY <1>5 DEF SetUp
<1>6. ASSUME NEW r \in Requests, Prepare(r)
      PROVE TypeOK'
  <2>1. /\ pc' = [pc EXCEPT ![r] = "prepared"] \/ pc' = [pc EXCEPT ![r] = "leaving"]
        /\ answer' = answer \/ answer' = [answer EXCEPT ![r] = "error"]
        /\ open' = [open EXCEPT ![con[r]] = NoRequest]
        /\ UNCHANGED <<job, con, todo, fetched, appended, inResult, pool, tables,
                       dog, met, cut, raced>>
    BY <1>6 DEF Prepare, Begin, WithParams
  <2>2. interrupted' \in [Connections -> BOOLEAN]
    BY <1>6 DEF Prepare, Begin, WithParams
  <2>3. dropped' \in [Requests -> BOOLEAN]
    BY <1>6, Zenon DEF Prepare, Begin, WithParams
  <2> QED
    BY <2>1, <2>2, <2>3
<1>7. ASSUME NEW r \in Requests, Start(r)
      PROVE TypeOK'
  BY <1>7 DEF Start, Begin, WithParams
<1>8. ASSUME NEW r \in Requests, CreateTable(r)
      PROVE TypeOK'
  <2>1. pc' \in [Requests -> {"fetching", "leaving"} \union {pc[q] : q \in Requests}]
    BY <1>8 DEF CreateTable
  <2>2. answer' = answer \/ answer' = [answer EXCEPT ![r] = "error"]
    BY <1>8 DEF CreateTable
  <2>3. tables' = tables \/ tables' = [tables EXCEPT ![job[r].table] = 0]
    BY <1>8 DEF CreateTable
  <2>4. UNCHANGED <<job, con, todo, fetched, appended, inResult, pool, open,
                    interrupted, dog, met, cut, dropped, raced>>
    BY <1>8 DEF CreateTable
  <2>5. tables' \in [Tables -> Nat \union {Absent}]
    BY <2>3
  <2>6. answer' \in [Requests -> {"none", "success", "error", "notFound"}]
    BY <2>2
  <2> QED
    BY <2>1, <2>4, <2>5, <2>6
<1>9. ASSUME NEW r \in Requests, FetchEnds(r)
      PROVE TypeOK'
  BY <1>9 DEF FetchEnds
<1>10. ASSUME NEW r \in Requests, FetchClosed(r)
      PROVE TypeOK'
  BY <1>10 DEF FetchClosed, Ends
<1>11. ASSUME NEW r \in Requests, Succeed(r)
      PROVE TypeOK'
  BY <1>11 DEF Succeed
<1>12. ASSUME NEW r \in Requests, Leave(r)
      PROVE TypeOK'
  BY <1>12 DEF Leave
<1>13. ASSUME NEW r \in Requests, NEW why \in Causes, Fail(r, why)
      PROVE TypeOK'
  BY <1>13 DEF Fail, Ends
<1>14. ASSUME NEW r \in Requests, NEW why \in Causes, FetchCut(r, why)
      PROVE TypeOK'
  BY <1>14 DEF FetchCut, Ends
<1>15. ASSUME NEW r \in Requests, Mark(r)
      PROVE TypeOK'
  BY <1>15 DEF Mark
<1>16. ASSUME NEW r \in Requests, InterruptOverdue(r)
      PROVE TypeOK'
  BY <1>16 DEF InterruptOverdue
<1>17. ASSUME NEW r \in Requests, Finish(r)
      PROVE TypeOK'
  <2>1. pc' \in [Requests -> {"ready", "fetching", "creating"} \union {pc[q] : q \in Requests}]
    BY <1>17 DEF Finish
  <2>2. todo' \in [Requests -> Nat]
    BY <1>17 DEF Finish
  <2>3. open' \in [Connections -> Requests \union {NoRequest}]
    BY <1>17 DEF Finish
  <2>4. UNCHANGED <<job, con, fetched, appended, inResult, answer, pool, tables,
                    interrupted, dog, met, cut, dropped, raced>>
    BY <1>17 DEF Finish
  <2> QED
    BY <2>1, <2>2, <2>3, <2>4
<1>18. ASSUME NEW r \in Requests, Fetch(r)
      PROVE TypeOK'
  BY <1>18 DEF Fetch, AtMost, Taken
<1>19. CASE UNCHANGED vars
  BY <1>19 DEF vars, progress, connVars
<1>20. ASSUME NEW r \in Requests, AppendFails(r)
      PROVE TypeOK'
  BY <1>20 DEF AppendFails, Ends
<1> QED
  BY <1>1, <1>2, <1>3, <1>4, <1>5, <1>6, <1>7, <1>8, <1>9, <1>10, <1>11, <1>12, <1>13, <1>14, <1>15, <1>16, <1>17, <1>18, <1>19, <1>20 DEF Next, Handler, Watchdog

\* The histories of paths keep their domains.
LEMMA DomainStep == IInv /\ [Next]_vars => PathDomains'
<1> SUFFICES ASSUME IInv, [Next]_vars PROVE PathDomains'
  OBVIOUS
<1> USE UiAssumption DEF UiAssumption, IInv, TypeOK, Step, Answer, progress, connVars, Connections, PathDomains
<1>1. ASSUME NEW r \in Requests, Find(r)
      PROVE PathDomains'
  BY <1>1 DEF Find, TakeUp
<1>2. ASSUME NEW r \in Requests, FindNone(r)
      PROVE PathDomains'
  BY <1>2 DEF FindNone
<1>3. ASSUME NEW r \in Requests, Insert(r)
      PROVE PathDomains'
  BY <1>3 DEF Insert, TakeUp
<1>4. ASSUME NEW r \in Requests, Interrupt(r)
      PROVE PathDomains'
  BY <1>4 DEF Interrupt
<1>5. ASSUME NEW r \in Requests, SetUp(r)
      PROVE PathDomains'
  BY <1>5 DEF SetUp
<1>6. ASSUME NEW r \in Requests, Prepare(r)
      PROVE PathDomains'
  BY <1>6 DEF Prepare, Begin, WithParams
<1>7. ASSUME NEW r \in Requests, Start(r)
      PROVE PathDomains'
  BY <1>7 DEF Start, Begin, WithParams
<1>8. ASSUME NEW r \in Requests, CreateTable(r)
      PROVE PathDomains'
  BY <1>8 DEF CreateTable
<1>9. ASSUME NEW r \in Requests, FetchEnds(r)
      PROVE PathDomains'
  BY <1>9 DEF FetchEnds
<1>10. ASSUME NEW r \in Requests, FetchClosed(r)
      PROVE PathDomains'
  BY <1>10 DEF FetchClosed, Ends
<1>11. ASSUME NEW r \in Requests, Succeed(r)
      PROVE PathDomains'
  BY <1>11 DEF Succeed
<1>12. ASSUME NEW r \in Requests, Leave(r)
      PROVE PathDomains'
  BY <1>12 DEF Leave
<1>13. ASSUME NEW r \in Requests, NEW why \in Causes, Fail(r, why)
      PROVE PathDomains'
  BY <1>13 DEF Fail, Ends
<1>14. ASSUME NEW r \in Requests, NEW why \in Causes, FetchCut(r, why)
      PROVE PathDomains'
  BY <1>14 DEF FetchCut, Ends
<1>15. ASSUME NEW r \in Requests, Mark(r)
      PROVE PathDomains'
  BY <1>15 DEF Mark
<1>16. ASSUME NEW r \in Requests, InterruptOverdue(r)
      PROVE PathDomains'
  BY <1>16 DEF InterruptOverdue
<1>17. ASSUME NEW r \in Requests, Finish(r)
      PROVE PathDomains'
  BY <1>17 DEF Finish
<1>18. ASSUME NEW r \in Requests, Fetch(r)
      PROVE PathDomains'
  BY <1>18 DEF Fetch
<1>19. CASE UNCHANGED vars
  BY <1>19 DEF vars, progress, connVars
<1>20. ASSUME NEW r \in Requests, AppendFails(r)
      PROVE PathDomains'
  BY <1>20 DEF AppendFails, Ends
<1> QED
  BY <1>1, <1>2, <1>3, <1>4, <1>5, <1>6, <1>7, <1>8, <1>9, <1>10, <1>11, <1>12, <1>13, <1>14, <1>15, <1>16, <1>17, <1>18, <1>19, <1>20 DEF Next, Handler, Watchdog

\* Finish leaves a statement or goes on to the rows.
LEMMA LeftStep == IInv /\ [Next]_vars => StatementsLeft'
<1> SUFFICES ASSUME IInv, [Next]_vars PROVE StatementsLeft'
  OBVIOUS
<1> USE UiAssumption DEF UiAssumption, IInv, TypeOK, Step, Answer, progress, connVars, Connections, StatementsLeft
<1>1. ASSUME NEW r \in Requests, Find(r)
      PROVE StatementsLeft'
  BY <1>1 DEF Find, TakeUp
<1>2. ASSUME NEW r \in Requests, FindNone(r)
      PROVE StatementsLeft'
  BY <1>2 DEF FindNone
<1>3. ASSUME NEW r \in Requests, Insert(r)
      PROVE StatementsLeft'
  BY <1>3 DEF Insert, TakeUp
<1>4. ASSUME NEW r \in Requests, Interrupt(r)
      PROVE StatementsLeft'
  BY <1>4 DEF Interrupt
<1>5. ASSUME NEW r \in Requests, SetUp(r)
      PROVE StatementsLeft'
  BY <1>5 DEF SetUp
<1>6. ASSUME NEW r \in Requests, Prepare(r)
      PROVE StatementsLeft'
  BY <1>6 DEF Prepare, Begin, WithParams
<1>7. ASSUME NEW r \in Requests, Start(r)
      PROVE StatementsLeft'
  BY <1>7 DEF Start, Begin, WithParams
<1>8. ASSUME NEW r \in Requests, CreateTable(r)
      PROVE StatementsLeft'
  BY <1>8 DEF CreateTable
<1>9. ASSUME NEW r \in Requests, FetchEnds(r)
      PROVE StatementsLeft'
  BY <1>9 DEF FetchEnds
<1>10. ASSUME NEW r \in Requests, FetchClosed(r)
      PROVE StatementsLeft'
  BY <1>10 DEF FetchClosed, Ends
<1>11. ASSUME NEW r \in Requests, Succeed(r)
      PROVE StatementsLeft'
  BY <1>11 DEF Succeed
<1>12. ASSUME NEW r \in Requests, Leave(r)
      PROVE StatementsLeft'
  BY <1>12 DEF Leave
<1>13. ASSUME NEW r \in Requests, NEW why \in Causes, Fail(r, why)
      PROVE StatementsLeft'
  BY <1>13 DEF Fail, Ends
<1>14. ASSUME NEW r \in Requests, NEW why \in Causes, FetchCut(r, why)
      PROVE StatementsLeft'
  BY <1>14 DEF FetchCut, Ends
<1>15. ASSUME NEW r \in Requests, Mark(r)
      PROVE StatementsLeft'
  BY <1>15 DEF Mark
<1>16. ASSUME NEW r \in Requests, InterruptOverdue(r)
      PROVE StatementsLeft'
  BY <1>16 DEF InterruptOverdue
<1>17. ASSUME NEW r \in Requests, Finish(r)
      PROVE StatementsLeft'
  BY <1>17 DEF Finish
<1>18. ASSUME NEW r \in Requests, Fetch(r)
      PROVE StatementsLeft'
  BY <1>18 DEF Fetch
<1>19. CASE UNCHANGED vars
  BY <1>19 DEF vars, progress, connVars
<1>20. ASSUME NEW r \in Requests, AppendFails(r)
      PROVE StatementsLeft'
  BY <1>20 DEF AppendFails, Ends
<1> QED
  BY <1>1, <1>2, <1>3, <1>4, <1>5, <1>6, <1>7, <1>8, <1>9, <1>10, <1>11, <1>12, <1>13, <1>14, <1>15, <1>16, <1>17, <1>18, <1>19, <1>20 DEF Next, Handler, Watchdog

\* FindConnection and the insertion use one key.
LEMMA KeyStep == IInv /\ [Next]_vars => KeysAgree'
<1> SUFFICES ASSUME IInv, [Next]_vars PROVE KeysAgree'
  OBVIOUS
<1> USE UiAssumption DEF UiAssumption, IInv, TypeOK, Step, Answer, progress, connVars, Connections, KeysAgree, Key, Keys
<1>1. ASSUME NEW r \in Requests, Find(r)
      PROVE KeysAgree'
  BY <1>1 DEF Find, TakeUp
<1>2. ASSUME NEW r \in Requests, FindNone(r)
      PROVE KeysAgree'
  BY <1>2 DEF FindNone
<1>3. ASSUME NEW r \in Requests, Insert(r)
      PROVE KeysAgree'
  BY <1>3 DEF Insert, TakeUp
<1>4. ASSUME NEW r \in Requests, Interrupt(r)
      PROVE KeysAgree'
  BY <1>4 DEF Interrupt
<1>5. ASSUME NEW r \in Requests, SetUp(r)
      PROVE KeysAgree'
  BY <1>5 DEF SetUp
<1>6. ASSUME NEW r \in Requests, Prepare(r)
      PROVE KeysAgree'
  BY <1>6 DEF Prepare, Begin, WithParams
<1>7. ASSUME NEW r \in Requests, Start(r)
      PROVE KeysAgree'
  BY <1>7 DEF Start, Begin, WithParams
<1>8. ASSUME NEW r \in Requests, CreateTable(r)
      PROVE KeysAgree'
  BY <1>8 DEF CreateTable
<1>9. ASSUME NEW r \in Requests, FetchEnds(r)
      PROVE KeysAgree'
  BY <1>9 DEF FetchEnds
<1>10. ASSUME NEW r \in Requests, FetchClosed(r)
      PROVE KeysAgree'
  BY <1>10 DEF FetchClosed, Ends
<1>11. ASSUME NEW r \in Requests, Succeed(r)
      PROVE KeysAgree'
  BY <1>11 DEF Succeed
<1>12. ASSUME NEW r \in Requests, Leave(r)
      PROVE KeysAgree'
  BY <1>12 DEF Leave
<1>13. ASSUME NEW r \in Requests, NEW why \in Causes, Fail(r, why)
      PROVE KeysAgree'
  BY <1>13 DEF Fail, Ends
<1>14. ASSUME NEW r \in Requests, NEW why \in Causes, FetchCut(r, why)
      PROVE KeysAgree'
  BY <1>14 DEF FetchCut, Ends
<1>15. ASSUME NEW r \in Requests, Mark(r)
      PROVE KeysAgree'
  BY <1>15 DEF Mark
<1>16. ASSUME NEW r \in Requests, InterruptOverdue(r)
      PROVE KeysAgree'
  BY <1>16 DEF InterruptOverdue
<1>17. ASSUME NEW r \in Requests, Finish(r)
      PROVE KeysAgree'
  BY <1>17 DEF Finish
<1>18. ASSUME NEW r \in Requests, Fetch(r)
      PROVE KeysAgree'
  BY <1>18 DEF Fetch
<1>19. CASE UNCHANGED vars
  BY <1>19 DEF vars, progress, connVars
<1>20. ASSUME NEW r \in Requests, AppendFails(r)
      PROVE KeysAgree'
  BY <1>20 DEF AppendFails, Ends
<1> QED
  BY <1>1, <1>2, <1>3, <1>4, <1>5, <1>6, <1>7, <1>8, <1>9, <1>10, <1>11, <1>12, <1>13, <1>14, <1>15, <1>16, <1>17, <1>18, <1>19, <1>20 DEF Next, Handler, Watchdog

\* TakeUp marks who meets.
LEMMA MetStep == IInv /\ [Next]_vars => MetOnConnection'
<1> SUFFICES ASSUME IInv, [Next]_vars PROVE MetOnConnection'
  OBVIOUS
<1> USE UiAssumption DEF UiAssumption, IInv, TypeOK, Step, Answer, progress, connVars, Connections, MetOnConnection, UsersOf
<1>1. ASSUME NEW r \in Requests, Find(r)
      PROVE MetOnConnection'
  <2> DEFINE c == pool[Key(r)]
  <2>1. /\ con' = [con EXCEPT ![r] = c]
        /\ c \in Connections
        /\ pc' = [pc EXCEPT ![r] = "set"] /\ pc[r] = "find"
    BY <1>1 DEF Find, TakeUp, Key, Keys
  <2>2. \A q \in Requests : /\ met[q] => met'[q]
                            /\ q \in UsersOf(c) => met'[q]
                            /\ q = r /\ UsersOf(c) # {} => met'[q]
    BY <1>1 DEF Find, TakeUp
  <2>3. ASSUME NEW a \in Requests, NEW b \in Requests, a # b, con'[a] = con'[b],
               con'[a] # NoConn, pc'[a] # "gone", pc'[b] # "gone"
        PROVE met'[a] /\ met'[b]
    <3> HIDE DEF c, UsersOf
    <3>1. CASE a = r
      <4>1. con[b] = c /\ pc[b] # "gone" /\ b # r
        BY <2>1, <2>3, <3>1
      <4>2. b \in UsersOf(c)
        BY <4>1 DEF UsersOf
      <4> QED
        BY <2>2, <3>1, <4>2
    <3>2. CASE b = r
      <4>1. con[a] = c /\ pc[a] # "gone" /\ a # r
        BY <2>1, <2>3, <3>2
      <4>2. a \in UsersOf(c)
        BY <4>1 DEF UsersOf
      <4> QED
        BY <2>2, <3>2, <4>2
    <3>3. CASE a # r /\ b # r
      <4>1. con[a] = con[b] /\ con[a] # NoConn /\ pc[a] # "gone" /\ pc[b] # "gone"
        BY <2>1, <2>3, <3>3
      <4> QED
        BY <2>2, <2>3, <4>1
    <3> QED
      BY <3>1, <3>2, <3>3
  <2>4. \A q \in Requests :
          pc'[q] \notin {"find", "insert", "leaving", "gone"} => con'[q] # NoConn
    BY <2>1
  <2> QED
    BY <2>3, <2>4
<1>2. ASSUME NEW r \in Requests, FindNone(r)
      PROVE MetOnConnection'
  <2>1. con' = con /\ met' = met
    BY <1>2 DEF FindNone
  <2>2. \A q \in Requests : pc'[q] # "gone" => pc[q] # "gone"
    BY <1>2 DEF FindNone
  <2>3. \A q \in Requests :
          pc'[q] \notin {"find", "insert", "leaving", "gone"} => con[q] # NoConn
    BY <1>2 DEF FindNone
  <2> QED
    BY <2>1, <2>2, <2>3, Zenon
<1>3. ASSUME NEW r \in Requests, Insert(r)
      PROVE MetOnConnection'
  <2> DEFINE c == r
  <2>1. /\ con' = [con EXCEPT ![r] = c]
        /\ c \in Connections
        /\ pc' = [pc EXCEPT ![r] = "set"] /\ pc[r] = "insert"
    BY <1>3 DEF Insert, TakeUp, Key, Keys
  <2>2. \A q \in Requests : /\ met[q] => met'[q]
                            /\ q \in UsersOf(c) => met'[q]
                            /\ q = r /\ UsersOf(c) # {} => met'[q]
    BY <1>3 DEF Insert, TakeUp
  <2>3. ASSUME NEW a \in Requests, NEW b \in Requests, a # b, con'[a] = con'[b],
               con'[a] # NoConn, pc'[a] # "gone", pc'[b] # "gone"
        PROVE met'[a] /\ met'[b]
    <3> HIDE DEF c, UsersOf
    <3>1. CASE a = r
      <4>1. con[b] = c /\ pc[b] # "gone" /\ b # r
        BY <2>1, <2>3, <3>1
      <4>2. b \in UsersOf(c)
        BY <4>1 DEF UsersOf
      <4> QED
        BY <2>2, <3>1, <4>2
    <3>2. CASE b = r
      <4>1. con[a] = c /\ pc[a] # "gone" /\ a # r
        BY <2>1, <2>3, <3>2
      <4>2. a \in UsersOf(c)
        BY <4>1 DEF UsersOf
      <4> QED
        BY <2>2, <3>2, <4>2
    <3>3. CASE a # r /\ b # r
      <4>1. con[a] = con[b] /\ con[a] # NoConn /\ pc[a] # "gone" /\ pc[b] # "gone"
        BY <2>1, <2>3, <3>3
      <4> QED
        BY <2>2, <2>3, <4>1
    <3> QED
      BY <3>1, <3>2, <3>3
  <2>4. \A q \in Requests :
          pc'[q] \notin {"find", "insert", "leaving", "gone"} => con'[q] # NoConn
    BY <2>1
  <2> QED
    BY <2>3, <2>4
<1>4. ASSUME NEW r \in Requests, Interrupt(r)
      PROVE MetOnConnection'
  BY <1>4 DEF Interrupt
<1>5. ASSUME NEW r \in Requests, SetUp(r)
      PROVE MetOnConnection'
  <2>1. con' = con /\ met' = met
    BY <1>5 DEF SetUp
  <2>2. \A q \in Requests : pc'[q] # "gone" => pc[q] # "gone"
    BY <1>5 DEF SetUp
  <2>3. \A q \in Requests :
          pc'[q] \notin {"find", "insert", "leaving", "gone"} => con[q] # NoConn
    BY <1>5 DEF SetUp
  <2> QED
    BY <2>1, <2>2, <2>3, Zenon
<1>6. ASSUME NEW r \in Requests, Prepare(r)
      PROVE MetOnConnection'
  <2>1. con' = con /\ met' = met
    BY <1>6 DEF Prepare, Begin, WithParams
  <2>2. \A q \in Requests : pc'[q] # "gone" => pc[q] # "gone"
    BY <1>6 DEF Prepare, Begin, WithParams
  <2>3. \A q \in Requests :
          pc'[q] \notin {"find", "insert", "leaving", "gone"} => con[q] # NoConn
    BY <1>6 DEF Prepare, Begin, WithParams
  <2> QED
    BY <2>1, <2>2, <2>3, Zenon
<1>7. ASSUME NEW r \in Requests, Start(r)
      PROVE MetOnConnection'
  BY <1>7 DEF Start, Begin, WithParams
<1>8. ASSUME NEW r \in Requests, CreateTable(r)
      PROVE MetOnConnection'
  <2>1. con' = con /\ met' = met
    BY <1>8 DEF CreateTable
  <2>2. \A q \in Requests : pc'[q] # "gone" => pc[q] # "gone"
    BY <1>8 DEF CreateTable
  <2>3. \A q \in Requests :
          pc'[q] \notin {"find", "insert", "leaving", "gone"} => con[q] # NoConn
    BY <1>8 DEF CreateTable
  <2> QED
    BY <2>1, <2>2, <2>3, Zenon
<1>9. ASSUME NEW r \in Requests, FetchEnds(r)
      PROVE MetOnConnection'
  BY <1>9 DEF FetchEnds
<1>10. ASSUME NEW r \in Requests, FetchClosed(r)
      PROVE MetOnConnection'
  BY <1>10 DEF FetchClosed, Ends
<1>11. ASSUME NEW r \in Requests, Succeed(r)
      PROVE MetOnConnection'
  BY <1>11 DEF Succeed
<1>12. ASSUME NEW r \in Requests, Leave(r)
      PROVE MetOnConnection'
  BY <1>12 DEF Leave
<1>13. ASSUME NEW r \in Requests, NEW why \in Causes, Fail(r, why)
      PROVE MetOnConnection'
  BY <1>13 DEF Fail, Ends
<1>14. ASSUME NEW r \in Requests, NEW why \in Causes, FetchCut(r, why)
      PROVE MetOnConnection'
  BY <1>14 DEF FetchCut, Ends
<1>15. ASSUME NEW r \in Requests, Mark(r)
      PROVE MetOnConnection'
  BY <1>15 DEF Mark
<1>16. ASSUME NEW r \in Requests, InterruptOverdue(r)
      PROVE MetOnConnection'
  BY <1>16 DEF InterruptOverdue
<1>17. ASSUME NEW r \in Requests, Finish(r)
      PROVE MetOnConnection'
  BY <1>17 DEF Finish
<1>18. ASSUME NEW r \in Requests, Fetch(r)
      PROVE MetOnConnection'
  BY <1>18 DEF Fetch
<1>19. CASE UNCHANGED vars
  BY <1>19 DEF vars, progress, connVars
<1>20. ASSUME NEW r \in Requests, AppendFails(r)
      PROVE MetOnConnection'
  BY <1>20 DEF AppendFails, Ends
<1> QED
  BY <1>1, <1>2, <1>3, <1>4, <1>5, <1>6, <1>7, <1>8, <1>9, <1>10, <1>11, <1>12, <1>13, <1>14, <1>15, <1>16, <1>17, <1>18, <1>19, <1>20 DEF Next, Handler, Watchdog

\* The watchdog is joined before the request leaves.
LEMMA ScopeStep == IInv /\ [Next]_vars => WatchdogIsScoped'
<1> SUFFICES ASSUME IInv, [Next]_vars PROVE WatchdogIsScoped'
  OBVIOUS
<1> USE UiAssumption DEF UiAssumption, IInv, TypeOK, Step, Answer, progress, connVars, Connections, MetOnConnection, WatchdogIsScoped, Causes
<1>1. ASSUME NEW r \in Requests, Find(r)
      PROVE WatchdogIsScoped'
  BY <1>1 DEF Find, TakeUp
<1>2. ASSUME NEW r \in Requests, FindNone(r)
      PROVE WatchdogIsScoped'
  BY <1>2 DEF FindNone
<1>3. ASSUME NEW r \in Requests, Insert(r)
      PROVE WatchdogIsScoped'
  BY <1>3 DEF Insert, TakeUp
<1>4. ASSUME NEW r \in Requests, Interrupt(r)
      PROVE WatchdogIsScoped'
  BY <1>4 DEF Interrupt
<1>5. ASSUME NEW r \in Requests, SetUp(r)
      PROVE WatchdogIsScoped'
  BY <1>5 DEF SetUp
<1>6. ASSUME NEW r \in Requests, Prepare(r)
      PROVE WatchdogIsScoped'
  BY <1>6 DEF Prepare, Begin, WithParams
<1>7. ASSUME NEW r \in Requests, Start(r)
      PROVE WatchdogIsScoped'
  BY <1>7 DEF Start, Begin, WithParams
<1>8. ASSUME NEW r \in Requests, CreateTable(r)
      PROVE WatchdogIsScoped'
  BY <1>8 DEF CreateTable
<1>9. ASSUME NEW r \in Requests, FetchEnds(r)
      PROVE WatchdogIsScoped'
  BY <1>9 DEF FetchEnds
<1>10. ASSUME NEW r \in Requests, FetchClosed(r)
      PROVE WatchdogIsScoped'
  BY <1>10 DEF FetchClosed, Ends
<1>11. ASSUME NEW r \in Requests, Succeed(r)
      PROVE WatchdogIsScoped'
  BY <1>11 DEF Succeed
<1>12. ASSUME NEW r \in Requests, Leave(r)
      PROVE WatchdogIsScoped'
  BY <1>12 DEF Leave
<1>13. ASSUME NEW r \in Requests, NEW why \in Causes, Fail(r, why)
      PROVE WatchdogIsScoped'
  BY <1>13 DEF Fail, Ends
<1>14. ASSUME NEW r \in Requests, NEW why \in Causes, FetchCut(r, why)
      PROVE WatchdogIsScoped'
  BY <1>14 DEF FetchCut, Ends
<1>15. ASSUME NEW r \in Requests, Mark(r)
      PROVE WatchdogIsScoped'
  BY <1>15 DEF Mark
<1>16. ASSUME NEW r \in Requests, InterruptOverdue(r)
      PROVE WatchdogIsScoped'
  BY <1>16 DEF InterruptOverdue
<1>17. ASSUME NEW r \in Requests, Finish(r)
      PROVE WatchdogIsScoped'
  BY <1>17 DEF Finish
<1>18. ASSUME NEW r \in Requests, Fetch(r)
      PROVE WatchdogIsScoped'
  BY <1>18 DEF Fetch
<1>19. CASE UNCHANGED vars
  BY <1>19 DEF vars, progress, connVars
<1>20. ASSUME NEW r \in Requests, AppendFails(r)
      PROVE WatchdogIsScoped'
  BY <1>20 DEF AppendFails, Ends
<1> QED
  BY <1>1, <1>2, <1>3, <1>4, <1>5, <1>6, <1>7, <1>8, <1>9, <1>10, <1>11, <1>12, <1>13, <1>14, <1>15, <1>16, <1>17, <1>18, <1>19, <1>20 DEF Next, Handler, Watchdog

\* Only requests at work on a connection touch it.
LEMMA AloneStep == IInv /\ [Next]_vars => AloneOnConnection'
<1> SUFFICES ASSUME IInv, [Next]_vars PROVE AloneOnConnection'
  OBVIOUS
<1> USE UiAssumption DEF UiAssumption, IInv, TypeOK, Step, Answer, progress, connVars, Connections, PathDomains, MetOnConnection, WatchdogIsScoped, AloneOnConnection, UsersOf
<1>0. \A q \in Requests :
        pc[q] \notin {"find", "insert", "leaving", "gone"} => con[q] \in Connections
  OBVIOUS
<1>1. ASSUME NEW r \in Requests, Find(r)
      PROVE AloneOnConnection'
  BY <1>1 DEF Find, TakeUp
<1>2. ASSUME NEW r \in Requests, FindNone(r)
      PROVE AloneOnConnection'
  BY <1>2 DEF FindNone
<1>3. ASSUME NEW r \in Requests, Insert(r)
      PROVE AloneOnConnection'
  BY <1>3 DEF Insert, TakeUp
<1>4. ASSUME NEW r \in Requests, Interrupt(r)
      PROVE AloneOnConnection'
  BY <1>4 DEF Interrupt
<1>5. ASSUME NEW r \in Requests, SetUp(r)
      PROVE AloneOnConnection'
  <2>1. /\ pc[r] = "set"
        /\ pc' = [pc EXCEPT ![r] = "ready"] \/ pc' = [pc EXCEPT ![r] = "leaving"]
        /\ UNCHANGED <<met, job, con, open, interrupted>>
        /\ path' = [path EXCEPT ![con[r]] = IF job[r].path = NoPath THEN @ ELSE job[r].path]
        /\ \A q \in Requests : q # r => dog'[q] = dog[q]
    BY <1>5 DEF SetUp
  <2>2. con[r] \in Connections
    BY <1>0, <2>1
  <2>3. ASSUME NEW q \in Requests, ~met[q], job[q].path # NoPath,
               pc'[q] \in {"ready", "prepared", "running"}
        PROVE path'[con[q]] = job[q].path
    <3>1. CASE q = r
      BY <2>1, <2>2, <2>3, <3>1
    <3>2. CASE q # r
      <4>1. pc[q] = pc'[q] /\ pc[q] # "gone" /\ pc[r] # "gone"
        BY <2>1, <2>3, <3>2
      <4>2. con[q] # con[r]
        BY <2>2, <2>3, <3>2, <4>1
      <4> QED
        BY <2>1, <2>3, <4>1, <4>2
    <3> QED
      BY <3>1, <3>2
  <2>4. ASSUME NEW q \in Requests, ~met[q], pc'[q] \in {"running", "creating", "fetching"}
        PROVE /\ open[con[q]] = q
              /\ interrupted[con[q]] => dog'[q] = "done"
    BY <2>1, <2>4
  <2> QED
    BY <2>1, <2>3, <2>4
<1>6. ASSUME NEW r \in Requests, Prepare(r)
      PROVE AloneOnConnection'
  BY <1>6 DEF Prepare, Begin, WithParams
<1>7. ASSUME NEW r \in Requests, Start(r)
      PROVE AloneOnConnection'
  <2>1. /\ pc[r] \in {"ready", "prepared"} /\ pc' = [pc EXCEPT ![r] = "running"]
        /\ UNCHANGED <<met, job, con, path, dog>>
        /\ open' = [open EXCEPT ![con[r]] = r]
        /\ interrupted' = [interrupted EXCEPT ![con[r]] = FALSE]
    BY <1>7 DEF Start, Begin, WithParams
  <2>2. con[r] \in Connections
    BY <1>0, <2>1
  <2>3. open'[con[r]] = r /\ ~interrupted'[con[r]]
    BY <2>1, <2>2
  <2>4. ASSUME NEW q \in Requests, ~met[q], pc'[q] \in {"running", "creating", "fetching"}
        PROVE /\ open'[con[q]] = q
              /\ interrupted'[con[q]] => dog[q] = "done"
    <3>1. CASE q = r
      BY <2>3, <3>1
    <3>2. CASE q # r
      <4>1. con[q] # con[r]
        BY <2>1, <2>2, <2>4, <3>2
      <4>2. open'[con[q]] = open[con[q]] /\ interrupted'[con[q]] = interrupted[con[q]]
        BY <2>1, <4>1
      <4> QED
        BY <2>1, <2>4, <3>2, <4>2
    <3> QED
      BY <3>1, <3>2
  <2>5. \A q \in Requests : ~met[q] /\ pc'[q] \in {"ready", "prepared", "running"}
          /\ job[q].path # NoPath => path[con[q]] = job[q].path
    BY <2>1
  <2> QED
    BY <2>1, <2>4, <2>5
<1>8. ASSUME NEW r \in Requests, CreateTable(r)
      PROVE AloneOnConnection'
  BY <1>8 DEF CreateTable
<1>9. ASSUME NEW r \in Requests, FetchEnds(r)
      PROVE AloneOnConnection'
  BY <1>9 DEF FetchEnds
<1>10. ASSUME NEW r \in Requests, FetchClosed(r)
      PROVE AloneOnConnection'
  BY <1>10 DEF FetchClosed, Ends
<1>11. ASSUME NEW r \in Requests, Succeed(r)
      PROVE AloneOnConnection'
  BY <1>11 DEF Succeed
<1>12. ASSUME NEW r \in Requests, Leave(r)
      PROVE AloneOnConnection'
  BY <1>12 DEF Leave
<1>13. ASSUME NEW r \in Requests, NEW why \in Causes, Fail(r, why)
      PROVE AloneOnConnection'
  BY <1>13 DEF Fail, Ends
<1>14. ASSUME NEW r \in Requests, NEW why \in Causes, FetchCut(r, why)
      PROVE AloneOnConnection'
  BY <1>14 DEF FetchCut, Ends
<1>15. ASSUME NEW r \in Requests, Mark(r)
      PROVE AloneOnConnection'
  BY <1>15 DEF Mark
<1>16. ASSUME NEW r \in Requests, InterruptOverdue(r)
      PROVE AloneOnConnection'
  BY <1>16 DEF InterruptOverdue
<1>17. ASSUME NEW r \in Requests, Finish(r)
      PROVE AloneOnConnection'
  BY <1>17 DEF Finish
<1>18. ASSUME NEW r \in Requests, Fetch(r)
      PROVE AloneOnConnection'
  BY <1>18 DEF Fetch
<1>19. CASE UNCHANGED vars
  BY <1>19 DEF vars, progress, connVars
<1>20. ASSUME NEW r \in Requests, AppendFails(r)
      PROVE AloneOnConnection'
  BY <1>20 DEF AppendFails, Ends
<1> QED
  BY <1>1, <1>2, <1>3, <1>4, <1>5, <1>6, <1>7, <1>8, <1>9, <1>10, <1>11, <1>12, <1>13, <1>14, <1>15, <1>16, <1>17, <1>18, <1>19, <1>20 DEF Next, Handler, Watchdog

\* Statements begin, end and are cut on the request's own connection.
LEMMA UndisturbedStep == IInv /\ [Next]_vars => UndisturbedRun'
<1> SUFFICES ASSUME IInv, [Next]_vars PROVE UndisturbedRun'
  OBVIOUS
<1> USE UiAssumption DEF UiAssumption, IInv, TypeOK, Step, Answer, progress, connVars, Connections, PathDomains, MetOnConnection, WatchdogIsScoped, AloneOnConnection, UndisturbedRun, Causes
<1>1. ASSUME NEW r \in Requests, Find(r)
      PROVE UndisturbedRun'
  BY <1>1 DEF Find, TakeUp
<1>2. ASSUME NEW r \in Requests, FindNone(r)
      PROVE UndisturbedRun'
  BY <1>2 DEF FindNone
<1>3. ASSUME NEW r \in Requests, Insert(r)
      PROVE UndisturbedRun'
  BY <1>3 DEF Insert, TakeUp
<1>4. ASSUME NEW r \in Requests, Interrupt(r)
      PROVE UndisturbedRun'
  BY <1>4 DEF Interrupt
<1>5. ASSUME NEW r \in Requests, SetUp(r)
      PROVE UndisturbedRun'
  BY <1>5 DEF SetUp
<1>6. ASSUME NEW r \in Requests, Prepare(r)
      PROVE UndisturbedRun'
  BY <1>6 DEF Prepare, Begin, WithParams
<1>7. ASSUME NEW r \in Requests, Start(r)
      PROVE UndisturbedRun'
  BY <1>7 DEF Start, Begin, WithParams
<1>8. ASSUME NEW r \in Requests, CreateTable(r)
      PROVE UndisturbedRun'
  BY <1>8 DEF CreateTable
<1>9. ASSUME NEW r \in Requests, FetchEnds(r)
      PROVE UndisturbedRun'
  BY <1>9 DEF FetchEnds
<1>10. ASSUME NEW r \in Requests, FetchClosed(r)
      PROVE UndisturbedRun'
  BY <1>10 DEF FetchClosed, Ends
<1>11. ASSUME NEW r \in Requests, Succeed(r)
      PROVE UndisturbedRun'
  BY <1>11 DEF Succeed
<1>12. ASSUME NEW r \in Requests, Leave(r)
      PROVE UndisturbedRun'
  BY <1>12 DEF Leave
<1>13. ASSUME NEW r \in Requests, NEW why \in Causes, Fail(r, why)
      PROVE UndisturbedRun'
  <2>1. CASE why = "error"
    BY <1>13, <2>1 DEF Fail, Ends
  <2>2. CASE why = "interrupt"
    BY <1>13, <2>2 DEF Fail, Ends
  <2>3. CASE why = "closed"
    BY <1>13, <2>3 DEF Fail, Ends
  <2> QED
    BY <2>1, <2>2, <2>3
<1>14. ASSUME NEW r \in Requests, NEW why \in Causes, FetchCut(r, why)
      PROVE UndisturbedRun'
  <2>1. CASE why = "error"
    BY <1>14, <2>1 DEF FetchCut, Ends
  <2>2. CASE why = "interrupt"
    BY <1>14, <2>2 DEF FetchCut, Ends
  <2>3. CASE why = "closed"
    BY <1>14, <2>3 DEF FetchCut, Ends
  <2> QED
    BY <2>1, <2>2, <2>3
<1>15. ASSUME NEW r \in Requests, Mark(r)
      PROVE UndisturbedRun'
  BY <1>15 DEF Mark
<1>16. ASSUME NEW r \in Requests, InterruptOverdue(r)
      PROVE UndisturbedRun'
  BY <1>16 DEF InterruptOverdue
<1>17. ASSUME NEW r \in Requests, Finish(r)
      PROVE UndisturbedRun'
  BY <1>17 DEF Finish
<1>18. ASSUME NEW r \in Requests, Fetch(r)
      PROVE UndisturbedRun'
  BY <1>18 DEF Fetch
<1>19. CASE UNCHANGED vars
  BY <1>19 DEF vars, progress, connVars
<1>20. ASSUME NEW r \in Requests, AppendFails(r)
      PROVE UndisturbedRun'
  BY <1>20 DEF AppendFails, Ends
<1> QED
  BY <1>1, <1>2, <1>3, <1>4, <1>5, <1>6, <1>7, <1>8, <1>9, <1>10, <1>11, <1>12, <1>13, <1>14, <1>15, <1>16, <1>17, <1>18, <1>19, <1>20 DEF Next, Handler, Watchdog

\* A chunk is cut at each limit.
LEMMA FetchCounts ==
  ASSUME TypeOK, RowsCounted, NEW r \in Requests, Fetch(r)
  PROVE  RowsCounted'
<1> DEFINE n == AtMost(ChunkRows, job[r].rows - fetched[r])
<1>1. /\ job[r] \in Jobs /\ fetched[r] \in Nat
      /\ job[r].limit \in Nat /\ job[r].tableLimit \in Nat /\ job[r].rows \in Nat
  BY UiAssumption DEF UiAssumption, TypeOK
<1>2. /\ fetched[r] <= job[r].rows
      /\ inResult[r] = AtMost(job[r].limit, fetched[r])
      /\ appended[r] = AtMost(job[r].tableLimit, fetched[r])
  BY DEF RowsCounted
<1>3. n \in Nat /\ n > 0 /\ fetched[r] + n <= job[r].rows
  BY <1>1, UiAssumption DEF Fetch, AtMost, UiAssumption
<1>4. /\ fetched' = [fetched EXCEPT ![r] = @ + n]
      /\ appended' = [appended EXCEPT ![r] = @ + Taken(@, job[r].tableLimit, n)]
      /\ inResult' = [inResult EXCEPT ![r] = @ + Taken(@, job[r].limit, n)]
      /\ job' = job
  BY DEF Fetch
<1> HIDE DEF n
<1>5. /\ inResult[r] + Taken(inResult[r], job[r].limit, n)
           = AtMost(job[r].limit, fetched[r] + n)
      /\ appended[r] + Taken(appended[r], job[r].tableLimit, n)
           = AtMost(job[r].tableLimit, fetched[r] + n)
  <2>1. /\ AtMost(job[r].limit, fetched[r])
              + Taken(AtMost(job[r].limit, fetched[r]), job[r].limit, n)
            = AtMost(job[r].limit, fetched[r] + n)
        /\ AtMost(job[r].tableLimit, fetched[r])
              + Taken(AtMost(job[r].tableLimit, fetched[r]), job[r].tableLimit, n)
            = AtMost(job[r].tableLimit, fetched[r] + n)
    BY <1>1, <1>3, TakenAddsUp
  <2> QED
    BY <2>1, <1>2, Zenon
<1> QED
  BY <1>1, <1>3, <1>4, <1>5 DEF RowsCounted, TypeOK

\* Rows are counted in Fetch alone.
LEMMA CountStep == IInv /\ [Next]_vars => RowsCounted'
<1> SUFFICES ASSUME IInv, [Next]_vars PROVE RowsCounted'
  OBVIOUS
<1> USE UiAssumption DEF UiAssumption, IInv, TypeOK, Step, Answer, progress, connVars, Connections, RowsCounted
<1>1. ASSUME NEW r \in Requests, Find(r)
      PROVE RowsCounted'
  BY <1>1 DEF Find, TakeUp
<1>2. ASSUME NEW r \in Requests, FindNone(r)
      PROVE RowsCounted'
  BY <1>2 DEF FindNone
<1>3. ASSUME NEW r \in Requests, Insert(r)
      PROVE RowsCounted'
  BY <1>3 DEF Insert, TakeUp
<1>4. ASSUME NEW r \in Requests, Interrupt(r)
      PROVE RowsCounted'
  BY <1>4 DEF Interrupt
<1>5. ASSUME NEW r \in Requests, SetUp(r)
      PROVE RowsCounted'
  BY <1>5 DEF SetUp
<1>6. ASSUME NEW r \in Requests, Prepare(r)
      PROVE RowsCounted'
  BY <1>6 DEF Prepare, Begin, WithParams
<1>7. ASSUME NEW r \in Requests, Start(r)
      PROVE RowsCounted'
  BY <1>7 DEF Start, Begin, WithParams
<1>8. ASSUME NEW r \in Requests, CreateTable(r)
      PROVE RowsCounted'
  BY <1>8 DEF CreateTable
<1>9. ASSUME NEW r \in Requests, FetchEnds(r)
      PROVE RowsCounted'
  BY <1>9 DEF FetchEnds
<1>10. ASSUME NEW r \in Requests, FetchClosed(r)
      PROVE RowsCounted'
  BY <1>10 DEF FetchClosed, Ends
<1>11. ASSUME NEW r \in Requests, Succeed(r)
      PROVE RowsCounted'
  BY <1>11 DEF Succeed
<1>12. ASSUME NEW r \in Requests, Leave(r)
      PROVE RowsCounted'
  BY <1>12 DEF Leave
<1>13. ASSUME NEW r \in Requests, NEW why \in Causes, Fail(r, why)
      PROVE RowsCounted'
  BY <1>13 DEF Fail, Ends
<1>14. ASSUME NEW r \in Requests, NEW why \in Causes, FetchCut(r, why)
      PROVE RowsCounted'
  BY <1>14 DEF FetchCut, Ends
<1>15. ASSUME NEW r \in Requests, Mark(r)
      PROVE RowsCounted'
  BY <1>15 DEF Mark
<1>16. ASSUME NEW r \in Requests, InterruptOverdue(r)
      PROVE RowsCounted'
  BY <1>16 DEF InterruptOverdue
<1>17. ASSUME NEW r \in Requests, Finish(r)
      PROVE RowsCounted'
  BY <1>17 DEF Finish
<1>18. ASSUME NEW r \in Requests, Fetch(r)
      PROVE RowsCounted'
  BY <1>18, FetchCounts
<1>19. CASE UNCHANGED vars
  BY <1>19 DEF vars, progress, connVars
<1>20. ASSUME NEW r \in Requests, AppendFails(r)
      PROVE RowsCounted'
  BY <1>20 DEF AppendFails, Ends
<1> QED
  BY <1>1, <1>2, <1>3, <1>4, <1>5, <1>6, <1>7, <1>8, <1>9, <1>10, <1>11, <1>12, <1>13, <1>14, <1>15, <1>16, <1>17, <1>18, <1>19, <1>20 DEF Next, Handler, Watchdog

\* The loop ends at the larger limit or at the last row.
LEMMA CompleteStep == IInv /\ [Next]_vars => RowsComplete'
<1> SUFFICES ASSUME IInv, [Next]_vars PROVE RowsComplete'
  OBVIOUS
<1> USE UiAssumption DEF UiAssumption, IInv, TypeOK, Step, Answer, progress, connVars, Connections, RowsComplete, RowLimit, Causes
<1>1. ASSUME NEW r \in Requests, Find(r)
      PROVE RowsComplete'
  BY <1>1 DEF Find, TakeUp
<1>2. ASSUME NEW r \in Requests, FindNone(r)
      PROVE RowsComplete'
  BY <1>2 DEF FindNone
<1>3. ASSUME NEW r \in Requests, Insert(r)
      PROVE RowsComplete'
  BY <1>3 DEF Insert, TakeUp
<1>4. ASSUME NEW r \in Requests, Interrupt(r)
      PROVE RowsComplete'
  BY <1>4 DEF Interrupt
<1>5. ASSUME NEW r \in Requests, SetUp(r)
      PROVE RowsComplete'
  BY <1>5 DEF SetUp
<1>6. ASSUME NEW r \in Requests, Prepare(r)
      PROVE RowsComplete'
  BY <1>6 DEF Prepare, Begin, WithParams
<1>7. ASSUME NEW r \in Requests, Start(r)
      PROVE RowsComplete'
  BY <1>7 DEF Start, Begin, WithParams
<1>8. ASSUME NEW r \in Requests, CreateTable(r)
      PROVE RowsComplete'
  BY <1>8 DEF CreateTable
<1>9. ASSUME NEW r \in Requests, FetchEnds(r)
      PROVE RowsComplete'
  BY <1>9 DEF FetchEnds
<1>10. ASSUME NEW r \in Requests, FetchClosed(r)
      PROVE RowsComplete'
  BY <1>10 DEF FetchClosed, Ends
<1>11. ASSUME NEW r \in Requests, Succeed(r)
      PROVE RowsComplete'
  BY <1>11 DEF Succeed
<1>12. ASSUME NEW r \in Requests, Leave(r)
      PROVE RowsComplete'
  BY <1>12 DEF Leave
<1>13. ASSUME NEW r \in Requests, NEW why \in Causes, Fail(r, why)
      PROVE RowsComplete'
  BY <1>13 DEF Fail, Ends
<1>14. ASSUME NEW r \in Requests, NEW why \in Causes, FetchCut(r, why)
      PROVE RowsComplete'
  BY <1>14 DEF FetchCut, Ends
<1>15. ASSUME NEW r \in Requests, Mark(r)
      PROVE RowsComplete'
  BY <1>15 DEF Mark
<1>16. ASSUME NEW r \in Requests, InterruptOverdue(r)
      PROVE RowsComplete'
  BY <1>16 DEF InterruptOverdue
<1>17. ASSUME NEW r \in Requests, Finish(r)
      PROVE RowsComplete'
  BY <1>17 DEF Finish
<1>18. ASSUME NEW r \in Requests, Fetch(r)
      PROVE RowsComplete'
  BY <1>18 DEF Fetch
<1>19. CASE UNCHANGED vars
  BY <1>19 DEF vars, progress, connVars
<1>20. ASSUME NEW r \in Requests, AppendFails(r)
      PROVE RowsComplete'
  BY <1>20 DEF AppendFails, Ends
<1> QED
  BY <1>1, <1>2, <1>3, <1>4, <1>5, <1>6, <1>7, <1>8, <1>9, <1>10, <1>11, <1>12, <1>13, <1>14, <1>15, <1>16, <1>17, <1>18, <1>19, <1>20 DEF Next, Handler, Watchdog

\* CREATE TABLE fails if the table exists.
LEMMA TableStep == IInv /\ [Next]_vars => TablesOwned'
<1> SUFFICES ASSUME IInv, [Next]_vars PROVE TablesOwned'
  OBVIOUS
<1> USE UiAssumption DEF UiAssumption, IInv, TypeOK, Step, Answer, progress, connVars, Connections, RowsComplete, TablesOwned, OwnsTable, Tables, Absent
<1>1. ASSUME NEW r \in Requests, Find(r)
      PROVE TablesOwned'
  BY <1>1 DEF Find, TakeUp
<1>2. ASSUME NEW r \in Requests, FindNone(r)
      PROVE TablesOwned'
  <2>1. /\ UNCHANGED <<job, tables, appended>>
        /\ \A q \in Requests : answer'[q] = "success" => answer[q] = "success"
    BY <1>2 DEF FindNone
  <2>2. \A q \in Requests :
          /\ pc'[q] \in {"fetching", "closing"} => pc[q] = pc'[q] \/ job[q].table = NoTable
          /\ pc'[q] = "creating" => job[q].table # NoTable
          /\ pc'[q] \in {"ready", "prepared", "running", "creating", "fetching", "closing"}
               => job[q].kind = "run"
    BY <1>2 DEF FindNone
  <2>3. \A q \in Requests : OwnsTable(q)' => OwnsTable(q)
    BY <2>1, <2>2
  <2> QED
    BY <2>1, <2>2, <2>3
<1>3. ASSUME NEW r \in Requests, Insert(r)
      PROVE TablesOwned'
  BY <1>3 DEF Insert, TakeUp
<1>4. ASSUME NEW r \in Requests, Interrupt(r)
      PROVE TablesOwned'
  BY <1>4 DEF Interrupt
<1>5. ASSUME NEW r \in Requests, SetUp(r)
      PROVE TablesOwned'
  <2>1. /\ UNCHANGED <<job, tables, appended>>
        /\ \A q \in Requests : answer'[q] = "success" => answer[q] = "success"
    BY <1>5 DEF SetUp
  <2>2. \A q \in Requests :
          /\ pc'[q] \in {"fetching", "closing"} => pc[q] = pc'[q] \/ job[q].table = NoTable
          /\ pc'[q] = "creating" => job[q].table # NoTable
          /\ pc'[q] \in {"ready", "prepared", "running", "creating", "fetching", "closing"}
               => job[q].kind = "run"
    BY <1>5 DEF SetUp
  <2>3. \A q \in Requests : OwnsTable(q)' => OwnsTable(q)
    BY <2>1, <2>2
  <2> QED
    BY <2>1, <2>2, <2>3
<1>6. ASSUME NEW r \in Requests, Prepare(r)
      PROVE TablesOwned'
  <2>1. /\ UNCHANGED <<job, tables, appended>>
        /\ \A q \in Requests : answer'[q] = "success" => answer[q] = "success"
    BY <1>6 DEF Prepare, Begin, WithParams
  <2>2. \A q \in Requests :
          /\ pc'[q] \in {"fetching", "closing"} => pc[q] = pc'[q] \/ job[q].table = NoTable
          /\ pc'[q] = "creating" => job[q].table # NoTable
          /\ pc'[q] \in {"ready", "prepared", "running", "creating", "fetching", "closing"}
               => job[q].kind = "run"
    BY <1>6 DEF Prepare, Begin, WithParams
  <2>3. \A q \in Requests : OwnsTable(q)' => OwnsTable(q)
    BY <2>1, <2>2
  <2> QED
    BY <2>1, <2>2, <2>3
<1>7. ASSUME NEW r \in Requests, Start(r)
      PROVE TablesOwned'
  BY <1>7 DEF Start, Begin, WithParams
<1>8. ASSUME NEW r \in Requests, CreateTable(r)
      PROVE TablesOwned'
  <2>1. job' = job /\ UNCHANGED appended
    BY <1>8 DEF CreateTable
  <2>2. CASE tables[job[r].table] = Absent
    <3>1. /\ pc' = [pc EXCEPT ![r] = "fetching"] /\ pc[r] = "creating"
          /\ tables' = [tables EXCEPT ![job[r].table] = 0]
          /\ answer' = answer
      BY <1>8, <2>2 DEF CreateTable
    <3>2. job[r].table \in Tables
      BY <3>1
    <3>3. \A q \in Requests : q # r => (OwnsTable(q)' <=> OwnsTable(q))
      BY <2>1, <3>1
    <3>4. \A q \in Requests : OwnsTable(q) => job[q].table # job[r].table
      BY <2>2
    <3> QED
      BY <2>1, <3>1, <3>2, <3>3, <3>4
  <2>3. CASE tables[job[r].table] # Absent
    <3>1. /\ pc' = [pc EXCEPT ![r] = "leaving"]
          /\ tables' = tables
          /\ answer' = [answer EXCEPT ![r] = "error"]
      BY <1>8, <2>3 DEF CreateTable
    <3> QED
      BY <2>1, <3>1
  <2> QED
    BY <2>2, <2>3
<1>9. ASSUME NEW r \in Requests, FetchEnds(r)
      PROVE TablesOwned'
  BY <1>9 DEF FetchEnds
<1>10. ASSUME NEW r \in Requests, FetchClosed(r)
      PROVE TablesOwned'
  BY <1>10 DEF FetchClosed, Ends
<1>11. ASSUME NEW r \in Requests, Succeed(r)
      PROVE TablesOwned'
  BY <1>11 DEF Succeed
<1>12. ASSUME NEW r \in Requests, Leave(r)
      PROVE TablesOwned'
  BY <1>12 DEF Leave
<1>13. ASSUME NEW r \in Requests, NEW why \in Causes, Fail(r, why)
      PROVE TablesOwned'
  BY <1>13 DEF Fail, Ends
<1>14. ASSUME NEW r \in Requests, NEW why \in Causes, FetchCut(r, why)
      PROVE TablesOwned'
  BY <1>14 DEF FetchCut, Ends
<1>15. ASSUME NEW r \in Requests, Mark(r)
      PROVE TablesOwned'
  BY <1>15 DEF Mark
<1>16. ASSUME NEW r \in Requests, InterruptOverdue(r)
      PROVE TablesOwned'
  BY <1>16 DEF InterruptOverdue
<1>17. ASSUME NEW r \in Requests, Finish(r)
      PROVE TablesOwned'
  <2>1. /\ UNCHANGED <<job, tables, appended>>
        /\ \A q \in Requests : answer'[q] = "success" => answer[q] = "success"
    BY <1>17 DEF Finish
  <2>2. \A q \in Requests :
          /\ pc'[q] \in {"fetching", "closing"} => pc[q] = pc'[q] \/ job[q].table = NoTable
          /\ pc'[q] = "creating" => job[q].table # NoTable
          /\ pc'[q] \in {"ready", "prepared", "running", "creating", "fetching", "closing"}
               => job[q].kind = "run"
    BY <1>17 DEF Finish
  <2>3. \A q \in Requests : OwnsTable(q)' => OwnsTable(q)
    BY <2>1, <2>2
  <2> QED
    BY <2>1, <2>2, <2>3
<1>18. ASSUME NEW r \in Requests, Fetch(r)
      PROVE TablesOwned'
  <2>1. /\ job' = job /\ pc' = pc /\ answer' = answer
        /\ pc[r] = "fetching" /\ answer[r] = "none"
        /\ \A q \in Requests : q # r => appended'[q] = appended[q]
    BY <1>18 DEF Fetch, Taken, AtMost
  <2>2. \A q \in Requests : OwnsTable(q)' <=> OwnsTable(q)
    BY <2>1
  <2>3. CASE tables' = tables
    BY <2>1, <2>2, <2>3
  <2>4. ASSUME tables' # tables
        PROVE TablesOwned'
    <3> DEFINE n == AtMost(ChunkRows, job[r].rows - fetched[r])
               more == Taken(appended[r], job[r].tableLimit, n)
    <3>1. /\ more > 0 /\ n \in Nat /\ job[r] \in Jobs
          /\ tables' = [tables EXCEPT ![job[r].table] = appended[r] + more]
      BY <1>18, <2>4 DEF Fetch, Taken, AtMost
    <3>2. job[r].tableLimit # 0 /\ more \in Nat
      BY <3>1 DEF Taken, AtMost
    <3>3. OwnsTable(r)
      BY <2>1, <3>1, <3>2
    <3>4. \A q \in Requests : OwnsTable(q) /\ q # r => job[q].table # job[r].table
      BY <3>3
    <3>5. appended[r] + more # Absent
      BY <3>2
    <3> HIDE DEF n, more
    <3> QED
      BY <2>1, <2>2, <3>1, <3>3, <3>4, <3>5
  <2> QED
    BY <2>3, <2>4
<1>19. CASE UNCHANGED vars
  BY <1>19 DEF vars, progress, connVars
<1>20. ASSUME NEW r \in Requests, AppendFails(r)
      PROVE TablesOwned'
  BY <1>20 DEF AppendFails, Ends
<1> QED
  BY <1>1, <1>2, <1>3, <1>4, <1>5, <1>6, <1>7, <1>8, <1>9, <1>10, <1>11, <1>12, <1>13, <1>14, <1>15, <1>16, <1>17, <1>18, <1>19, <1>20 DEF Next, Handler, Watchdog

\* The invariants together.
LEMMA Invariant == Spec => []IInv
<1>1. Init => IInv
  <2> SUFFICES ASSUME Init PROVE IInv
    OBVIOUS
  <2>5. RowsCounted
    <3>1. \A r \in Requests :
            job[r].limit \in Nat /\ job[r].tableLimit \in Nat /\ job[r].rows \in Nat
      BY UiAssumption DEF Init, UiAssumption
    <3>2. \A r \in Requests : fetched[r] = 0 /\ inResult[r] = 0 /\ appended[r] = 0
      BY DEF Init
    <3>3. ASSUME NEW r \in Requests
          PROVE /\ fetched[r] <= job[r].rows
                /\ inResult[r] = AtMost(job[r].limit, fetched[r])
                /\ appended[r] = AtMost(job[r].tableLimit, fetched[r])
      BY <3>1, <3>2 DEF AtMost
    <3> QED
      BY <3>3 DEF RowsCounted
  <2> USE UiAssumption DEF UiAssumption, Init
  <2>1. job \in [Requests -> Jobs]
    OBVIOUS
  <2>2. TypeOK
    BY <2>1 DEF TypeOK, Connections, Keys, Tables, Causes
  <2>3. PathDomains /\ StatementsLeft /\ KeysAgree
    BY <2>1 DEF PathDomains, StatementsLeft, KeysAgree, Connections, Keys
  <2>4. MetOnConnection /\ WatchdogIsScoped /\ AloneOnConnection /\ UndisturbedRun
    BY DEF MetOnConnection, WatchdogIsScoped, AloneOnConnection, UndisturbedRun
  <2>6. RowsComplete /\ TablesOwned
    BY DEF RowsComplete, TablesOwned, OwnsTable
  <2> QED
    BY <2>2, <2>3, <2>4, <2>5, <2>6 DEF IInv
<1>2. IInv /\ [Next]_vars => IInv'
  BY TypeStep, DomainStep, LeftStep, KeyStep, MetStep, ScopeStep, AloneStep,
    UndisturbedStep, CountStep, CompleteStep, TableStep DEF IInv
<1> QED
  BY <1>1, <1>2, PTL DEF Spec

\* The variables of the connections and of their requests keep their types.
THEOREM TypeCorrect == Spec => []TypeOK
<1>1. IInv => TypeOK
  BY DEF IInv
<1> QED
  BY <1>1, Invariant, PTL

\* Principal and connection name decide the connection, up to the race of
\* FindOrCreateConnection.
THEOREM NamesKeepApart == Spec => []KeyHasOneConnection
<1>1. IInv => KeyHasOneConnection
  BY DEF IInv, TypeOK, Connections, KeysAgree, KeyHasOneConnection, Key, ScopedConnectionKey
<1> QED
  BY <1>1, Invariant, PTL

\* A request alone on its connection is undisturbed.
THEOREM AloneIsUndisturbed == Spec => []UndisturbedRun
<1>1. IInv => UndisturbedRun
  BY DEF IInv
<1> QED
  BY <1>1, Invariant, PTL

\* DoHandleRun answers and stores the rows there were, up to each limit.
THEOREM RowsAreThoseAsked == Spec => []RowsAsked
<1>1. IInv => RowsAsked
  <2> SUFFICES ASSUME IInv, NEW r \in Requests, job[r].kind = "run", answer[r] = "success"
               PROVE  LET rows == IF cut[r] = "none" THEN job[r].rows ELSE fetched[r]
                      IN /\ inResult[r] = AtMost(job[r].limit, rows)
                         /\ job[r].table # NoTable =>
                              tables[job[r].table] = AtMost(job[r].tableLimit, rows)
    BY DEF RowsAsked
  <2>1. /\ job[r] \in Jobs /\ fetched[r] \in Nat
        /\ job[r].limit \in Nat /\ job[r].tableLimit \in Nat /\ job[r].rows \in Nat
    BY UiAssumption DEF IInv, TypeOK, UiAssumption
  <2>2. /\ fetched[r] <= job[r].rows
        /\ inResult[r] = AtMost(job[r].limit, fetched[r])
        /\ appended[r] = AtMost(job[r].tableLimit, fetched[r])
    BY DEF IInv, RowsCounted
  <2>3. cut[r] = "none" => fetched[r] >= RowLimit(r) \/ fetched[r] = job[r].rows
    BY DEF IInv, RowsComplete
  <2>4. job[r].table # NoTable => tables[job[r].table] = appended[r]
    BY DEF IInv, TablesOwned, OwnsTable
  <2> QED
    BY <2>1, <2>2, <2>3, <2>4 DEF RowLimit, AtMost
<1> QED
  BY <1>1, Invariant, PTL
=============================================================================
