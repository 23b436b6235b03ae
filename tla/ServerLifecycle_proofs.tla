------------------------ MODULE ServerLifecycle_proofs ------------------------
(***************************************************************************)
(* Proofs about ServerLifecycle, for any finite set of threads, any        *)
(* addresses and any number of servers.  The inductive invariant says      *)
(* where a server is in its life for each thread that works on it, which   *)
(* requests its counter counts, and how generations relate to servers.     *)
(***************************************************************************)
EXTENDS ServerLifecycle, FiniteSetTheorems, TLAPS

\* The threads between "CallServe" and their turn at the lock.
Serving == {x \in Threads : pc[x] = "serve"}

\* The requests of server s whose ActiveRequestGuard exists.
Guarding(s) ==
    {x \in Threads : host[x] = s /\ pc[x] \notin {"accepted", "left"}}

\* Types, the servers constructed so far, and who holds state_mu.
TypeInv ==
    /\ TypeOK
    /\ \A t \in Threads : mu = t <=> pc[t] \in Starting
    /\ \A s \in Servers : state[s] = "NONE" <=> s > born
    /\ current <= born
    /\ \A t \in Threads : srv[t] <= born
    /\ \A t \in Threads : pc[t] \in InRequest => host[t] # NoServer
    /\ \A t \in Threads : pc[t] = "free" => host[t] = NoServer

\* Nobody constructs more servers than the bound allows.
BoundInv == born + Cardinality(Serving) <= MaxServers

\* Where a server is in its life.
LifeInv ==
    /\ current # NoServer => state[current] = "LISTENING"
    /\ \A s \in Servers : state[s] \in {"LISTENING", "CLOSING"} => handlers[s]
    /\ \A t \in Threads :
         /\ pc[t] \in Starting => current = NoServer
         /\ pc[t] = "bind" => state[srv[t]] = "CONSTRUCTED"
         /\ pc[t] \in {"register", "listen"} => state[srv[t]] = "BOUND"
         /\ pc[t] = "listen" => handlers[srv[t]]
         /\ pc[t] \in {"publish", "accepting"} => state[srv[t]] = "LISTENING"
         /\ pc[t] \in Closing \ {"accepting"} => state[srv[t]] = "CLOSING"

\* A request is on a server that listens or closes, until its listener is gone.
HostInv ==
    /\ \A t \in Threads :
         host[t] # NoServer => state[host[t]] \in {"LISTENING", "CLOSING"}
    /\ \A t, x \in Threads : pc[t] = "destroy" => host[x] # srv[t]

\* active_requests counts the guards.
CountInv == \A s \in Servers : active[s] = Cardinality(Guarding(s))

\* A server that is published or stopped has an older generation than any later.
GenerationInv ==
    /\ stoppedGeneration <= generation
    /\ current = NoServer <=> stoppedGeneration = generation
    /\ \A t \in Threads : pc[t] = "waiting" =>
         /\ myGeneration[t] <= generation
         /\ \A x \in Threads : pc[x] \in Starting => srv[x] # srv[t]
    /\ WaiterKnowsItsServer

IInv ==
    /\ TypeInv
    /\ BoundInv
    /\ LifeInv
    /\ NoServerLeaked
    /\ HostInv
    /\ CountInv
    /\ GenerationInv

-----------------------------------------------------------------------------

\* The inductive invariant holds initially.
LEMMA InitIInv == Init => IInv
<1> SUFFICES ASSUME Init
             PROVE  IInv
    OBVIOUS
<1> USE LifecycleAssumption DEF Init, Servers, NoServer, States, Starting, Closing, Calling,
        InRequest
<1>1. TypeInv  BY DEF TypeInv, TypeOK
<1>2. BoundInv
    <2>1. Serving = {}  BY DEF Serving
    <2> QED  BY <2>1, FS_EmptySet DEF BoundInv
<1>3. LifeInv /\ NoServerLeaked /\ HostInv
    BY DEF LifeInv, NoServerLeaked, Keeps, HostInv
<1>4. CountInv
    <2>1. \A s \in Servers : Guarding(s) = {}  BY DEF Guarding
    <2> QED  BY <2>1, FS_EmptySet DEF CountInv
<1>5. GenerationInv  BY DEF GenerationInv, WaiterKnowsItsServer
<1> QED  BY <1>1, <1>2, <1>3, <1>4, <1>5 DEF IInv

\* The counter of a server with a guard is not zero.
LEMMA CountsOne ==
    ASSUME TypeInv, CountInv, NEW t \in Threads,
           host[t] # NoServer, pc[t] \notin {"accepted", "left"}
    PROVE  active[host[t]] >= 1
<1> DEFINE G == Guarding(host[t])
<1>1. host[t] \in Servers  BY DEF TypeInv, TypeOK
<1>2. IsFiniteSet(G)
    BY LifecycleAssumption, FS_Subset DEF Guarding
<1>3. t \in G  BY DEF Guarding
<1>4. Cardinality(G) \in Nat /\ Cardinality(G) # 0
    BY <1>2, <1>3, FS_CardinalityType, FS_EmptySet
<1> QED  BY <1>1, <1>4 DEF CountInv

\* A thread whose turn it is to start finds room for its server.
LEMMA RoomForOne ==
    ASSUME TypeInv, BoundInv, NEW t \in Threads, pc[t] = "serve"
    PROVE  born + 1 \in Servers
<1>1. IsFiniteSet(Serving)
    BY LifecycleAssumption, FS_Subset DEF Serving
<1>2. Cardinality(Serving) \in Nat /\ Cardinality(Serving) # 0
    BY <1>1, FS_CardinalityType, FS_EmptySet DEF Serving
<1> QED
    BY <1>2, LifecycleAssumption DEF TypeInv, TypeOK, BoundInv, Servers

\* Types are preserved; Leave finds its own guard counted.
LEMMA TypeStep == TypeInv /\ BoundInv /\ CountInv /\ [Next]_vars => TypeInv'
<1> SUFFICES ASSUME TypeInv, BoundInv, CountInv, [Next]_vars
             PROVE  TypeInv'
    OBVIOUS
<1> USE LifecycleAssumption DEF TypeInv, TypeOK
<1> USE DEF Step, Goto, Return, Call, SetState, stateVars, serverVars, threadVars,
        Servers, NoServer, States, Starting, Closing, Calling, InRequest
<1>1. ASSUME NEW t \in Threads, NEW s \in Servers, Accept(t, s)
      PROVE  TypeInv'
    <2>1. /\ pc[t] = "free" /\ pc' = [pc EXCEPT ![t] = "accepted"]
          /\ host' = [host EXCEPT ![t] = s]
          /\ UNCHANGED <<stateVars, serverVars, srv, want, myGeneration>>
        BY <1>1 DEF Accept
    <2>2. TypeOK'  BY <2>1
    <2>3. \A x \in Threads : mu' = x <=> pc'[x] \in Starting
        BY <2>1
    <2>4. /\ \A x \in Servers : state'[x] = "NONE" <=> x > born'
          /\ current' <= born' /\ \A x \in Threads : srv'[x] <= born'
        BY <2>1
    <2>5. \A x \in Threads :
            /\ pc'[x] \in InRequest => host'[x] # NoServer
            /\ pc'[x] = "free" => host'[x] = NoServer
        BY <2>1
    <2> QED  BY <2>2, <2>3, <2>4, <2>5
<1>2. ASSUME NEW t \in Threads, RequestStep(t)
      PROVE  TypeInv'
    <2>1. CASE Refuse(t)      BY <2>1 DEF Refuse
    <2>2. CASE Enter(t)
        <3>1. PICK l \in {"running", "sse"} : pc' = [pc EXCEPT ![t] = l]
            BY <2>2 DEF Enter
        <3>2. /\ pc[t] = "accepted" /\ host[t] \in Servers
              /\ active' = [active EXCEPT ![host[t]] = @ + 1]
              /\ UNCHANGED <<stateVars, born, state, uri, handlers, closed, host,
                             srv, want, myGeneration>>
            BY <2>2 DEF Enter
        <3>3. TypeOK'
            <4>1. active' \in [Servers -> Nat]  BY <3>2
            <4>2. /\ pc' \in [Threads -> {"free"} \union InRequest \union Calling]
                  /\ \A x \in Threads : srv'[x] # NoServer
                       <=> pc'[x] \in {"waiting"} \union Starting \union Closing
                BY <3>1, <3>2
            <4> QED  BY <3>2, <4>1, <4>2
        <3>4. \A x \in Threads : mu' = x <=> pc'[x] \in Starting
            BY <3>1, <3>2
        <3>5. /\ \A x \in Servers : state'[x] = "NONE" <=> x > born'
              /\ current' <= born' /\ \A x \in Threads : srv'[x] <= born'
            BY <3>2
        <3>6. \A x \in Threads :
                /\ pc'[x] \in InRequest => host'[x] # NoServer
                /\ pc'[x] = "free" => host'[x] = NoServer
            BY <3>1, <3>2
        <3> QED  BY <3>3, <3>4, <3>5, <3>6
    <2>3. CASE Finish(t)      BY <2>3 DEF Finish
    <2>4. CASE SseClosed(t)   BY <2>4 DEF SseClosed
    <2>5. CASE Leave(t)
        <3>1. active[host[t]] >= 1
            BY <2>5, CountsOne DEF Leave
        <3> QED  BY <2>5, <3>1 DEF Leave
    <2>6. CASE WorkerDone(t)  BY <2>6 DEF WorkerDone
    <2> QED  BY <1>2, <2>1, <2>2, <2>3, <2>4, <2>5, <2>6 DEF RequestStep
<1>3. ASSUME NEW t \in Threads, ServeStep(t)
      PROVE  TypeInv'
    <2>1. CASE ServeRefused(t)   BY <2>1 DEF ServeRefused
    <2>2. CASE ServeLock(t)
        <3>1. born + 1 \in Servers
            BY <2>2, RoomForOne DEF ServeLock, Construct
        <3> QED  BY <2>2, <3>1 DEF ServeLock, Construct
    <2>3. CASE ServeBind(t)      BY <2>3 DEF ServeBind
    <2>4. CASE ServeThrows(t)    BY <2>4 DEF ServeThrows
    <2>5. CASE ServeRegister(t)  BY <2>5 DEF ServeRegister
    <2>6. CASE ServeListen(t)    BY <2>6 DEF ServeListen
    <2>7. CASE ServePublish(t)   BY <2>7 DEF ServePublish
    <2> QED  BY <1>3, <2>1, <2>2, <2>3, <2>4, <2>5, <2>6, <2>7 DEF ServeStep
<1>4. ASSUME NEW t \in Threads, StopStep(t)
      PROVE  TypeInv'
    <2>1. CASE StopNothing(t)       BY <2>1 DEF StopNothing
    <2>2. CASE StopTake(t)          BY <2>2 DEF StopTake
    <2>3. CASE StopAccepting(t)     BY <2>3 DEF StopAccepting
    <2>4. CASE ShutdownHandlers(t)  BY <2>4 DEF ShutdownHandlers
    <2>5. CASE Drain(t)             BY <2>5 DEF Drain
    <2>6. CASE Join(t)              BY <2>6 DEF Join
    <2>7. CASE Destroy(t)           BY <2>7 DEF Destroy
    <2> QED  BY <1>4, <2>1, <2>2, <2>3, <2>4, <2>5, <2>6, <2>7 DEF StopStep
<1>5. ASSUME NEW t \in Threads, WaitStep(t)
      PROVE  TypeInv'
    <2>1. CASE WaitNothing(t)  BY <2>1 DEF WaitNothing
    <2>2. CASE WaitEnter(t)    BY <2>2 DEF WaitEnter
    <2>3. CASE WaitWake(t)     BY <2>3 DEF WaitWake
    <2> QED  BY <1>5, <2>1, <2>2, <2>3 DEF WaitStep
<1>6. ASSUME NEW t \in Threads, SseClientGone(t) \/ CallWait(t)
      PROVE  TypeInv'
    <2>1. CASE SseClientGone(t)  BY <2>1 DEF SseClientGone
    <2>2. CASE CallWait(t)       BY <2>2 DEF CallWait
    <2> QED  BY <1>6, <2>1, <2>2
<1>7. ASSUME NEW t \in Threads, NEW u \in Uris, CallServe(t, u) \/ CallStop(t, u)
      PROVE  TypeInv'
    <2>1. CASE CallServe(t, u)  BY <2>1 DEF CallServe
    <2>2. CASE CallStop(t, u)   BY <2>2 DEF CallStop
    <2> QED  BY <1>7, <2>1, <2>2
<1>8. ASSUME NEW t \in Threads, CallStopAny(t)
      PROVE  TypeInv'
    BY <1>8 DEF CallStopAny, CallStop
<1>9. CASE UNCHANGED vars
    BY <1>9 DEF vars
<1> QED
    BY <1>1, <1>2, <1>3, <1>4, <1>5, <1>6, <1>7, <1>8, <1>9 DEF Next, Calls

\* A server's state follows the thread that starts or stops it.
LEMMA LifeStep == TypeInv /\ BoundInv /\ LifeInv /\ NoServerLeaked /\ [Next]_vars => LifeInv'
<1> SUFFICES ASSUME TypeInv, BoundInv, LifeInv, NoServerLeaked, [Next]_vars
             PROVE  LifeInv'
    OBVIOUS
<1> USE LifecycleAssumption DEF TypeInv, TypeOK, LifeInv, NoServerLeaked, Keeps
<1> USE DEF Step, Goto, Return, Call, SetState, stateVars, serverVars, threadVars,
        Servers, NoServer, States, Starting, Closing, Calling, InRequest
<1>1. ASSUME NEW t \in Threads, NEW s \in Servers, Accept(t, s)
      PROVE  LifeInv'
    BY <1>1 DEF Accept
<1>2. ASSUME NEW t \in Threads, RequestStep(t)
      PROVE  LifeInv'
    <2>1. CASE Refuse(t)      BY <2>1 DEF Refuse
    <2>2. CASE Enter(t)       BY <2>2 DEF Enter
    <2>3. CASE Finish(t)      BY <2>3 DEF Finish
    <2>4. CASE SseClosed(t)   BY <2>4 DEF SseClosed
    <2>5. CASE Leave(t)       BY <2>5 DEF Leave
    <2>6. CASE WorkerDone(t)  BY <2>6 DEF WorkerDone
    <2> QED  BY <1>2, <2>1, <2>2, <2>3, <2>4, <2>5, <2>6 DEF RequestStep
<1>3. ASSUME NEW t \in Threads, ServeStep(t)
      PROVE  LifeInv'
    <2>1. CASE ServeRefused(t)   BY <2>1 DEF ServeRefused
    <2>2. CASE ServeLock(t)
        <3>1. born + 1 \in Servers
            BY <2>2, RoomForOne DEF ServeLock, Construct
        <3>2. \A x \in Threads : srv[x] # born + 1 /\ pc[x] \notin Starting
            BY <2>2 DEF ServeLock, Construct
        <3>3. \A s \in Servers : s # born + 1 => state'[s] = state[s]
            BY <2>2 DEF ServeLock, Construct
        <3>4. state'[born + 1] = "CONSTRUCTED"
            BY <2>2, <3>1 DEF ServeLock, Construct
        <3>5. \A s \in Servers :
                 state'[s] \in {"LISTENING", "CLOSING"} => handlers'[s]
            BY <2>2, <3>3, <3>4 DEF ServeLock, Construct
        <3>6. \A x \in Threads \ {t} : pc'[x] = pc[x] /\ srv'[x] = srv[x]
            BY <2>2 DEF ServeLock, Construct
        <3>7. pc'[t] = "bind" /\ srv'[t] = born + 1
            BY <2>2 DEF ServeLock, Construct
        <3>8. current' = NoServer /\ UNCHANGED handlers
            BY <2>2 DEF ServeLock, Construct
        <3>9. \A x \in Threads \ {t} : pc[x] \in Closing => srv[x] \in Servers
            OBVIOUS
        <3>10. \A x \in Threads \ {t} :
                /\ pc'[x] \notin Starting
                /\ pc'[x] = "accepting" => state'[srv'[x]] = "LISTENING"
                /\ pc'[x] \in Closing \ {"accepting"} =>
                     state'[srv'[x]] = "CLOSING"
            BY <3>2, <3>3, <3>6, <3>9
        <3> QED  BY <3>4, <3>5, <3>7, <3>8, <3>10
    <2>3. CASE ServeBind(t)      BY <2>3 DEF ServeBind
    <2>4. CASE ServeThrows(t)    BY <2>4 DEF ServeThrows
    <2>5. CASE ServeRegister(t)  BY <2>5 DEF ServeRegister
    <2>6. CASE ServeListen(t)    BY <2>6 DEF ServeListen
    <2>7. CASE ServePublish(t)   BY <2>7 DEF ServePublish
    <2> QED  BY <1>3, <2>1, <2>2, <2>3, <2>4, <2>5, <2>6, <2>7 DEF ServeStep
<1>4. ASSUME NEW t \in Threads, StopStep(t)
      PROVE  LifeInv'
    <2>1. CASE StopNothing(t)       BY <2>1 DEF StopNothing
    <2>2. CASE StopTake(t)          BY <2>2 DEF StopTake
    <2>3. CASE StopAccepting(t)     BY <2>3 DEF StopAccepting
    <2>4. CASE ShutdownHandlers(t)  BY <2>4 DEF ShutdownHandlers
    <2>5. CASE Drain(t)             BY <2>5 DEF Drain
    <2>6. CASE Join(t)              BY <2>6 DEF Join
    <2>7. CASE Destroy(t)           BY <2>7 DEF Destroy
    <2> QED  BY <1>4, <2>1, <2>2, <2>3, <2>4, <2>5, <2>6, <2>7 DEF StopStep
<1>5. ASSUME NEW t \in Threads, WaitStep(t)
      PROVE  LifeInv'
    <2>1. CASE WaitNothing(t)  BY <2>1 DEF WaitNothing
    <2>2. CASE WaitEnter(t)    BY <2>2 DEF WaitEnter
    <2>3. CASE WaitWake(t)     BY <2>3 DEF WaitWake
    <2> QED  BY <1>5, <2>1, <2>2, <2>3 DEF WaitStep
<1>6. ASSUME NEW t \in Threads, SseClientGone(t) \/ CallWait(t)
      PROVE  LifeInv'
    <2>1. CASE SseClientGone(t)  BY <2>1 DEF SseClientGone
    <2>2. CASE CallWait(t)       BY <2>2 DEF CallWait
    <2> QED  BY <1>6, <2>1, <2>2
<1>7. ASSUME NEW t \in Threads, NEW u \in Uris, CallServe(t, u) \/ CallStop(t, u)
      PROVE  LifeInv'
    <2>1. CASE CallServe(t, u)  BY <2>1 DEF CallServe
    <2>2. CASE CallStop(t, u)   BY <2>2 DEF CallStop
    <2> QED  BY <1>7, <2>1, <2>2
<1>8. ASSUME NEW t \in Threads, CallStopAny(t)
      PROVE  LifeInv'
    BY <1>8 DEF CallStopAny, CallStop
<1>9. CASE UNCHANGED vars
    BY <1>9 DEF vars
<1> QED
    BY <1>1, <1>2, <1>3, <1>4, <1>5, <1>6, <1>7, <1>8, <1>9 DEF Next, Calls

\* A request is never on a server whose listener has been destroyed.
LEMMA HostStep == TypeInv /\ LifeInv /\ NoServerLeaked /\ HostInv /\ [Next]_vars => HostInv'
<1> SUFFICES ASSUME TypeInv, LifeInv, NoServerLeaked, HostInv, [Next]_vars
             PROVE  HostInv'
    OBVIOUS
<1> USE LifecycleAssumption DEF TypeInv, TypeOK, LifeInv, NoServerLeaked, Keeps, HostInv
<1> USE DEF Step, Goto, Return, Call, SetState, stateVars, serverVars, threadVars,
        Servers, NoServer, States, Starting, Closing, Calling, InRequest
<1>1. ASSUME NEW t \in Threads, NEW s \in Servers, Accept(t, s)
      PROVE  HostInv'
    <2>1. \A x \in Threads : pc[x] = "destroy" => srv[x] # s
        BY <1>1 DEF Accept
    <2>2. \A x \in Threads : pc[x] = "destroy" <=> pc'[x] = "destroy"
        BY <1>1 DEF Accept
    <2>3. /\ \A x \in Threads : host'[x] = IF x = t THEN s ELSE host[x]
          /\ UNCHANGED <<state, srv>>
        BY <1>1 DEF Accept
    <2>4. state[s] = "LISTENING"
        BY <1>1 DEF Accept
    <2>5. \A x \in Threads :
            host'[x] # NoServer => state'[host'[x]] \in {"LISTENING", "CLOSING"}
        <3> SUFFICES ASSUME NEW x \in Threads, host'[x] # NoServer
                     PROVE  state'[host'[x]] \in {"LISTENING", "CLOSING"}
            OBVIOUS
        <3>1. CASE x = t  BY <3>1, <2>3, <2>4
        <3>2. CASE x # t  BY <3>2, <2>3
        <3> QED  BY <3>1, <3>2
    <2>6. \A x, y \in Threads : pc'[x] = "destroy" => host'[y] # srv'[x]
        BY <2>1, <2>2, <2>3
    <2> QED  BY <2>5, <2>6
<1>2. ASSUME NEW t \in Threads, RequestStep(t)
      PROVE  HostInv'
    <2>1. CASE Refuse(t)      BY <2>1 DEF Refuse
    <2>2. CASE Enter(t)       BY <2>2 DEF Enter
    <2>3. CASE Finish(t)      BY <2>3 DEF Finish
    <2>4. CASE SseClosed(t)   BY <2>4 DEF SseClosed
    <2>5. CASE Leave(t)       BY <2>5 DEF Leave
    <2>6. CASE WorkerDone(t)  BY <2>6 DEF WorkerDone
    <2> QED  BY <1>2, <2>1, <2>2, <2>3, <2>4, <2>5, <2>6 DEF RequestStep
<1>3. ASSUME NEW t \in Threads, ServeStep(t)
      PROVE  HostInv'
    <2>1. CASE ServeRefused(t)   BY <2>1 DEF ServeRefused
    <2>2. CASE ServeLock(t)      BY <2>2 DEF ServeLock, Construct
    <2>3. CASE ServeBind(t)      BY <2>3 DEF ServeBind
    <2>4. CASE ServeThrows(t)    BY <2>4 DEF ServeThrows
    <2>5. CASE ServeRegister(t)  BY <2>5 DEF ServeRegister
    <2>6. CASE ServeListen(t)    BY <2>6 DEF ServeListen
    <2>7. CASE ServePublish(t)   BY <2>7 DEF ServePublish
    <2> QED  BY <1>3, <2>1, <2>2, <2>3, <2>4, <2>5, <2>6, <2>7 DEF ServeStep
<1>4. ASSUME NEW t \in Threads, StopStep(t)
      PROVE  HostInv'
    <2>1. CASE StopNothing(t)       BY <2>1 DEF StopNothing
    <2>2. CASE StopTake(t)          BY <2>2 DEF StopTake
    <2>3. CASE StopAccepting(t)     BY <2>3 DEF StopAccepting
    <2>4. CASE ShutdownHandlers(t)  BY <2>4 DEF ShutdownHandlers
    <2>5. CASE Drain(t)             BY <2>5 DEF Drain
    <2>6. CASE Join(t)              BY <2>6 DEF Join
    <2>7. CASE Destroy(t)           BY <2>7 DEF Destroy
    <2> QED  BY <1>4, <2>1, <2>2, <2>3, <2>4, <2>5, <2>6, <2>7 DEF StopStep
<1>5. ASSUME NEW t \in Threads, WaitStep(t)
      PROVE  HostInv'
    <2>1. CASE WaitNothing(t)  BY <2>1 DEF WaitNothing
    <2>2. CASE WaitEnter(t)    BY <2>2 DEF WaitEnter
    <2>3. CASE WaitWake(t)     BY <2>3 DEF WaitWake
    <2> QED  BY <1>5, <2>1, <2>2, <2>3 DEF WaitStep
<1>6. ASSUME NEW t \in Threads, SseClientGone(t) \/ CallWait(t)
      PROVE  HostInv'
    <2>1. CASE SseClientGone(t)  BY <2>1 DEF SseClientGone
    <2>2. CASE CallWait(t)       BY <2>2 DEF CallWait
    <2> QED  BY <1>6, <2>1, <2>2
<1>7. ASSUME NEW t \in Threads, NEW u \in Uris, CallServe(t, u) \/ CallStop(t, u)
      PROVE  HostInv'
    <2>1. CASE CallServe(t, u)  BY <2>1 DEF CallServe
    <2>2. CASE CallStop(t, u)   BY <2>2 DEF CallStop
    <2> QED  BY <1>7, <2>1, <2>2
<1>8. ASSUME NEW t \in Threads, CallStopAny(t)
      PROVE  HostInv'
    BY <1>8 DEF CallStopAny, CallStop
<1>9. CASE UNCHANGED vars
    BY <1>9 DEF vars
<1> QED
    BY <1>1, <1>2, <1>3, <1>4, <1>5, <1>6, <1>7, <1>8, <1>9 DEF Next, Calls

\* A waiter never mistakes a later server for its own.
LEMMA GenerationStep == TypeInv /\ LifeInv /\ NoServerLeaked /\ GenerationInv /\ [Next]_vars => GenerationInv'
<1> SUFFICES ASSUME TypeInv, LifeInv, NoServerLeaked, GenerationInv, [Next]_vars
             PROVE  GenerationInv'
    OBVIOUS
<1> USE LifecycleAssumption DEF TypeInv, TypeOK, LifeInv, NoServerLeaked, Keeps, GenerationInv, WaiterKnowsItsServer
<1> USE DEF Step, Goto, Return, Call, SetState, stateVars, serverVars, threadVars,
        Servers, NoServer, States, Starting, Closing, Calling, InRequest
<1>1. ASSUME NEW t \in Threads, NEW s \in Servers, Accept(t, s)
      PROVE  GenerationInv'
    BY <1>1 DEF Accept
<1>2. ASSUME NEW t \in Threads, RequestStep(t)
      PROVE  GenerationInv'
    <2>1. CASE Refuse(t)      BY <2>1 DEF Refuse
    <2>2. CASE Enter(t)       BY <2>2 DEF Enter
    <2>3. CASE Finish(t)      BY <2>3 DEF Finish
    <2>4. CASE SseClosed(t)   BY <2>4 DEF SseClosed
    <2>5. CASE Leave(t)       BY <2>5 DEF Leave
    <2>6. CASE WorkerDone(t)  BY <2>6 DEF WorkerDone
    <2> QED  BY <1>2, <2>1, <2>2, <2>3, <2>4, <2>5, <2>6 DEF RequestStep
<1>3. ASSUME NEW t \in Threads, ServeStep(t)
      PROVE  GenerationInv'
    <2>1. CASE ServeRefused(t)   BY <2>1 DEF ServeRefused
    <2>2. CASE ServeLock(t)      BY <2>2 DEF ServeLock, Construct
    <2>3. CASE ServeBind(t)      BY <2>3 DEF ServeBind
    <2>4. CASE ServeThrows(t)    BY <2>4 DEF ServeThrows
    <2>5. CASE ServeRegister(t)  BY <2>5 DEF ServeRegister
    <2>6. CASE ServeListen(t)    BY <2>6 DEF ServeListen
    <2>7. CASE ServePublish(t)
        <3>1. current = NoServer /\ stoppedGeneration = generation
            BY <2>7 DEF ServePublish
        <3>2. \A x \in Threads \ {t} : pc[x] \notin Starting
            BY <2>7 DEF ServePublish
        <3>3. \A x \in Threads :
                 /\ pc'[x] = "waiting" => pc[x] = "waiting" /\ x # t
                 /\ x # t => pc'[x] = pc[x] /\ srv'[x] = srv[x]
                               /\ myGeneration'[x] = myGeneration[x]
            BY <2>7 DEF ServePublish
        <3>4. /\ current' = srv[t] /\ srv[t] # NoServer
              /\ generation' = generation + 1
              /\ stoppedGeneration' = stoppedGeneration
              /\ pc'[t] \notin Starting
            BY <2>7 DEF ServePublish
        <3>5. \A x \in Threads : pc[x] = "waiting" =>
                 /\ myGeneration[x] <= generation
                 /\ srv[t] # srv[x]
            BY <2>7 DEF ServePublish
        <3> QED  BY <3>1, <3>2, <3>3, <3>4, <3>5
    <2> QED  BY <1>3, <2>1, <2>2, <2>3, <2>4, <2>5, <2>6, <2>7 DEF ServeStep
<1>4. ASSUME NEW t \in Threads, StopStep(t)
      PROVE  GenerationInv'
    <2>1. CASE StopNothing(t)       BY <2>1 DEF StopNothing
    <2>2. CASE StopTake(t)          BY <2>2 DEF StopTake
    <2>3. CASE StopAccepting(t)     BY <2>3 DEF StopAccepting
    <2>4. CASE ShutdownHandlers(t)  BY <2>4 DEF ShutdownHandlers
    <2>5. CASE Drain(t)             BY <2>5 DEF Drain
    <2>6. CASE Join(t)              BY <2>6 DEF Join
    <2>7. CASE Destroy(t)           BY <2>7 DEF Destroy
    <2> QED  BY <1>4, <2>1, <2>2, <2>3, <2>4, <2>5, <2>6, <2>7 DEF StopStep
<1>5. ASSUME NEW t \in Threads, WaitStep(t)
      PROVE  GenerationInv'
    <2>1. CASE WaitNothing(t)  BY <2>1 DEF WaitNothing
    <2>2. CASE WaitEnter(t)    BY <2>2 DEF WaitEnter
    <2>3. CASE WaitWake(t)     BY <2>3 DEF WaitWake
    <2> QED  BY <1>5, <2>1, <2>2, <2>3 DEF WaitStep
<1>6. ASSUME NEW t \in Threads, SseClientGone(t) \/ CallWait(t)
      PROVE  GenerationInv'
    <2>1. CASE SseClientGone(t)  BY <2>1 DEF SseClientGone
    <2>2. CASE CallWait(t)       BY <2>2 DEF CallWait
    <2> QED  BY <1>6, <2>1, <2>2
<1>7. ASSUME NEW t \in Threads, NEW u \in Uris, CallServe(t, u) \/ CallStop(t, u)
      PROVE  GenerationInv'
    <2>1. CASE CallServe(t, u)  BY <2>1 DEF CallServe
    <2>2. CASE CallStop(t, u)   BY <2>2 DEF CallStop
    <2> QED  BY <1>7, <2>1, <2>2
<1>8. ASSUME NEW t \in Threads, CallStopAny(t)
      PROVE  GenerationInv'
    BY <1>8 DEF CallStopAny, CallStop
<1>9. CASE UNCHANGED vars
    BY <1>9 DEF vars
<1> QED
    BY <1>1, <1>2, <1>3, <1>4, <1>5, <1>6, <1>7, <1>8, <1>9 DEF Next, Calls


\* A thread that neither starts nor stops a server leaves its keeper alone.
Quiet(t) ==
    /\ UNCHANGED <<state, current>>
    /\ pc[t] \notin Starting \union Closing
    /\ pc'[t] \notin Starting \union Closing
    /\ \A x \in Threads \ {t} : pc'[x] = pc[x] /\ srv'[x] = srv[x]

\* NoServerLeaked survives a quiet step.
LEMMA QuietKeeps ==
    ASSUME NoServerLeaked, NEW t \in Threads, Quiet(t)
    PROVE  NoServerLeaked'
<1>1. \A x \in Threads, s \in Servers : Keeps(x, s)' <=> Keeps(x, s)
    BY DEF Quiet, Keeps
<1>2. \A s \in Servers : state'[s] = state[s] /\ (current' = s <=> current = s)
    BY DEF Quiet
<1>3. \A s \in Servers : state'[s] \notin {"NONE", "CLOSED"} =>
        current' = s \/ \E x \in Threads : Keeps(x, s)'
    BY <1>1, <1>2 DEF NoServerLeaked
<1>4. \A x \in Threads, s \in Servers : Keeps(x, s)' =>
        /\ state'[s] \notin {"NONE", "CLOSED"}
        /\ current' # s
        /\ \A y \in Threads : Keeps(y, s)' => y = x
    BY <1>1, <1>2 DEF NoServerLeaked
<1> QED  BY <1>3, <1>4 DEF NoServerLeaked

\* Accepting, serving and leaving a request, calling in and waiting are quiet.
LEMMA QuietStep ==
    ASSUME TypeInv, NEW t \in Threads,
           \/ \E s \in Servers : Accept(t, s)
           \/ RequestStep(t) \/ SseClientGone(t) \/ Calls(t) \/ WaitStep(t)
           \/ ServeRefused(t) \/ StopNothing(t)
    PROVE  Quiet(t)
<1> USE LifecycleAssumption DEF TypeInv, TypeOK, Quiet, Step, Goto, Return, Call,
        stateVars, serverVars, threadVars, Starting, Closing, Calling, InRequest
<1>1. ASSUME NEW s \in Servers, Accept(t, s)
      PROVE  Quiet(t)
    BY <1>1 DEF Accept
<1>2. CASE RequestStep(t)
    <2>1. CASE Refuse(t)      BY <2>1 DEF Refuse
    <2>2. CASE Enter(t)       BY <2>2 DEF Enter
    <2>3. CASE Finish(t)      BY <2>3 DEF Finish
    <2>4. CASE SseClosed(t)   BY <2>4 DEF SseClosed
    <2>5. CASE Leave(t)       BY <2>5 DEF Leave
    <2>6. CASE WorkerDone(t)  BY <2>6 DEF WorkerDone
    <2> QED  BY <1>2, <2>1, <2>2, <2>3, <2>4, <2>5, <2>6 DEF RequestStep
<1>3. CASE SseClientGone(t)
    BY <1>3 DEF SseClientGone
<1>4. CASE Calls(t)
    <2>1. ASSUME NEW u \in Uris, CallServe(t, u)
          PROVE  Quiet(t)
        BY <2>1 DEF CallServe
    <2>2. ASSUME NEW u \in Uris, CallStop(t, u)
          PROVE  Quiet(t)
        BY <2>2 DEF CallStop
    <2>3. CASE CallStopAny(t)  BY <2>3 DEF CallStopAny, CallStop
    <2>4. CASE CallWait(t)     BY <2>4 DEF CallWait
    <2> QED  BY <1>4, <2>1, <2>2, <2>3, <2>4 DEF Calls
<1>5. CASE WaitStep(t)
    <2>1. CASE WaitNothing(t)  BY <2>1 DEF WaitNothing
    <2>2. CASE WaitEnter(t)    BY <2>2 DEF WaitEnter
    <2>3. CASE WaitWake(t)     BY <2>3 DEF WaitWake
    <2> QED  BY <1>5, <2>1, <2>2, <2>3 DEF WaitStep
<1>6. CASE ServeRefused(t)
    BY <1>6 DEF ServeRefused
<1>7. CASE StopNothing(t)
    BY <1>7 DEF StopNothing
<1> QED  BY <1>1, <1>2, <1>3, <1>4, <1>5, <1>6, <1>7

\* A thread that goes on starting or stopping its server keeps it.
LEMMA WorkKeeps ==
    ASSUME NoServerLeaked, NEW t \in Threads, srv[t] \in Servers,
           pc[t] \in Starting \union Closing,
           pc'[t] \in Starting \union Closing,
           \A x \in Threads \ {t} : pc'[x] = pc[x],
           state'[srv[t]] \notin {"NONE", "CLOSED"},
           \A s \in Servers \ {srv[t]} : state'[s] = state[s],
           UNCHANGED <<srv, current>>
    PROVE  NoServerLeaked'
<1>1. \A x \in Threads, s \in Servers : Keeps(x, s)' <=> Keeps(x, s)
    BY DEF Keeps
<1>2. Keeps(t, srv[t])
    BY DEF Keeps
<1>3. \A s \in Servers : state'[s] \notin {"NONE", "CLOSED"} =>
        current' = s \/ \E x \in Threads : Keeps(x, s)'
    BY <1>1, <1>2 DEF NoServerLeaked
<1>4. \A x \in Threads, s \in Servers : Keeps(x, s)' =>
        /\ state'[s] \notin {"NONE", "CLOSED"}
        /\ current' # s
        /\ \A y \in Threads : Keeps(y, s)' => y = x
    BY <1>1 DEF NoServerLeaked
<1> QED  BY <1>3, <1>4 DEF NoServerLeaked

\* A thread that lets go of a server has closed it or published it.
LEMMA ReleaseKeeps ==
    ASSUME NoServerLeaked, NEW t \in Threads, NEW s \in Servers, Keeps(t, s),
           pc'[t] \notin Starting \union Closing,
           \A x \in Threads \ {t} : pc'[x] = pc[x] /\ srv'[x] = srv[x],
           \A x \in Servers \ {s} : state'[x] = state[x],
           \/ current' = current /\ state'[s] = "CLOSED"
           \/ current = NoServer /\ current' = s
    PROVE  NoServerLeaked'
<1>1. \A y \in Servers : ~Keeps(t, y)'
    BY DEF Keeps
<1>2. \A x \in Threads \ {t}, y \in Servers : Keeps(x, y)' <=> Keeps(x, y)
    BY DEF Keeps
<1>3. \A x \in Threads \ {t} : ~Keeps(x, s)
    BY DEF NoServerLeaked
<1>4. current # s /\ s # NoServer
    BY DEF NoServerLeaked, Servers, NoServer
<1>5. \A y \in Servers \ {s} : \A x \in Threads :
        Keeps(x, y) => x # t
    BY DEF Keeps
<1>6. \A y \in Servers : state'[y] \notin {"NONE", "CLOSED"} =>
        current' = y \/ \E x \in Threads : Keeps(x, y)'
    <2> SUFFICES ASSUME NEW y \in Servers, state'[y] \notin {"NONE", "CLOSED"},
                        current' # y
                 PROVE  \E x \in Threads : Keeps(x, y)'
        OBVIOUS
    <2>1. y # s
        OBVIOUS
    <2>2. state[y] = state'[y]
        BY <2>1
    <2>3. current # y
        BY <2>1 DEF Servers, NoServer
    <2>4. PICK x \in Threads : Keeps(x, y)
        BY <2>2, <2>3 DEF NoServerLeaked
    <2> QED  BY <2>1, <2>4, <1>2, <1>5
<1>7. \A x \in Threads, y \in Servers : Keeps(x, y)' =>
        /\ state'[y] \notin {"NONE", "CLOSED"}
        /\ current' # y
        /\ \A z \in Threads : Keeps(z, y)' => z = x
    BY <1>1, <1>2, <1>3, <1>4 DEF NoServerLeaked
<1> QED  BY <1>6, <1>7 DEF NoServerLeaked

\* A server changes hands and is never in two or none.
LEMMA KeepStep == TypeInv /\ BoundInv /\ LifeInv /\ NoServerLeaked /\ [Next]_vars => NoServerLeaked'
<1> SUFFICES ASSUME TypeInv, BoundInv, LifeInv, NoServerLeaked, [Next]_vars
             PROVE  NoServerLeaked'
    OBVIOUS
<1> USE LifecycleAssumption DEF TypeInv, TypeOK, Step, Goto, Return, SetState,
        stateVars, serverVars, threadVars, Servers, NoServer, States, Starting,
        Closing
<1>1. ASSUME NEW t \in Threads,
             \/ \E s \in Servers : Accept(t, s)
             \/ RequestStep(t) \/ SseClientGone(t) \/ Calls(t) \/ WaitStep(t)
             \/ ServeRefused(t) \/ StopNothing(t)
      PROVE  NoServerLeaked'
    BY <1>1, QuietStep, QuietKeeps
<1>2. ASSUME NEW t \in Threads, ServeLock(t)
      PROVE  NoServerLeaked'
    <2> PICK n \in Servers : n = born + 1
        BY <1>2, RoomForOne DEF ServeLock, Construct
    <2>1. n \in Servers /\ state[n] = "NONE" /\ current # n
        BY <1>2, RoomForOne DEF ServeLock, Construct
    <2>2. \A x \in Threads : srv[x] # n
        BY <1>2
    <2>3. /\ pc[t] \notin Starting \union Closing
          /\ \A x \in Threads \ {t} : pc'[x] = pc[x] /\ srv'[x] = srv[x]
          /\ pc'[t] = "bind" /\ srv'[t] = n
          /\ state'[n] = "CONSTRUCTED"
          /\ \A s \in Servers \ {n} : state'[s] = state[s]
          /\ current' = current
        BY <1>2, <2>1 DEF ServeLock, Construct
    <2>4. \A x \in Threads, s \in Servers \ {n} : Keeps(x, s)' <=> Keeps(x, s)
        BY <2>3 DEF Keeps
    <2>5. \A x \in Threads : Keeps(x, n)' <=> x = t
        BY <2>2, <2>3 DEF Keeps
    <2>6. \A s \in Servers : state'[s] \notin {"NONE", "CLOSED"} =>
            current' = s \/ \E x \in Threads : Keeps(x, s)'
        BY <2>3, <2>4, <2>5 DEF NoServerLeaked
    <2>7. \A x \in Threads, s \in Servers : Keeps(x, s)' =>
            /\ state'[s] \notin {"NONE", "CLOSED"}
            /\ current' # s
            /\ \A y \in Threads : Keeps(y, s)' => y = x
        BY <2>1, <2>3, <2>4, <2>5 DEF NoServerLeaked
    <2> QED  BY <2>6, <2>7 DEF NoServerLeaked
<1>3. ASSUME NEW t \in Threads,
             \/ ServeBind(t) \/ ServeRegister(t) \/ ServeListen(t)
             \/ StopAccepting(t) \/ ShutdownHandlers(t) \/ Drain(t) \/ Join(t)
      PROVE  NoServerLeaked'
    <2>1. /\ srv[t] \in Servers
          /\ pc[t] \in Starting \union Closing
          /\ pc'[t] \in Starting \union Closing
          /\ \A x \in Threads \ {t} : pc'[x] = pc[x]
          /\ UNCHANGED <<srv, current>>
        BY <1>3 DEF ServeBind, ServeRegister, ServeListen, StopAccepting,
                    ShutdownHandlers, Drain, Join
    <2>2. Keeps(t, srv[t])
        BY <2>1 DEF Keeps
    <2>3. state[srv[t]] \notin {"NONE", "CLOSED"}
        BY <2>1, <2>2 DEF NoServerLeaked
    <2>4. /\ state'[srv[t]] \notin {"NONE", "CLOSED"}
          /\ \A s \in Servers \ {srv[t]} : state'[s] = state[s]
        BY <1>3, <2>1, <2>3 DEF ServeBind, ServeRegister, ServeListen,
                    StopAccepting, ShutdownHandlers, Drain, Join
    <2> QED  BY <2>1, <2>4, WorkKeeps
<1>4. ASSUME NEW t \in Threads, ServeThrows(t) \/ Destroy(t) \/ ServePublish(t)
      PROVE  NoServerLeaked'
    <2>1. srv[t] \in Servers /\ Keeps(t, srv[t])
        BY <1>4 DEF ServeThrows, Destroy, ServePublish, Keeps
    <2>2. /\ pc'[t] \notin Starting \union Closing
          /\ \A x \in Threads \ {t} : pc'[x] = pc[x] /\ srv'[x] = srv[x]
          /\ \A x \in Servers \ {srv[t]} : state'[x] = state[x]
        <3>1. CASE ServeThrows(t)   BY <3>1 DEF ServeThrows
        <3>2. CASE Destroy(t)       BY <3>2 DEF Destroy
        <3>3. CASE ServePublish(t)  BY <3>3 DEF ServePublish
        <3> QED  BY <1>4, <3>1, <3>2, <3>3
    <2>3. \/ current' = current /\ state'[srv[t]] = "CLOSED"
          \/ current = NoServer /\ current' = srv[t]
        BY <1>4, <2>1 DEF ServeThrows, Destroy, ServePublish, LifeInv
    <2> QED  BY <2>1, <2>2, <2>3, ReleaseKeeps
<1>5. ASSUME NEW t \in Threads, StopTake(t)
      PROVE  NoServerLeaked'
    <2>1. /\ current \in Servers /\ state[current] = "LISTENING"
          /\ pc[t] \notin Starting \union Closing
          /\ \A x \in Threads \ {t} : pc'[x] = pc[x] /\ srv'[x] = srv[x]
          /\ pc'[t] = "accepting" /\ srv'[t] = current
          /\ state' = state
          /\ current' = NoServer
        BY <1>5 DEF StopTake, LifeInv
    <2>2. \A x \in Threads : ~Keeps(x, current)
        BY <2>1 DEF NoServerLeaked
    <2>3. \A x \in Threads, s \in Servers :
            Keeps(x, s)' <=> Keeps(x, s) \/ (x = t /\ s = current)
        BY <2>1 DEF Keeps
    <2>4. \A s \in Servers : state'[s] \notin {"NONE", "CLOSED"} =>
            current' = s \/ \E x \in Threads : Keeps(x, s)'
        BY <2>1, <2>3 DEF NoServerLeaked
    <2>5. \A x \in Threads, s \in Servers : Keeps(x, s)' =>
            /\ state'[s] \notin {"NONE", "CLOSED"}
            /\ current' # s
            /\ \A y \in Threads : Keeps(y, s)' => y = x
        BY <2>1, <2>2, <2>3 DEF NoServerLeaked
    <2> QED  BY <2>4, <2>5 DEF NoServerLeaked
<1>6. CASE UNCHANGED vars
    BY <1>6 DEF vars, NoServerLeaked, Keeps
<1> QED
    BY <1>1, <1>2, <1>3, <1>4, <1>5, <1>6 DEF Next, ServeStep, StopStep


\* Only a call to harbor_serve and its turn at the lock change Serving.
LEMMA ServingKept ==
    ASSUME NEW t \in Threads, pc[t] # "serve", pc'[t] # "serve",
           \A x \in Threads \ {t} : pc'[x] = pc[x]
    PROVE  Serving' = Serving
BY DEF Serving

\* The bound on servers holds, and the calls that wait for the lock have room.
LEMMA BoundStep == TypeInv /\ BoundInv /\ [Next]_vars => BoundInv'
<1> SUFFICES ASSUME TypeInv, BoundInv, [Next]_vars
             PROVE  BoundInv'
    OBVIOUS
<1> USE DEF TypeInv, TypeOK, Step, Goto, Return, Call, SetState, stateVars,
        serverVars, threadVars, Starting, Closing, Calling, InRequest
<1>1. IsFiniteSet(Serving) /\ Cardinality(Serving) \in Nat
    BY LifecycleAssumption, FS_Subset, FS_CardinalityType DEF Serving
<1>2. ASSUME NEW t \in Threads, NEW u \in Uris, CallServe(t, u)
      PROVE  BoundInv'
    <2>1. born' = born /\ born + Cardinality(Serving) < MaxServers
        BY <1>2 DEF CallServe, Serving
    <2>2. t \notin Serving /\ Serving' = Serving \union {t}
        BY <1>2 DEF CallServe, Serving
    <2>3. Cardinality(Serving') = Cardinality(Serving) + 1
        BY <1>1, <2>2, FS_AddElement
    <2> QED  BY <1>1, <2>1, <2>3, LifecycleAssumption DEF BoundInv
<1>3. ASSUME NEW t \in Threads, ServeRefused(t) \/ ServeLock(t)
      PROVE  BoundInv'
    <2>1. born' \in Nat /\ born' <= born + 1
        BY <1>3 DEF ServeRefused, ServeLock, Construct
    <2>2. t \in Serving /\ Serving' = Serving \ {t}
        BY <1>3 DEF ServeRefused, ServeLock, Construct, Serving
    <2>3. Cardinality(Serving') = Cardinality(Serving) - 1
        BY <1>1, <2>2, FS_RemoveElement
    <2> QED  BY <1>1, <2>1, <2>3, LifecycleAssumption DEF BoundInv
<1>4. ASSUME NEW t \in Threads,
             \/ \E s \in Servers : Accept(t, s)
             \/ RequestStep(t) \/ SseClientGone(t)
      PROVE  BoundInv'
    <2>1. /\ pc[t] # "serve" /\ pc'[t] # "serve" /\ born' = born
          /\ \A x \in Threads \ {t} : pc'[x] = pc[x]
        BY <1>4 DEF RequestStep, Accept, Refuse, Enter, Finish, SseClosed,
                    SseClientGone, Leave, WorkerDone
    <2> QED  BY <2>1, ServingKept DEF BoundInv
<1>5. ASSUME NEW t \in Threads,
             \/ \E u \in Uris : CallStop(t, u)
             \/ CallStopAny(t) \/ CallWait(t) \/ WaitStep(t) \/ StopStep(t)
      PROVE  BoundInv'
    <2>1. /\ pc[t] # "serve" /\ pc'[t] # "serve" /\ born' = born
          /\ \A x \in Threads \ {t} : pc'[x] = pc[x]
        <3>1. CASE CallStopAny(t) \/ CallWait(t) \/ \E u \in Uris : CallStop(t, u)
            BY <3>1 DEF CallStopAny, CallStop, CallWait
        <3>2. CASE WaitStep(t)
            BY <3>2 DEF WaitStep, WaitNothing, WaitEnter, WaitWake
        <3>3. CASE StopStep(t)
            BY <3>3 DEF StopStep, StopNothing, StopTake, StopAccepting,
                        ShutdownHandlers, Drain, Join, Destroy
        <3> QED  BY <1>5, <3>1, <3>2, <3>3
    <2> QED  BY <2>1, ServingKept DEF BoundInv
<1>6. ASSUME NEW t \in Threads,
             \/ ServeBind(t) \/ ServeThrows(t) \/ ServeRegister(t)
             \/ ServeListen(t) \/ ServePublish(t)
      PROVE  BoundInv'
    <2>1. /\ pc[t] # "serve" /\ pc'[t] # "serve" /\ born' = born
          /\ \A x \in Threads \ {t} : pc'[x] = pc[x]
        BY <1>6 DEF ServeBind, ServeThrows, ServeRegister, ServeListen,
                    ServePublish
    <2> QED  BY <2>1, ServingKept DEF BoundInv
<1>7. CASE UNCHANGED vars
    BY <1>7 DEF vars, BoundInv, Serving
<1> QED
    BY <1>2, <1>3, <1>4, <1>5, <1>6, <1>7 DEF Next, Calls, ServeStep

\* A thread that keeps its guard, or has none before and after.
GuardKept(t) ==
    /\ \A x \in Threads \ {t} : pc'[x] = pc[x] /\ host'[x] = host[x]
    /\ \A s \in Servers :
         (host'[t] = s /\ pc'[t] \notin {"accepted", "left"})
           <=> (host[t] = s /\ pc[t] \notin {"accepted", "left"})
    /\ active' = active

\* CountInv survives a step that moves no guard.
LEMMA CountKept ==
    ASSUME CountInv, NEW t \in Threads, GuardKept(t)
    PROVE  CountInv'
<1>1. ASSUME NEW s \in Servers
      PROVE  Guarding(s)' = Guarding(s)
    BY <1>1 DEF GuardKept, Guarding
<1> QED  BY <1>1 DEF GuardKept, CountInv

\* active_requests counts the guards.
LEMMA CountStep == TypeInv /\ CountInv /\ [Next]_vars => CountInv'
<1> SUFFICES ASSUME TypeInv, CountInv, [Next]_vars
             PROVE  CountInv'
    OBVIOUS
<1> USE DEF TypeInv, TypeOK, Step, Goto, Return, Call, SetState, stateVars,
        serverVars, threadVars, Starting, Closing, Calling, InRequest
<1>1. \A s \in Servers : IsFiniteSet(Guarding(s)) /\ Cardinality(Guarding(s)) \in Nat
    BY LifecycleAssumption, FS_Subset, FS_CardinalityType DEF Guarding
<1>2. ASSUME NEW t \in Threads, Enter(t)
      PROVE  CountInv'
    <2>1. PICK h \in Servers : h = host[t]
        BY <1>2 DEF Enter
    <2>2. active' = [active EXCEPT ![h] = @ + 1]
        BY <1>2, <2>1 DEF Enter
    <2>3. t \notin Guarding(h) /\ Guarding(h)' = Guarding(h) \union {t}
        BY <1>2, <2>1 DEF Enter, Guarding
    <2>4. \A s \in Servers \ {h} : Guarding(s)' = Guarding(s)
        BY <1>2, <2>1 DEF Enter, Guarding
    <2>5. Cardinality(Guarding(h) \union {t}) = Cardinality(Guarding(h)) + 1
        BY <1>1, <2>3, FS_AddElement
    <2>6. ASSUME NEW s \in Servers
          PROVE  active'[s] = Cardinality(Guarding(s)')
        <3>1. CASE s = h   BY <3>1, <2>2, <2>3, <2>5 DEF CountInv
        <3>2. CASE s # h   BY <3>2, <2>2, <2>4 DEF CountInv
        <3> QED  BY <3>1, <3>2
    <2> QED  BY <2>6 DEF CountInv
<1>3. ASSUME NEW t \in Threads, Leave(t)
      PROVE  CountInv'
    <2>1. PICK h \in Servers : h = host[t]
        BY <1>3 DEF Leave
    <2>2. active' = [active EXCEPT ![h] = @ - 1]
        BY <1>3, <2>1 DEF Leave
    <2>3. t \in Guarding(h) /\ Guarding(h)' = Guarding(h) \ {t}
        BY <1>3, <2>1 DEF Leave, Guarding
    <2>4. \A s \in Servers \ {h} : Guarding(s)' = Guarding(s)
        BY <1>3, <2>1 DEF Leave, Guarding
    <2>5. Cardinality(Guarding(h) \ {t}) = Cardinality(Guarding(h)) - 1
        BY <1>1, <2>3, FS_RemoveElement
    <2>6. ASSUME NEW s \in Servers
          PROVE  active'[s] = Cardinality(Guarding(s)')
        <3>1. CASE s = h   BY <3>1, <2>2, <2>3, <2>5 DEF CountInv
        <3>2. CASE s # h   BY <3>2, <2>2, <2>4 DEF CountInv
        <3> QED  BY <3>1, <3>2
    <2> QED  BY <2>6 DEF CountInv
<1>4. ASSUME NEW t \in Threads,
             \/ \E s \in Servers : Accept(t, s)
             \/ Refuse(t) \/ Finish(t) \/ SseClosed(t) \/ SseClientGone(t)
             \/ WorkerDone(t)
      PROVE  CountInv'
    <2>1. GuardKept(t)
        BY <1>4 DEF GuardKept, Accept, Refuse, Finish, SseClosed, SseClientGone,
                    WorkerDone, Servers, NoServer
    <2> QED  BY <2>1, CountKept
<1>5. ASSUME NEW t \in Threads, Calls(t) \/ WaitStep(t)
      PROVE  CountInv'
    <2>1. CASE Calls(t)
        <3>1. GuardKept(t)
            BY <2>1 DEF GuardKept, Calls, CallServe, CallStop, CallStopAny, CallWait
        <3> QED  BY <3>1, CountKept
    <2>2. CASE WaitStep(t)
        <3>1. GuardKept(t)
            BY <2>2 DEF GuardKept, WaitStep, WaitNothing, WaitEnter, WaitWake
        <3> QED  BY <3>1, CountKept
    <2> QED  BY <1>5, <2>1, <2>2
<1>6. ASSUME NEW t \in Threads, ServeStep(t)
      PROVE  CountInv'
    <2>1. GuardKept(t)
        BY <1>6 DEF GuardKept, ServeStep, ServeRefused, ServeLock, Construct,
                    ServeBind, ServeThrows, ServeRegister, ServeListen,
                    ServePublish
    <2> QED  BY <2>1, CountKept
<1>7. ASSUME NEW t \in Threads, StopStep(t)
      PROVE  CountInv'
    <2>1. GuardKept(t)
        BY <1>7 DEF GuardKept, StopStep, StopNothing, StopTake, StopAccepting,
                    ShutdownHandlers, Drain, Join, Destroy
    <2> QED  BY <2>1, CountKept
<1>8. CASE UNCHANGED vars
    <2>1. \A s \in Servers : Guarding(s)' = Guarding(s)
        BY <1>8 DEF vars, Guarding
    <2> QED  BY <1>8, <2>1 DEF vars, CountInv
<1> QED
    BY <1>2, <1>3, <1>4, <1>5, <1>6, <1>7, <1>8 DEF Next, RequestStep

-----------------------------------------------------------------------------

\* The inductive invariant is preserved by every step.
LEMMA NextIInv == IInv /\ [Next]_vars => IInv'
BY TypeStep, BoundStep, LifeStep, KeepStep, HostStep, CountStep, GenerationStep
   DEF IInv

\* The inductive invariant holds throughout.
THEOREM Invariance == Spec => []IInv
<1>1. Init => IInv  BY InitIInv
<1>2. IInv /\ [Next]_vars => IInv'  BY NextIInv
<1> QED  BY <1>1, <1>2, PTL DEF Spec

\* Types, and a thread names a server exactly inside harbor_serve, harbor_stop
\* and harbor_wait.
THEOREM TypeCorrect == Spec => []TypeOK
<1>1. IInv => TypeOK  BY DEF IInv, TypeInv
<1> QED  BY <1>1, Invariance, PTL

\* HarborHttpServer::Close never destroys a handler a worker may be in.
THEOREM HandlersSafe == Spec => []HandlersOutliveRequests
<1>1. IInv => HandlersOutliveRequests
    BY DEF IInv, TypeInv, TypeOK, LifeInv, HostInv, HandlersOutliveRequests,
           Servers, NoServer
<1> QED  BY <1>1, Invariance, PTL

\* HarborServerState neither leaks a server nor has it closed twice.
THEOREM ServersKept == Spec => []NoServerLeaked
<1>1. IInv => NoServerLeaked  BY DEF IInv
<1> QED  BY <1>1, Invariance, PTL

\* HarborServerState::Wait tells its own server from all later ones.
THEOREM WaitersSafe == Spec => []WaiterKnowsItsServer
<1>1. IInv => WaiterKnowsItsServer  BY DEF IInv, GenerationInv
<1> QED  BY <1>1, Invariance, PTL

-----------------------------------------------------------------------------
(* The refinement of OneServer.                                            *)

\* The refinement mapping, by name.
Lifes    == [s \in Servers |-> Life(s)]
AllWaits == [t \in Threads |-> Awaited(t)]

\* A server at which someone is starting is the one the lock is held for.
LEMMA StartingHolds ==
    ASSUME IInv, NEW t \in Threads, pc[t] \in Starting
    PROVE  mu = t /\ mu # NoThread /\ current # srv[t] /\ Life(srv[t]) = "starting"
BY LifecycleAssumption
   DEF IInv, TypeInv, TypeOK, LifeInv, NoServerLeaked, Keeps, Life, Starting,
       Servers, NoServer

\* A server that a harbor_stop has taken is neither published nor starting.
LEMMA ClosingStops ==
    ASSUME IInv, NEW t \in Threads, pc[t] \in Closing
    PROVE  current # srv[t] /\ Life(srv[t]) = "stopping"
<1>1. srv[t] \in Servers /\ Keeps(t, srv[t])
    BY DEF IInv, TypeInv, TypeOK, Keeps, Servers, NoServer
<1>2. mu # NoThread => mu \in Threads /\ pc[mu] \in Starting
    BY DEF IInv, TypeInv, TypeOK
<1>3. mu # NoThread => srv[mu] # srv[t]
    BY <1>1, <1>2 DEF IInv, NoServerLeaked, Keeps, Starting, Closing
<1> QED  BY <1>1, <1>3 DEF IInv, NoServerLeaked, Life

\* The server that is published serves.
LEMMA CurrentServes ==
    ASSUME IInv, current # NoServer
    PROVE  current \in Servers /\ Life(current) = "serving"
BY DEF IInv, TypeInv, TypeOK, LifeInv, Life

\* A server that takes connections starts, serves or stops.
LEMMA ListeningAlive ==
    ASSUME IInv, NEW s \in Servers, state[s] \notin {"NONE", "CLOSED"}
    PROVE  Life(s) \in {"starting", "serving", "stopping"}
BY DEF Life

\* What OneServer sees of the servers.
LEMMA LifesKept ==
    ASSUME IInv, NEW t \in Threads,
           current' = current, mu' = mu,
           \/ srv' = srv
           \/ mu # t /\ \A x \in Threads \ {t} : srv'[x] = srv[x],
           \A s \in Servers :
             \/ state'[s] = state[s]
             \/ {state[s], state'[s]} \cap {"NONE", "CLOSED"} = {}
    PROVE  Lifes' = Lifes
<1>1. mu # NoThread => mu \in Threads /\ srv'[mu] = srv[mu]
    BY DEF IInv, TypeInv, TypeOK
<1>2. ASSUME NEW s \in Servers
      PROVE  Life(s)' = Life(s)
    BY <1>1 DEF Life
<1> QED  BY <1>2 DEF Lifes

\* What it sees of a thread that is not asleep, before or after.
LEMMA WaitsKept ==
    ASSUME NEW t \in Threads, pc[t] # "waiting", pc'[t] # "waiting",
           \A x \in Threads \ {t} : pc'[x] = pc[x] /\ srv'[x] = srv[x]
    PROVE  AllWaits' = AllWaits
BY DEF AllWaits, Awaited

\* A step it does not see.
LEMMA Unseen ==
    ASSUME Lifes' = Lifes, host' = host, AllWaits' = AllWaits
    PROVE  UNCHANGED Process!serverVars
BY DEF Process!serverVars, Lifes, AllWaits

\* At first no server is there, and nobody is in a request or asleep.
LEMMA InitServers == Init => Process!ServersInit
<1> SUFFICES ASSUME Init
             PROVE  Process!ServersInit
    OBVIOUS
<1>1. \A s \in Servers : Life(s) = "none"  BY DEF Init, Life
<1>2. \A t \in Threads : Awaited(t) = NoServer  BY DEF Init, Awaited
<1> QED  BY <1>1, <1>2 DEF Init, Process!ServersInit

\* A request that comes or goes; the guards are hidden.
LEMMA RequestServers ==
    ASSUME IInv, NEW t \in Threads,
           \/ \E s \in Servers : Accept(t, s)
           \/ RequestStep(t) \/ SseClientGone(t)
    PROVE  Process!ServersNext \/ UNCHANGED Process!serverVars
<1> USE DEF IInv, TypeInv, TypeOK, stateVars, serverVars, Step, Goto
<1>1. /\ UNCHANGED <<current, mu, srv, state>>
      /\ pc[t] \in InRequest \union {"free"} /\ pc'[t] \in InRequest \union {"free"}
      /\ \A x \in Threads \ {t} : pc'[x] = pc[x]
    BY DEF RequestStep, Accept, Refuse, Enter, Finish, SseClosed, SseClientGone,
           Leave, WorkerDone, InRequest
<1>2. Lifes' = Lifes
    BY <1>1, LifesKept
<1>3. AllWaits' = AllWaits
    BY <1>1, WaitsKept DEF InRequest
<1>4. ASSUME NEW s \in Servers, Accept(t, s)
      PROVE  Process!Come(t, s)
    <2>1. Life(s) \in {"starting", "serving", "stopping"}
        BY <1>4, ListeningAlive DEF Accept
    <2>2. host[t] = NoServer /\ host' = [host EXCEPT ![t] = s]
        BY <1>4 DEF Accept
    <2> QED  BY <1>2, <1>3, <2>1, <2>2 DEF Process!Come, Lifes, AllWaits
<1>5. CASE WorkerDone(t)
    <2>1. Awaited(t) = NoServer  BY <1>5 DEF WorkerDone, Awaited
    <2>2. host' = [host EXCEPT ![t] = NoServer]  BY <1>5 DEF WorkerDone
    <2>3. Process!Go(t)
        BY <1>2, <1>3, <2>1, <2>2 DEF Process!Go, Lifes, AllWaits
    <2> QED  BY <2>3 DEF Process!ServersNext
<1>6. CASE \/ Refuse(t) \/ Enter(t) \/ Finish(t) \/ SseClosed(t) \/ Leave(t)
           \/ SseClientGone(t)
    <2>1. host' = host
        BY <1>6 DEF Refuse, Enter, Finish, SseClosed, Leave, SseClientGone
    <2> QED  BY <1>2, <1>3, <2>1, Unseen
<1> QED
    BY <1>4, <1>5, <1>6 DEF RequestStep, Process!ServersNext

\* A call, and a call that finds nothing to do, are not seen.
LEMMA CallServers ==
    ASSUME IInv, NEW t \in Threads,
           \/ Calls(t) \/ ServeRefused(t) \/ StopNothing(t) \/ WaitNothing(t)
    PROVE  UNCHANGED Process!serverVars
<1> USE DEF IInv, TypeInv, TypeOK, stateVars, serverVars, Step, Goto, Call, Return
<1>1. /\ UNCHANGED <<current, mu, state, host>>
      /\ pc[t] # "waiting" /\ pc'[t] # "waiting"
      /\ \A x \in Threads \ {t} : pc'[x] = pc[x] /\ srv'[x] = srv[x]
      /\ srv' = srv \/ mu # t
    <2>1. CASE Calls(t)
        BY <2>1 DEF Calls, CallServe, CallStop, CallStopAny, CallWait
    <2>2. CASE ServeRefused(t) \/ StopNothing(t) \/ WaitNothing(t)
        BY <2>2, LifecycleAssumption DEF ServeRefused, StopNothing, WaitNothing
    <2> QED  BY <2>1, <2>2
<1> QED  BY <1>1, LifesKept, WaitsKept, Unseen

\* A start begins when it has the lock, fails or is published.
LEMMA ServeServers ==
    ASSUME IInv, NEW t \in Threads, ServeStep(t)
    PROVE  Process!ServersNext \/ UNCHANGED Process!serverVars
<1> USE DEF IInv, TypeInv, TypeOK, stateVars, serverVars, threadVars, Step, Goto,
        Return, SetState
<1>1. CASE ServeRefused(t)
    BY <1>1, CallServers
<1>2. CASE ServeLock(t)
    <2>1. PICK s \in Servers : s = born + 1
        BY <1>2, RoomForOne DEF ServeLock, Construct
    <2>2. /\ mu = NoThread /\ mu' = t /\ t # NoThread /\ current = NoServer
          /\ current' = current /\ host' = host
          /\ srv' = [srv EXCEPT ![t] = s]
          /\ state' = [state EXCEPT ![s] = "CONSTRUCTED"]
          /\ pc[t] = "serve" /\ pc' = [pc EXCEPT ![t] = "bind"]
        BY <1>2, <2>1, LifecycleAssumption DEF ServeLock, Construct
    <2>3. s # NoServer /\ state[s] = "NONE"
        BY <2>1 DEF Servers, NoServer
    <2>4. \A x \in Servers : Life(x) \notin {"starting", "serving"}
        BY <2>2 DEF Life, Servers, NoServer
    <2>5. Life(s) = "none"  BY <2>3 DEF Life
    <2>6. Life(s)' = "starting"
        BY <2>2, <2>3 DEF Life
    <2>7. \A x \in Servers \ {s} : Life(x)' = Life(x)
        BY <2>2 DEF Life
    <2>8. Lifes' = [Lifes EXCEPT ![s] = "starting"]
        BY <2>6, <2>7 DEF Lifes
    <2>9. AllWaits' = AllWaits
        BY <2>2, WaitsKept
    <2>10. Process!Begin(s)
        BY <2>2, <2>4, <2>5, <2>8, <2>9
           DEF Process!Begin, Process!Turns, Lifes, AllWaits
    <2> QED  BY <2>10 DEF Process!ServersNext
<1>3. CASE ServeBind(t) \/ ServeRegister(t) \/ ServeListen(t)
    <2>1. PICK s \in Servers : s = srv[t]
        BY <1>3 DEF ServeBind, ServeRegister, ServeListen, Starting, Servers, NoServer
    <2>2. /\ UNCHANGED <<current, mu, srv, host>>
          /\ pc[t] # "waiting" /\ pc'[t] # "waiting"
          /\ \A x \in Threads \ {t} : pc'[x] = pc[x]
          /\ state[s] \in {"CONSTRUCTED", "BOUND"}
          /\ \/ state' = state
             \/ \E v \in {"BOUND", "LISTENING"} : state' = [state EXCEPT ![s] = v]
        BY <1>3, <2>1 DEF ServeBind, ServeRegister, ServeListen, LifeInv
    <2>3. \A x \in Servers :
            \/ state'[x] = state[x]
            \/ {state[x], state'[x]} \cap {"NONE", "CLOSED"} = {}
        BY <2>2
    <2>4. Lifes' = Lifes      BY <2>2, <2>3, LifesKept
    <2>5. AllWaits' = AllWaits  BY <2>2, WaitsKept
    <2> QED  BY <2>2, <2>4, <2>5, Unseen
<1>4. CASE ServeThrows(t)
    <2>1. PICK s \in Servers : s = srv[t]
        BY <1>4 DEF ServeThrows, Starting, Servers, NoServer
    <2>2. /\ mu' = NoThread /\ current' = current /\ host' = host
          /\ state' = [state EXCEPT ![s] = "CLOSED"]
          /\ pc[t] \in {"bind", "register"} /\ pc'[t] # "waiting"
          /\ \A x \in Threads \ {t} : pc'[x] = pc[x] /\ srv'[x] = srv[x]
        BY <1>4, <2>1 DEF ServeThrows
    <2>3. mu = t /\ mu # NoThread /\ Life(s) = "starting"
        BY <2>1, <2>2, StartingHolds DEF Starting
    <2>4. Process!Empty(s)
        BY <2>1, <2>2 DEF Process!Empty, HostInv, LifeInv, Servers, NoServer
    <2>5. Life(s)' = "closed"  BY <2>2 DEF Life
    <2>6. \A x \in Servers \ {s} : Life(x)' = Life(x)
        BY <2>1, <2>2, <2>3 DEF Life
    <2>7. Lifes' = [Lifes EXCEPT ![s] = "closed"]
        BY <2>5, <2>6 DEF Lifes
    <2>8. AllWaits' = AllWaits
        BY <2>2, WaitsKept
    <2>9. Process!Abort(s)
        BY <2>2, <2>3, <2>4, <2>7, <2>8
           DEF Process!Abort, Process!Turns, Lifes, AllWaits
    <2> QED  BY <2>9 DEF Process!ServersNext
<1>5. CASE ServePublish(t)
    <2>1. PICK s \in Servers : s = srv[t]
        BY <1>5 DEF ServePublish, Starting, Servers, NoServer
    <2>2. /\ mu' = NoThread /\ current' = s /\ host' = host /\ state' = state
          /\ pc[t] = "publish" /\ pc'[t] # "waiting"
          /\ \A x \in Threads \ {t} : pc'[x] = pc[x] /\ srv'[x] = srv[x]
        BY <1>5, <2>1 DEF ServePublish
    <2>3. mu = t /\ mu # NoThread /\ Life(s) = "starting"
        BY <2>1, <2>2, StartingHolds DEF Starting
    <2>4. current = NoServer /\ state[s] = "LISTENING"
        BY <2>1, <2>2 DEF LifeInv, Starting
    <2>5. Life(s)' = "serving"  BY <2>2, <2>4 DEF Life
    <2>6. \A x \in Servers \ {s} : Life(x)' = Life(x)
        BY <2>1, <2>2, <2>3, <2>4 DEF Life, Servers, NoServer
    <2>7. Lifes' = [Lifes EXCEPT ![s] = "serving"]
        BY <2>5, <2>6 DEF Lifes
    <2>8. AllWaits' = AllWaits
        BY <2>2, WaitsKept
    <2>9. Process!Publish(s)
        BY <2>2, <2>3, <2>7, <2>8 DEF Process!Publish, Process!Turns, Lifes, AllWaits
    <2> QED  BY <2>9 DEF Process!ServersNext
<1> QED
    BY <1>1, <1>2, <1>3, <1>4, <1>5 DEF ServeStep

\* A stop begins when it takes the pointer and ends with the server destroyed.
LEMMA StopServers ==
    ASSUME IInv, NEW t \in Threads, StopStep(t)
    PROVE  Process!ServersNext \/ UNCHANGED Process!serverVars
<1> USE DEF IInv, TypeInv, TypeOK, stateVars, serverVars, threadVars, Step, Goto,
        Return, SetState
<1>1. CASE StopNothing(t)
    BY <1>1, CallServers
<1>2. CASE StopTake(t)
    <2>1. PICK s \in Servers : s = current /\ Life(s) = "serving"
        BY <1>2, CurrentServes DEF StopTake
    <2>2. /\ mu = NoThread /\ mu' = mu /\ current' = NoServer /\ host' = host
          /\ state' = state
          /\ pc[t] = "stop" /\ pc'[t] # "waiting"
          /\ \A x \in Threads \ {t} : pc'[x] = pc[x] /\ srv'[x] = srv[x]
        BY <1>2 DEF StopTake
    <2>3. state[s] = "LISTENING"
        BY <1>2, <2>1 DEF StopTake, LifeInv
    <2>4. Life(s)' = "stopping"
        BY <2>2, <2>3 DEF Life, Servers, NoServer
    <2>5. \A x \in Servers \ {s} : Life(x)' = Life(x)
        BY <2>1, <2>2 DEF Life, Servers, NoServer
    <2>6. Lifes' = [Lifes EXCEPT ![s] = "stopping"]
        BY <2>4, <2>5 DEF Lifes
    <2>7. AllWaits' = AllWaits
        BY <2>2, WaitsKept
    <2>8. Process!Take(s)
        BY <2>1, <2>2, <2>6, <2>7 DEF Process!Take, Process!Turns, Lifes, AllWaits
    <2> QED  BY <2>8 DEF Process!ServersNext
<1>3. CASE StopAccepting(t) \/ ShutdownHandlers(t) \/ Drain(t) \/ Join(t)
    <2>1. PICK s \in Servers : s = srv[t]
        BY <1>3 DEF StopAccepting, ShutdownHandlers, Drain, Join, Closing,
                    Servers, NoServer
    <2>2. /\ UNCHANGED <<current, mu, srv, host>>
          /\ pc[t] \in Closing /\ pc'[t] # "waiting" /\ pc[t] # "waiting"
          /\ \A x \in Threads \ {t} : pc'[x] = pc[x]
          /\ state' = state \/ state' = [state EXCEPT ![s] = "CLOSING"]
        BY <1>3, <2>1 DEF StopAccepting, ShutdownHandlers, Drain, Join, Closing
    <2>3. state[s] \notin {"NONE", "CLOSED"}
        BY <2>1, <2>2 DEF NoServerLeaked, Keeps
    <2>4. \A x \in Servers :
            \/ state'[x] = state[x]
            \/ {state[x], state'[x]} \cap {"NONE", "CLOSED"} = {}
        BY <2>2, <2>3
    <2>5. Lifes' = Lifes        BY <2>2, <2>4, LifesKept
    <2>6. AllWaits' = AllWaits  BY <2>2, WaitsKept
    <2> QED  BY <2>2, <2>5, <2>6, Unseen
<1>4. CASE Destroy(t)
    <2>1. PICK s \in Servers : s = srv[t]
        BY <1>4 DEF Destroy, Closing, Servers, NoServer
    <2>2. /\ UNCHANGED <<mu, current, host>>
          /\ state' = [state EXCEPT ![s] = "CLOSED"]
          /\ pc[t] = "destroy" /\ pc'[t] # "waiting"
          /\ \A x \in Threads \ {t} : pc'[x] = pc[x] /\ srv'[x] = srv[x]
        BY <1>4, <2>1 DEF Destroy
    <2>3. Life(s) = "stopping"
        BY <2>1, <2>2, ClosingStops DEF Closing
    <2>4. mu # t /\ (mu # NoThread => mu \in Threads)
        BY <2>2 DEF Starting
    <2>5. Process!Empty(s)
        BY <2>1, <2>2 DEF Process!Empty, HostInv
    <2>6. Life(s)' = "closed"  BY <2>2 DEF Life
    <2>7. \A x \in Servers \ {s} : Life(x)' = Life(x)
        BY <2>2, <2>4 DEF Life
    <2>8. Lifes' = [Lifes EXCEPT ![s] = "closed"]
        BY <2>6, <2>7 DEF Lifes
    <2>9. AllWaits' = AllWaits
        BY <2>2, WaitsKept
    <2>10. Process!Close(s)
        BY <2>2, <2>3, <2>5, <2>8, <2>9
           DEF Process!Close, Process!Turns, Lifes, AllWaits
    <2> QED  BY <2>10 DEF Process!ServersNext
<1> QED
    BY <1>1, <1>2, <1>3, <1>4 DEF StopStep

\* A waiter finds a server that serves and leaves one that no longer does,
\* which the generations tell it.
LEMMA WaitServers ==
    ASSUME IInv, NEW t \in Threads, WaitStep(t)
    PROVE  Process!ServersNext \/ UNCHANGED Process!serverVars
<1> USE DEF IInv, TypeInv, TypeOK, stateVars, serverVars, threadVars, Step, Goto,
        Return
<1>1. CASE WaitNothing(t)
    BY <1>1, CallServers
<1>2. CASE WaitEnter(t)
    <2>1. PICK s \in Servers : s = current /\ Life(s) = "serving"
        BY <1>2, CurrentServes DEF WaitEnter
    <2>2. /\ UNCHANGED <<current, mu, host, state>>
          /\ mu # t
          /\ srv' = [srv EXCEPT ![t] = s]
          /\ pc[t] = "wait" /\ pc' = [pc EXCEPT ![t] = "waiting"]
        BY <1>2, <2>1, LifecycleAssumption DEF WaitEnter
    <2>3. Lifes' = Lifes  BY <2>2, LifesKept
    <2>4. Awaited(t) = NoServer  BY <2>2 DEF Awaited
    <2>5. AllWaits' = [AllWaits EXCEPT ![t] = s]
        BY <2>2 DEF AllWaits, Awaited
    <2>6. Process!WaitFor(t, s)
        BY <2>1, <2>2, <2>3, <2>4, <2>5 DEF Process!WaitFor, Lifes, AllWaits
    <2> QED  BY <2>6 DEF Process!ServersNext
<1>3. CASE WaitWake(t)
    <2>1. PICK s \in Servers : s = srv[t]
        BY <1>3 DEF WaitWake, Servers, NoServer
    <2>2. /\ UNCHANGED <<current, mu, host, state>>
          /\ mu = NoThread /\ mu # t
          /\ pc[t] = "waiting" /\ pc'[t] # "waiting"
          /\ \A x \in Threads \ {t} : pc'[x] = pc[x] /\ srv'[x] = srv[x]
        BY <1>3, LifecycleAssumption DEF WaitWake, Starting, Closing
    <2>3. Lifes' = Lifes  BY <2>2, LifesKept
    <2>4. current # s
        BY <1>3, <2>1, <2>2 DEF WaitWake, GenerationInv, WaiterKnowsItsServer
    <2>5. state[s] # "NONE"
        BY <2>1 DEF Servers
    <2>6. Life(s) \in {"stopping", "closed"}
        BY <2>2, <2>4, <2>5 DEF Life
    <2>7. Awaited(t) = s /\ s # NoServer
        BY <2>1, <2>2 DEF Awaited, Servers, NoServer
    <2>8. AllWaits' = [AllWaits EXCEPT ![t] = NoServer]
        BY <2>2 DEF AllWaits, Awaited
    <2>9. Process!WaitEnds(t)
        BY <2>2, <2>3, <2>6, <2>7, <2>8 DEF Process!WaitEnds, Lifes, AllWaits
    <2> QED  BY <2>9 DEF Process!ServersNext
<1> QED
    BY <1>1, <1>2, <1>3 DEF WaitStep

\* "Single-server-per-process": locks, generations and counters together keep
\* the promise of OneServer, for any number of threads and servers.
THEOREM Implementation == Spec => ImplementsOneServer
<1>1. Init => Process!ServersInit
    BY InitServers
<1>2. IInv /\ [Next]_vars => [Process!ServersNext]_(Process!serverVars)
    <2> SUFFICES ASSUME IInv, [Next]_vars
                 PROVE  Process!ServersNext \/ UNCHANGED Process!serverVars
        OBVIOUS
    <2>1. CASE UNCHANGED vars
        <3>1. Lifes' = Lifes
            BY <2>1 DEF vars, stateVars, serverVars, threadVars, Lifes, Life
        <3>2. AllWaits' = AllWaits /\ host' = host
            BY <2>1 DEF vars, threadVars, AllWaits, Awaited
        <3> QED  BY <3>1, <3>2, Unseen
    <2> QED
        BY <2>1, RequestServers, CallServers, ServeServers, StopServers,
           WaitServers DEF Next
<1> QED
    BY <1>1, <1>2, Invariance, PTL
       DEF Spec, ImplementsOneServer, Process!ServersSpec

=============================================================================
