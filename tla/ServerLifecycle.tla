--------------------------- MODULE ServerLifecycle ---------------------------
(***************************************************************************)
(* harbor_serve, harbor_stop and harbor_wait on the process-wide           *)
(* HarborServerState, and the HarborHttpServers they start, drain and      *)
(* destroy under the requests that run on them.  A thread is either a SQL  *)
(* caller outside any server, or a worker of a server inside a request     *)
(* handler; a /sql query may itself call the lifecycle functions.          *)
(***************************************************************************)
EXTENDS Integers, FiniteSets

CONSTANTS
    Threads,      \* SQL callers and request workers
    NoThread,
    Uris,         \* addresses a server can be asked to listen on
    NoUri,
    RequestCalls, \* lifecycle functions that /sql queries call
    MaxServers    \* bound: HarborHttpServers ever constructed

ASSUME LifecycleAssumption ==
    /\ IsFiniteSet(Threads) /\ NoThread \notin Threads
    /\ NoUri \notin Uris
    /\ RequestCalls \subseteq {"serve", "stop", "wait"}
    /\ MaxServers \in Nat

Servers  == 1..MaxServers
NoServer == 0

VARIABLES
    mu,                \* HarborServerState::state_mu: the thread that holds it
    current,           \* HarborServerState::server
    generation,
    stoppedGeneration, \* stopped_generation
    born,              \* servers constructed so far; also the last one's name
    state,             \* HarborHttpServer::state ("NONE" before construction)
    uri,               \* its address
    active,            \* active_requests
    handlers,          \* are the handler subsystems alive?
    closed,            \* EventDispatcher::closed
    pc,                \* where a thread is
    host,              \* the server whose request the thread is, if any
    srv,               \* the server it is starting, stopping or waiting for
    want,              \* the address it names
    myGeneration       \* my_generation of a waiter

stateVars  == <<mu, current, generation, stoppedGeneration>>
serverVars == <<born, state, uri, active, handlers, closed>>
threadVars == <<pc, host, srv, want, myGeneration>>
vars == <<stateVars, serverVars, threadVars>>

States == {"NONE", "CONSTRUCTED", "BOUND", "LISTENING", "CLOSING", "CLOSED"}

Starting == {"bind", "register", "listen", "publish"}
Closing  == {"accepting", "shutdown", "drain", "join", "destroy"}
Calling  == {"serve", "stop", "wait", "waiting"} \union Starting \union Closing
InRequest == {"accepted", "running", "sse", "leaving", "left"}

Init ==
    /\ mu = NoThread
    /\ current = NoServer
    /\ generation = 0
    /\ stoppedGeneration = 0
    /\ born = 0
    /\ state = [s \in Servers |-> "NONE"]
    /\ uri = [s \in Servers |-> NoUri]
    /\ active = [s \in Servers |-> 0]
    /\ handlers = [s \in Servers |-> FALSE]
    /\ closed = [s \in Servers |-> FALSE]
    /\ pc = [t \in Threads |-> "free"]
    /\ host = [t \in Threads |-> NoServer]
    /\ srv = [t \in Threads |-> NoServer]
    /\ want = [t \in Threads |-> NoUri]
    /\ myGeneration = [t \in Threads |-> 0]

Goto(t, l) == pc' = [pc EXCEPT ![t] = l]

Step(t, from, to) == pc[t] = from /\ Goto(t, to)

-----------------------------------------------------------------------------
(* Requests.                                                               *)

\* A worker takes a connection of a listening server and matches the route;
\* the handler's ActiveRequestGuard does not exist yet.
Accept(t, s) ==
    /\ Step(t, "free", "accepted")
    /\ state[s] = "LISTENING"
    /\ host' = [host EXCEPT ![t] = s]
    /\ UNCHANGED <<stateVars, serverVars, srv, want, myGeneration>>

\* /localEvents refuses a request before it makes a guard.
Refuse(t) ==
    /\ Step(t, "accepted", "left")
    /\ UNCHANGED <<stateVars, serverVars, host, srv, want, myGeneration>>

\* ActiveRequestGuard is constructed; /localEvents keeps it in its provider.
Enter(t) ==
    /\ pc[t] = "accepted"
    /\ \E l \in {"running", "sse"} : Goto(t, l)
    /\ active' = [active EXCEPT ![host[t]] = @ + 1]
    /\ UNCHANGED <<stateVars, born, state, uri, handlers, closed, host, srv,
                   want, myGeneration>>

Finish(t) ==
    /\ Step(t, "running", "leaving")
    /\ UNCHANGED <<stateVars, serverVars, host, srv, want, myGeneration>>

\* WaitEvent returns false once the dispatcher is closed; before that it
\* waits, writes and is called again, until the client is gone.
SseClosed(t) ==
    /\ Step(t, "sse", "leaving")
    /\ closed[host[t]]
    /\ UNCHANGED <<stateVars, serverVars, host, srv, want, myGeneration>>

SseClientGone(t) ==
    /\ Step(t, "sse", "leaving")
    /\ UNCHANGED <<stateVars, serverVars, host, srv, want, myGeneration>>

\* ~ActiveRequestGuard: the decrement, then the notification, for which the
\* server object must still be there.
Leave(t) ==
    /\ Step(t, "leaving", "left")
    /\ active' = [active EXCEPT ![host[t]] = @ - 1]
    /\ UNCHANGED <<stateVars, born, state, uri, handlers, closed, host, srv,
                   want, myGeneration>>

WorkerDone(t) ==
    /\ Step(t, "left", "free")
    /\ host' = [host EXCEPT ![t] = NoServer]
    /\ UNCHANGED <<stateVars, serverVars, srv, want, myGeneration>>

-----------------------------------------------------------------------------
(* Calls and returns of the lifecycle functions.                           *)

\* A SQL caller, or the query of a /sql request that the run allows.
Call(t, f) ==
    /\ \/ pc[t] = "free"
       \/ pc[t] = "running" /\ f \in RequestCalls
    /\ Goto(t, f)

\* A lifecycle call returns to whoever made it.
Return(t) ==
    /\ Goto(t, IF host[t] = NoServer THEN "free" ELSE "running")
    /\ srv' = [srv EXCEPT ![t] = NoServer]
    /\ want' = [want EXCEPT ![t] = NoUri]
    /\ myGeneration' = [myGeneration EXCEPT ![t] = 0]
    /\ UNCHANGED host

CallServe(t, u) ==
    /\ Call(t, "serve")
    /\ born + Cardinality({x \in Threads : pc[x] = "serve"}) < MaxServers
    /\ want' = [want EXCEPT ![t] = u]
    /\ UNCHANGED <<stateVars, serverVars, host, srv, myGeneration>>

\* harbor_stop(uri) and quack_stop(uri).
CallStop(t, u) ==
    /\ Call(t, "stop")
    /\ want' = [want EXCEPT ![t] = u]
    /\ UNCHANGED <<stateVars, serverVars, host, srv, myGeneration>>

\* harbor_stop() looks the address up when it is bound, not when it runs.
CallStopAny(t) ==
    /\ mu = NoThread
    /\ current # NoServer
    /\ CallStop(t, uri[current])

CallWait(t) ==
    /\ Call(t, "wait")
    /\ UNCHANGED <<stateVars, serverVars, host, srv, want, myGeneration>>

-----------------------------------------------------------------------------
(* HarborServerState::Start, under state_mu until its end.                 *)

SetState(s, v) == state' = [state EXCEPT ![s] = v]

\* It throws when a server is there.
ServeRefused(t) ==
    /\ pc[t] = "serve"
    /\ mu = NoThread
    /\ current # NoServer
    /\ Return(t)
    /\ UNCHANGED <<stateVars, serverVars>>

Construct(t) ==
    /\ Step(t, "serve", "bind")
    /\ mu' = t
    /\ born' = born + 1
    /\ srv' = [srv EXCEPT ![t] = born + 1]
    /\ SetState(born + 1, "CONSTRUCTED")
    /\ uri' = [uri EXCEPT ![born + 1] = want[t]]
    /\ UNCHANGED <<current, generation, stoppedGeneration, active, handlers,
                   closed, host, want, myGeneration>>

\* Slip: Start looks at the server before it takes the lock.
ServeLockEarlyRead(t) == current = NoServer /\ Construct(t)

ServeLock(t) ==
    /\ mu = NoThread
    /\ current = NoServer
    /\ Construct(t)

HoldsSocket(s) == state[s] \in {"BOUND", "LISTENING"}

ServeBind(t) ==
    /\ Step(t, "bind", "register")
    /\ \A s \in Servers : HoldsSocket(s) => uri[s] # uri[srv[t]]
    /\ SetState(srv[t], "BOUND")
    /\ UNCHANGED <<stateVars, born, uri, active, handlers, closed, host, srv,
                   want, myGeneration>>

\* The address is taken or not permitted, or harbor_cors_origins is refused:
\* the destructor closes the server, the lock is released, the call throws.
ServeThrows(t) ==
    /\ pc[t] \in {"bind", "register"}
    /\ SetState(srv[t], "CLOSED")
    /\ mu' = NoThread
    /\ Return(t)
    /\ UNCHANGED <<current, generation, stoppedGeneration, born, uri, active,
                   handlers, closed>>

ServeRegister(t) ==
    /\ Step(t, "register", "listen")
    /\ handlers' = [handlers EXCEPT ![srv[t]] = TRUE]
    /\ UNCHANGED <<stateVars, born, state, uri, active, closed, host, srv,
                   want, myGeneration>>

ServeListen(t) ==
    /\ Step(t, "listen", "publish")
    /\ SetState(srv[t], "LISTENING")
    /\ UNCHANGED <<stateVars, born, uri, active, handlers, closed, host, srv,
                   want, myGeneration>>

ServePublish(t) ==
    /\ pc[t] = "publish"
    /\ current' = srv[t]
    /\ generation' = generation + 1
    /\ mu' = NoThread
    /\ Return(t)
    /\ UNCHANGED <<stoppedGeneration, serverVars>>

-----------------------------------------------------------------------------
(* HarborServerState::Stop: the server is taken under state_mu and closed  *)
(* after it is released.                                                   *)

\* There is no server, or it is at another address.
StopNothing(t) ==
    /\ pc[t] = "stop"
    /\ mu = NoThread
    /\ current # NoServer => uri[current] # want[t]
    /\ Return(t)
    /\ UNCHANGED <<stateVars, serverVars>>

StopTake(t) ==
    /\ Step(t, "stop", "accepting")
    /\ mu = NoThread
    /\ current # NoServer
    /\ uri[current] = want[t]
    /\ srv' = [srv EXCEPT ![t] = current]
    /\ current' = NoServer
    /\ stoppedGeneration' = generation
    /\ UNCHANGED <<mu, generation, serverVars, host, want, myGeneration>>

StopAccepting(t) ==
    /\ Step(t, "accepting", "shutdown")
    /\ SetState(srv[t], "CLOSING")
    /\ UNCHANGED <<stateVars, born, uri, active, handlers, closed, host, srv,
                   want, myGeneration>>

\* Slip: the dispatcher is not closed.
ShutdownWatcherOnly(t) ==
    /\ Step(t, "shutdown", "drain")
    /\ UNCHANGED <<stateVars, serverVars, host, srv, want, myGeneration>>

\* The catalog watcher is joined, then the dispatcher closed.
ShutdownHandlers(t) ==
    /\ Step(t, "shutdown", "drain")
    /\ closed' = [closed EXCEPT ![srv[t]] = TRUE]
    /\ UNCHANGED <<stateVars, born, state, uri, active, handlers, host, srv,
                   want, myGeneration>>

\* The loop around DrainActiveRequests has no other way out.
Drain(t) ==
    /\ Step(t, "drain", "join")
    /\ active[srv[t]] = 0
    /\ UNCHANGED <<stateVars, serverVars, host, srv, want, myGeneration>>

\* Slip: zero active requests is taken for the end of all workers.
JoinNobody(t) ==
    /\ Step(t, "join", "destroy")
    /\ UNCHANGED <<stateVars, serverVars, host, srv, want, myGeneration>>

\* The listener returns from listen_after_bind when every worker is done.
Join(t) ==
    /\ Step(t, "join", "destroy")
    /\ \A x \in Threads : host[x] # srv[t]
    /\ UNCHANGED <<stateVars, serverVars, host, srv, want, myGeneration>>

Destroy(t) ==
    /\ pc[t] = "destroy"
    /\ handlers' = [handlers EXCEPT ![srv[t]] = FALSE]
    /\ SetState(srv[t], "CLOSED")
    /\ Return(t)
    /\ UNCHANGED <<stateVars, born, uri, active, closed>>

-----------------------------------------------------------------------------
(* HarborServerState::Wait.                                                *)

WaitNothing(t) ==
    /\ pc[t] = "wait"
    /\ mu = NoThread
    /\ current = NoServer
    /\ Return(t)
    /\ UNCHANGED <<stateVars, serverVars>>

WaitEnter(t) ==
    /\ Step(t, "wait", "waiting")
    /\ mu = NoThread
    /\ current # NoServer
    /\ srv' = [srv EXCEPT ![t] = current]
    /\ myGeneration' = [myGeneration EXCEPT ![t] = generation]
    /\ UNCHANGED <<stateVars, serverVars, host, want>>

\* Slip: the wait has no predicate, and any notification ends it.
WaitWakeAny(t) ==
    /\ pc[t] = "waiting"
    /\ mu = NoThread
    /\ Return(t)
    /\ UNCHANGED <<stateVars, serverVars>>

WaitWake(t) ==
    /\ pc[t] = "waiting"
    /\ mu = NoThread
    /\ stoppedGeneration >= myGeneration[t]
    /\ Return(t)
    /\ UNCHANGED <<stateVars, serverVars>>

-----------------------------------------------------------------------------

RequestStep(t) ==
    \/ Refuse(t) \/ Enter(t) \/ Finish(t) \/ SseClosed(t) \/ Leave(t)
    \/ WorkerDone(t)

ServeStep(t) ==
    \/ ServeRefused(t) \/ ServeLock(t) \/ ServeBind(t) \/ ServeThrows(t)
    \/ ServeRegister(t) \/ ServeListen(t) \/ ServePublish(t)

StopStep(t) ==
    \/ StopNothing(t) \/ StopTake(t) \/ StopAccepting(t)
    \/ ShutdownHandlers(t) \/ Drain(t) \/ Join(t) \/ Destroy(t)

WaitStep(t) == WaitNothing(t) \/ WaitEnter(t) \/ WaitWake(t)

Calls(t) ==
    \/ \E u \in Uris : CallServe(t, u) \/ CallStop(t, u)
    \/ CallStopAny(t) \/ CallWait(t)

Next == \E t \in Threads :
    \/ \E s \in Servers : Accept(t, s)
    \/ RequestStep(t) \/ SseClientGone(t)
    \/ Calls(t) \/ ServeStep(t) \/ StopStep(t) \/ WaitStep(t)

Spec == Init /\ [][Next]_vars

\* Threads run, and a query ends some day; nobody has to call anything, and an
\* event stream ends only because its dispatcher is closed.  Each start holds
\* state_mu for a finite time and there are finitely many of them, so weak
\* fairness is enough for the threads that want the lock.
FairSpec ==
    /\ Spec
    /\ \A t \in Threads :
         /\ WF_vars(RequestStep(t))
         /\ WF_vars(ServeStep(t))
         /\ WF_vars(StopStep(t))
         /\ WF_vars(WaitStep(t))

-----------------------------------------------------------------------------
(* Properties.                                                             *)

\* Every variable has its type, and the threads inside a lifecycle call name
\* the server they work on (HarborServerState, HarborHttpServer).
TypeOK ==
    /\ mu \in Threads \union {NoThread}
    /\ current \in Servers \union {NoServer}
    /\ generation \in Nat
    /\ stoppedGeneration \in Nat
    /\ born \in 0..MaxServers
    /\ state \in [Servers -> States]
    /\ uri \in [Servers -> Uris \union {NoUri}]
    /\ active \in [Servers -> Nat]
    /\ handlers \in [Servers -> BOOLEAN]
    /\ closed \in [Servers -> BOOLEAN]
    /\ pc \in [Threads -> {"free"} \union InRequest \union Calling]
    /\ host \in [Threads -> Servers \union {NoServer}]
    /\ srv \in [Threads -> Servers \union {NoServer}]
    /\ want \in [Threads -> Uris \union {NoUri}]
    /\ myGeneration \in [Threads -> Nat]
    /\ \A t \in Threads :
         srv[t] # NoServer <=> pc[t] \in {"waiting"} \union Starting \union Closing

\* HarborHttpServer::Close destroys the handlers only when no worker of the
\* server can still be inside one, not even before its ActiveRequestGuard is
\* made or after it has counted down.
HandlersOutliveRequests ==
    \A t \in Threads : host[t] # NoServer => handlers[host[t]]

\* A harbor_serve starts, or a harbor_stop closes, server s.
Keeps(t, s) == srv[t] = s /\ pc[t] \in Starting \union Closing

\* Every server that is not closed has exactly one keeper: the published
\* pointer, the harbor_serve that is starting it, or the harbor_stop that took
\* it.  None is leaked with its listener running and none is closed twice.
NoServerLeaked ==
    /\ \A s \in Servers : state[s] \notin {"NONE", "CLOSED"} =>
         current = s \/ \E t \in Threads : Keeps(t, s)
    /\ \A t \in Threads, s \in Servers : Keeps(t, s) =>
         /\ state[s] \notin {"NONE", "CLOSED"}
         /\ current # s
         /\ \A x \in Threads : Keeps(x, s) => x = t

\* HarborServerState::Wait: a waiter may leave exactly when the server it
\* found has been stopped, however many have been started and stopped since.
WaiterKnowsItsServer ==
    \A t \in Threads : pc[t] = "waiting" =>
      (stoppedGeneration >= myGeneration[t] <=> current # srv[t])

\* harbor_wait returns after the server it waits for is stopped, even if
\* another server is running by the time it looks; and harbor_stop ends once
\* it has taken a server, event streams and requests that come late included,
\* unless a request of that server is itself inside harbor_serve, harbor_stop
\* or harbor_wait.
CallsReturn ==
    \A t \in Threads :
      /\ \A s \in Servers :
           pc[t] = "waiting" /\ srv[t] = s /\ current # s
             ~> ~(pc[t] = "waiting" /\ srv[t] = s)
      /\ pc[t] \in Closing ~>
           \/ pc[t] \notin Closing
           \/ \E x \in Threads : host[x] = srv[t] /\ pc[x] \in Calling

\* Where OneServer sees a server: state_mu is held by whoever is starting one.
Life(s) ==
    IF state[s] = "NONE" THEN "none"
    ELSE IF state[s] = "CLOSED" THEN "closed"
    ELSE IF current = s THEN "serving"
    ELSE IF mu # NoThread /\ srv[mu] = s THEN "starting"
    ELSE "stopping"

\* The server a thread is asleep for in harbor_wait.
Awaited(t) == IF pc[t] = "waiting" THEN srv[t] ELSE NoServer

\* HarborServerState and the servers it starts and closes keep the promise of
\* "Single-server-per-process": however starts, stops, waits and requests
\* interleave, a caller sees one server after the other.
Process == INSTANCE OneServer WITH
    Clients <- Threads,
    life <- [s \in Servers |-> Life(s)],
    inside <- host,
    waits <- [t \in Threads |-> Awaited(t)]

ImplementsOneServer == Process!ServersSpec

=============================================================================
