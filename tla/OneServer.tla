------------------------------ MODULE OneServer ------------------------------
(***************************************************************************)
(* What a process promises about its servers, without locks, generations,  *)
(* counters or threads.  There is one server at a time that starts or      *)
(* serves; each is started once, stopped once and closed once, and closed  *)
(* only when no request is on it any more.  Who waits for a server waits   *)
(* for one that serves, and goes on only after that one has been stopped.  *)
(***************************************************************************)
CONSTANTS Clients, Servers, NoServer

VARIABLES
    life,    \* where each server is in its life
    inside,  \* the server whose request a client is
    waits    \* the server a client waits for

serverVars == <<life, inside, waits>>

Lives == {"none", "starting", "serving", "stopping", "closed"}

Turns(s, from, to) ==
    /\ life[s] = from
    /\ life' = [life EXCEPT ![s] = to]
    /\ UNCHANGED <<inside, waits>>

\* No request is on the server.
Empty(s) == \A c \in Clients : inside[c] # s

ServersInit ==
    /\ life = [s \in Servers |-> "none"]
    /\ inside = [c \in Clients |-> NoServer]
    /\ waits = [c \in Clients |-> NoServer]

Begin(s) ==
    /\ \A x \in Servers : life[x] \notin {"starting", "serving"}
    /\ Turns(s, "none", "starting")

Publish(s) == Turns(s, "starting", "serving")

\* A start that fails has let no request in.
Abort(s) == Empty(s) /\ Turns(s, "starting", "closed")

Take(s) == Turns(s, "serving", "stopping")

Close(s) == Empty(s) /\ Turns(s, "stopping", "closed")

\* Connections are taken before the server is published and while it stops.
Come(c, s) ==
    /\ inside[c] = NoServer
    /\ life[s] \in {"starting", "serving", "stopping"}
    /\ inside' = [inside EXCEPT ![c] = s]
    /\ UNCHANGED <<life, waits>>

Go(c) ==
    /\ waits[c] = NoServer
    /\ inside' = [inside EXCEPT ![c] = NoServer]
    /\ UNCHANGED <<life, waits>>

WaitFor(c, s) ==
    /\ waits[c] = NoServer
    /\ life[s] = "serving"
    /\ waits' = [waits EXCEPT ![c] = s]
    /\ UNCHANGED <<life, inside>>

WaitEnds(c) ==
    /\ waits[c] # NoServer
    /\ life[waits[c]] \in {"stopping", "closed"}
    /\ waits' = [waits EXCEPT ![c] = NoServer]
    /\ UNCHANGED <<life, inside>>

ServersNext ==
    \/ \E s \in Servers :
         \/ Begin(s) \/ Publish(s) \/ Abort(s) \/ Take(s) \/ Close(s)
         \/ \E c \in Clients : Come(c, s) \/ WaitFor(c, s)
    \/ \E c \in Clients : Go(c) \/ WaitEnds(c)

ServersSpec == ServersInit /\ [][ServersNext]_serverVars

=============================================================================
