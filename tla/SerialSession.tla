---------------------------- MODULE SerialSession ----------------------------
(***************************************************************************)
(* What a pooled session promises to the requests that name it, without    *)
(* guards, generations or sweeps.  A session runs one request at a time    *)
(* and refuses the others; a request is answered at most once; it is told  *)
(* that it timed out only on a session where some query has run past its   *)
(* limit, and that it was cancelled only if somebody asked for that since  *)
(* its query began.                                                        *)
(***************************************************************************)
CONSTANTS Sessions, Requests, NoSession, NoRequest

VARIABLES
    open,    \* sessions a new request can still find
    owner,   \* the request a session is running
    phase,   \* where a request is
    at,      \* the session it named
    answer,  \* what it has been told
    late,    \* sessions of which some query has been over its limit
    asked    \* sessions whose query, since it began, has been cancelled

serialVars == <<open, owner, phase, at, answer, late, asked>>

Answers == {"ok", "timeout", "cancelled", "error", "gone"}

SerialInit ==
    /\ open = Sessions
    /\ owner = [s \in Sessions |-> NoRequest]
    /\ phase = [r \in Requests |-> "idle"]
    /\ at = [r \in Requests |-> NoSession]
    /\ answer = [r \in Requests |-> "none"]
    /\ late = {}
    /\ asked = {}

Arrive(r, s) ==
    /\ phase[r] = "idle"
    /\ s \in open
    /\ phase' = [phase EXCEPT ![r] = "waiting"]
    /\ at' = [at EXCEPT ![r] = s]
    /\ UNCHANGED <<open, owner, answer, late, asked>>

Admit(r) ==
    /\ phase[r] = "waiting"
    /\ owner[at[r]] = NoRequest
    /\ phase' = [phase EXCEPT ![r] = "running"]
    /\ owner' = [owner EXCEPT ![at[r]] = r]
    /\ UNCHANGED <<open, at, answer, late, asked>>

Finish(r) ==
    /\ phase' = [phase EXCEPT ![r] = "idle"]
    /\ at' = [at EXCEPT ![r] = NoSession]
    /\ answer' = [answer EXCEPT ![r] = "none"]
    /\ UNCHANGED <<open, late, asked>>

Refuse(r) ==
    /\ phase[r] = "waiting"
    /\ owner[at[r]] # NoRequest
    /\ Finish(r)
    /\ UNCHANGED owner

Leave(r) ==
    /\ phase[r] = "running"
    /\ owner[at[r]] = r
    /\ Finish(r)
    /\ owner' = [owner EXCEPT ![at[r]] = NoRequest]

\* The owner's query begins: earlier cancellations are not meant for it.
Begin(r) ==
    /\ phase[r] = "running"
    /\ answer[r] = "none"
    /\ asked' = asked \ {at[r]}
    /\ UNCHANGED <<open, owner, phase, at, answer, late>>

Answer(r, a) ==
    /\ phase[r] = "running"
    /\ answer[r] = "none"
    /\ a = "timeout" => at[r] \in late
    /\ a = "cancelled" => at[r] \in asked
    /\ answer' = [answer EXCEPT ![r] = a]
    /\ UNCHANGED <<open, owner, phase, at, late, asked>>

\* Only a session that is running something can be found late.
Expire(s) ==
    /\ owner[s] # NoRequest
    /\ late' = late \union {s}
    /\ UNCHANGED <<open, owner, phase, at, answer, asked>>

Ask(s) ==
    /\ asked' = asked \union {s}
    /\ UNCHANGED <<open, owner, phase, at, answer, late>>

Close(s) ==
    /\ open' = open \ {s}
    /\ UNCHANGED <<owner, phase, at, answer, late, asked>>

SerialNext ==
    \/ \E r \in Requests :
         \/ \E s \in Sessions : Arrive(r, s)
         \/ Admit(r) \/ Refuse(r) \/ Leave(r) \/ Begin(r)
         \/ \E a \in Answers : Answer(r, a)
    \/ \E s \in Sessions : Expire(s) \/ Ask(s) \/ Close(s)

SerialSpec == SerialInit /\ [][SerialNext]_serialVars

=============================================================================
