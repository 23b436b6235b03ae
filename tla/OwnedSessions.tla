---------------------------- MODULE OwnedSessions ----------------------------
(***************************************************************************)
(* What the session manager promises to those who use sessions, without    *)
(* mutexes, references and listings under way.  There is a table of        *)
(* sessions and their owners.  A principal adds to it as long as the       *)
(* sessions of principals are fewer than some limit that was set; a        *)
(* session leaves it alone or with all others of its owner.  A request of  *)
(* a principal is given a session of that principal, a request of nobody   *)
(* any session; it enters it when nobody else is inside, and is refused    *)
(* only when somebody is.                                                  *)
(***************************************************************************)
EXTENDS Integers, FiniteSets

CONSTANTS Principals, Ids, Requests, None

VARIABLES
    table,   \* for each session that can be found, its owner
    asks,    \* for each request, <<its principal, the session it was given>>
    inside,  \* for each session, the request that is in it
    most     \* the largest limit there was

sessionVars == <<table, asks, inside, most>>

Nothing == <<None, None>>

SessionsInit ==
    /\ table = [i \in {} |-> None]
    /\ asks = [r \in Requests |-> Nothing]
    /\ inside = [i \in Ids |-> None]
    /\ most \in Nat

OwnedBy(p) == {i \in DOMAIN table : table[i] = p}

Restrict(S) ==
    /\ table' = [i \in S |-> table[i]]
    /\ UNCHANGED <<asks, inside, most>>

\* A new session is one that nobody has been given or is in.  A Quack
\* connection belongs to nobody, and there is no limit to those.
Create(i, p) ==
    /\ inside[i] = None
    /\ \A r \in Requests : asks[r][2] # i
    /\ p # None => Cardinality(DOMAIN table \ OwnedBy(None)) < most
    /\ table' = [j \in DOMAIN table \union {i} |-> IF j = i THEN p ELSE table[j]]
    /\ UNCHANGED <<asks, inside, most>>

\* A DELETE of its owner or a DISCONNECT of whoever names it: the table does
\* not tell them apart.
Destroy(i) == Restrict(DOMAIN table \ {i})

DestroyAll(p) == Restrict(DOMAIN table \ OwnedBy(p))

\* The session a request of a principal is given belongs to that principal.
\* Ownership binds only principals: a request of nobody is given any session.
Ask(r, p, i) ==
    /\ asks[r] = Nothing
    /\ \A j \in Ids : inside[j] # r
    /\ p \in {table[i], None}
    /\ asks' = [asks EXCEPT ![r] = <<p, i>>]
    /\ UNCHANGED <<table, inside, most>>

\* Who was given a session enters it, though it was destroyed meanwhile.  GET
\* /sessions enters any, to copy its last query.
Enter(r, i) ==
    /\ inside[i] = None
    /\ asks[r] = Nothing \/ asks[r][2] = i
    /\ \A j \in Ids : inside[j] # r
    /\ inside' = [inside EXCEPT ![i] = r]
    /\ UNCHANGED <<table, asks, most>>

Refuse(r, i) ==
    /\ inside[i] \notin {None, r}
    /\ asks[r][2] = i
    /\ asks' = [asks EXCEPT ![r] = Nothing]
    /\ UNCHANGED <<table, inside, most>>

Leave(r, i) ==
    /\ inside[i] = r
    /\ inside' = [inside EXCEPT ![i] = None]
    /\ asks' = [asks EXCEPT ![r] = Nothing]
    /\ UNCHANGED <<table, most>>

Raise ==
    /\ most' \in Nat /\ most' > most
    /\ UNCHANGED <<table, asks, inside>>

SessionsNext ==
    \/ \E i \in DOMAIN table : Destroy(i)
    \/ \E r \in Requests, p \in Principals \union {None}, i \in DOMAIN table : Ask(r, p, i)
    \/ \E i \in Ids \ DOMAIN table, p \in Principals \union {None} : Create(i, p)
    \/ \E p \in Principals : DestroyAll(p)
    \/ \E r \in Requests, i \in Ids : Enter(r, i) \/ Refuse(r, i) \/ Leave(r, i)
    \/ Raise

SessionsSpec == SessionsInit /\ [][SessionsNext]_sessionVars

=============================================================================
