----------------------------- MODULE BatchSource -----------------------------
(***************************************************************************)
(* What a parallel table source owes the query that reads it, without      *)
(* sessions, requests or queues.  Whichever worker hands on the next       *)
(* chunk, the chunks come once each and under an index that tells at any   *)
(* time where among the others they belong; nothing follows the end or an  *)
(* error; and the end comes after the last chunk, unless the result was    *)
(* lost while the scan read it.                                            *)
(***************************************************************************)
EXTENDS Integers

CONSTANTS Scans, Workers

VARIABLES
    size,   \* the number of chunks of each scan's result
    given,  \* what each worker has handed on: chunks <<s, n>> with an index
    state,  \* "open", "ended" or "failed"
    lost    \* scans whose result went away before its end

sourceVars == <<size, given, state, lost>>

SourceInit ==
    /\ size \in [Scans -> Nat]
    /\ given = [s \in Scans |-> [w \in Workers |-> {}]]
    /\ state = [s \in Scans |-> "open"]
    /\ lost = {}

\* A smaller index means an earlier chunk, and one index belongs to one
\* worker, which itself never goes back.
Fits(s, w, n, i) ==
    \A v \in Workers : \A g \in given[s][v] :
        \/ g.index < i /\ g.chunk[2] < n
        \/ g.index = i /\ g.chunk[2] < n /\ v = w
        \/ g.index > i /\ g.chunk[2] > n /\ v # w

Give(s, w) ==
    /\ state[s] = "open"
    /\ UNCHANGED <<size, state, lost>>
    /\ \E n \in 1..size[s], i \in 0..size[s] :
         /\ given' = [given EXCEPT ![s][w] =
                        @ \union {[chunk |-> <<s, n>>, index |-> i]}]
         /\ Fits(s, w, n, i)

All(s) ==
    \A n \in 1..size[s] : \E w \in Workers : \E g \in given[s][w] :
        g.chunk = <<s, n>>

End(s) ==
    /\ state[s] = "open"
    /\ s \in lost \/ All(s)
    /\ state' = [state EXCEPT ![s] = "ended"]
    /\ UNCHANGED <<size, given, lost>>

Lose(s) ==
    /\ state[s] = "open"
    /\ lost' = lost \union {s}

LoseOnly(s) == Lose(s) /\ UNCHANGED <<size, given, state>>

\* A statement that fails may take another one's result with it.
Fail(s) ==
    /\ state[s] = "open"
    /\ state' = [state EXCEPT ![s] = "failed"]
    /\ lost' = lost \/ \E r \in Scans \ {s} : Lose(r)
    /\ UNCHANGED <<size, given>>

SourceNext ==
    \E s \in Scans :
        \/ End(s) \/ LoseOnly(s) \/ Fail(s)
        \/ \E w \in Workers : Give(s, w)

SourceSpec == SourceInit /\ [][SourceNext]_sourceVars

=============================================================================
