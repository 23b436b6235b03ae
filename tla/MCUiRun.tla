------------------------------ MODULE MCUiRun ------------------------------
(***************************************************************************)
(* Instance of UiRun for TLC: three requests, of two principals, that run  *)
(* one or two statements or interrupt, with results of up to two chunks    *)
(* and limits on either side of the chunks' ends.                          *)
(***************************************************************************)
EXTENDS UiRun

CONSTANTS r1, r2, r3

MCRequests == {r1, r2, r3}

Run(who, searchPath, n, withParams, count, max, into, intoMax, limited) ==
    [kind |-> "run", principal |-> who, name |-> "main", path |-> searchPath,
     statements |-> n, params |-> withParams, rows |-> count, limit |-> max,
     table |-> into, tableLimit |-> intoMax, timed |-> limited]

Script == Run("alice", NoPath, 2, FALSE, 1, 1, NoTable, 0, TRUE)
Filled == Run("alice", "q", 1, FALSE, 3, 1, "t", 3, FALSE)
Bound  == Run("alice", "q", 1, TRUE, 1, 1, "t", 1, TRUE)
Other  == Run("bob", "p", 1, TRUE, 3, 3, "t", 1, TRUE)
Stop   == [Script EXCEPT !.kind = "interrupt"]

MCJobs == {Script, Filled, Bound, Other, Stop}

MCJobsOf == [r \in MCRequests |->
               CASE r = r1 -> {Script, Bound}
                 [] r = r2 -> {Filled, Other}
                 [] r = r3 -> {Stop}]

=============================================================================
