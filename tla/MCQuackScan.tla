---------------------------- MODULE MCQuackScan ----------------------------
(* Instance of QuackScan for TLC.                                          *)
EXTENDS QuackScan, TLC

CONSTANTS s1, s2

\* One result ends with a full batch, the other inside its third.
MCSizes == s1 :> {2} @@ s2 :> {5}

=============================================================================
