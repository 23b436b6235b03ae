------------------------- MODULE MCQuackTransaction --------------------------
(* Instance of QuackTransaction for TLC.                                   *)
EXTENDS QuackTransaction, TLC

Symmetry == Permutations(Txns)

=============================================================================
