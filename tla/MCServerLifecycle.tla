-------------------------- MODULE MCServerLifecycle --------------------------
(* Instance of ServerLifecycle for TLC.                                    *)
EXTENDS ServerLifecycle, TLC

Symmetry == Permutations(Threads) \union Permutations(Uris)

=============================================================================
