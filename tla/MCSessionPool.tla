--------------------------- MODULE MCSessionPool ---------------------------
(* SessionPool for the model checker: threads and sessions are alike.      *)
EXTENDS SessionPool, TLC

Symmetry == Permutations(Threads) \cup Permutations(Sessions)
=============================================================================
