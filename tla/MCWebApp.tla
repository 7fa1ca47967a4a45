------------------------------ MODULE MCWebApp ------------------------------
(* WebApp for the model checker: the requests are alike, and the names.    *)
EXTENDS WebApp, TLC

Symmetry == Permutations(Requests) \cup Permutations(Names)
=============================================================================
