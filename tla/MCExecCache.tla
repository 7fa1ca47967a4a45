---------------------------- MODULE MCExecCache ----------------------------
(* ExecCache for the model checker: the threads are alike.                 *)
EXTENDS ExecCache, TLC

Symmetry == Permutations(Threads)
=============================================================================
