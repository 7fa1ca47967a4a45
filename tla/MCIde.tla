------------------------------- MODULE MCIde -------------------------------
(* Ide for the model checker: the paths are alike.                         *)
EXTENDS Ide, TLC

Symmetry == Permutations(Paths)
=============================================================================
