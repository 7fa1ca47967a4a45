----------------------------- MODULE MCFileTree -----------------------------
(* FileTree for the model checker: f and h at the root, g in f, k in g and *)
(* l in h, and one file, a, in f.  Three requests open f and g and delete  *)
(* a, or load f and h at the same time.                                    *)
EXTENDS FileTree

CONSTANTS f, g, h, k, l, a

Tree == [x \in {f, g, h, k, l, a} |->
  CASE x \in {f, h} -> Root
    [] x \in {g, a} -> f
    [] x = k -> g
    [] x = l -> h]
=============================================================================
