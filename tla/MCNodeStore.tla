---------------------------- MODULE MCNodeStore ----------------------------
(* Small instances of NodeStore for TLC: documents of two elements.        *)
EXTENDS NodeStore, TLC

Pair  == << [left |-> 0, right |-> 3, parent |-> 0],
            [left |-> 1, right |-> 2, parent |-> 0] >>
Pairs == {Pair}

Symmetry == Permutations(Uris) \cup Permutations(Sessions)
=============================================================================
