---------------------------- MODULE MCNameStore ----------------------------
(* Small instances of NameStore for TLC: the table of names, and the table *)
(* of prefixes.                                                            *)
EXTENDS NameStore, TLC

N(uri, local) == [uri |-> uri, local |-> local]
RootName      == << N("", "root") >>

(* Two names of elements, whose mixtures are names too, and the default    *)
(* namespace; it is read back as the empty name.                           *)
SomeNames == {N("a", "x"), N("b", "y"), N("", "_")}
ReadName  == [n \in Name |-> IF n = N("", "_") THEN N("", "") ELSE n]

NoNames    == << >>
Prefixes   == {N("", "p"), N("", "q"), N("", "r")}
ReadPrefix == [n \in Name |-> n]

Symmetry == Permutations(Threads)
=============================================================================
