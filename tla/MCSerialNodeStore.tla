------------------------- MODULE MCSerialNodeStore -------------------------
(* Small instances of SerialNodeStore for TLC: documents of two elements.  *)
EXTENDS SerialNodeStore

Pair  == << [left |-> 0, right |-> 3, parent |-> 0],
            [left |-> 1, right |-> 2, parent |-> 0] >>
Pairs == {Pair}
=============================================================================
