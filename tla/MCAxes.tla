------------------------------- MODULE MCAxes -------------------------------
(* An instance of Axes for TLC: one document of up to four nodes and the   *)
(* first nodes of another.                                                 *)
EXTENDS Axes, Sequences

(* Documents: for each node its parent, and its kind.  "blank" is an       *)
(* element whose only child is a whitespace text, which is not numbered.   *)
Parents ==
  {<<0>>, <<0, 1>>, <<0, 1, 1>>, <<0, 1, 2>>, <<0, 1, 1, 1>>,
   <<0, 1, 1, 3>>, <<0, 1, 2, 1>>, <<0, 1, 2, 2>>, <<0, 1, 2, 3>>}
Inner(p)  == {p[i] : i \in DOMAIN p}
Kinds(p)  ==
  {k \in [DOMAIN p -> {"element", "blank", "text", "comment"}] :
     /\ k[1] \in {"element", "blank"}
     /\ \A i \in DOMAIN p : i \in Inner(p) => k[i] = "element"}

(* The numbers of the nodes of a document whose first number is base.      *)
Below(p, i)  == {j \in DOMAIN p : \E d \in 0 .. 3 :
                   LET up[k \in 0 .. 3] == IF k = 0 THEN j
                                           ELSE IF up[k - 1] = 0 THEN 0 ELSE p[up[k - 1]]
                   IN  up[d] = i}
Lft(p, i) ==
  LET before == {j \in 1 .. i - 1 : i \notin Below(p, j)}
  IN  2 * Cardinality(before) + (i - 1 - Cardinality(before))
Rgt(p, i) == Lft(p, i) + 2 * Cardinality(Below(p, i)) - 1

NodesOf(p, k, base, size) ==
  {[kind |-> IF k[i] = "blank" THEN "element" ELSE k[i],
    left |-> base + Lft(p, i), right |-> base + Rgt(p, i),
    parent |-> IF i = 1 THEN RootLeft ELSE base + Lft(p, p[i]),
    docLeft |-> base, docRight |-> base + 2 * Len(p) - 1,
    textOnly |-> k[i] = "blank" \/ \E c \in DOMAIN p :
                   {j \in DOMAIN p : p[j] = i} = {c} /\ k[c] = "text"] : i \in 1 .. size}

SmallMaxLong == 40

(* The second document starts where the first one ends.                    *)
Second == [parents |-> <<0, 1, 2>>, kinds |-> <<"element", "element", "text">>]
Loaded(p) == IF Len(p) = 4 THEN {2} ELSE 0 .. 3
SmallIndexes ==
  {Tops \cup NodesOf(p, k, FirstLeft, Len(p))
        \cup NodesOf(Second.parents, Second.kinds, FirstLeft + 2 * Len(p), size) :
     <<p, k, size>> \in UNION {{<<p, k, size>> : k \in Kinds(p), size \in Loaded(p)} :
                               p \in Parents}}
=============================================================================
