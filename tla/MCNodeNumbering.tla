-------------------------- MODULE MCNodeNumbering --------------------------
(* An instance of NodeNumbering for TLC: all documents of up to four nodes.*)
EXTENDS NodeNumbering, Sequences

(* All documents of up to four nodes: the parent of each node, 0 for the   *)
(* document element, negative for a whitespace-only text node.             *)
Documents ==
  << <<0>>, <<0, 1>>, <<0, -1>>, <<0, 1, 1>>, <<0, -1, 1>>, <<0, 1, -1>>,
     <<0, -1, -1>>, <<0, 1, 2>>, <<0, 1, -2>>, <<0, 1, 1, 1>>,
     <<0, -1, 1, 1>>, <<0, 1, -1, 1>>, <<0, 1, 1, -1>>, <<0, -1, -1, 1>>,
     <<0, -1, 1, -1>>, <<0, 1, -1, -1>>, <<0, -1, -1, -1>>, <<0, 1, 1, 2>>,
     <<0, 1, -1, 2>>, <<0, 1, 1, -2>>, <<0, 1, -1, -2>>, <<0, 1, 1, 3>>,
     <<0, -1, 1, 3>>, <<0, 1, 1, -3>>, <<0, -1, 1, -3>>, <<0, 1, 2, 1>>,
     <<0, 1, -2, 1>>, <<0, 1, 2, -1>>, <<0, 1, -2, -1>>, <<0, 1, 2, 2>>,
     <<0, 1, -2, 2>>, <<0, 1, 2, -2>>, <<0, 1, -2, -2>>, <<0, 1, 2, 3>>,
     <<0, 1, 2, -3>> >>

(* Nodes are numbers, four for each document; some are unused.             *)
Id(k, i) == 4 * (k - 1) + i
SmallNodes == 1 .. 4 * Len(Documents)
SmallRoots == {Id(k, 1) : k \in DOMAIN Documents}
SmallBlank == UNION {{Id(k, i) : i \in {j \in DOMAIN Documents[k] : Documents[k][j] < 0}} :
                       k \in DOMAIN Documents}
ChildrenOf(k, i) ==
  LET parent == Documents[k]
      all    == [j \in DOMAIN parent |-> Id(k, j)]
  IN  SelectSeq(all, LAMBDA n : parent[n - Id(k, 0)] \in {i, -i})
Forest ==
  << >> \o [n \in SmallNodes |-> ChildrenOf(((n - 1) \div 4) + 1, ((n - 1) % 4) + 1)]
SmallChildren == Forest  \* TLC computes Forest once

=============================================================================
