----------------------------- MODULE IndexTree -----------------------------
(* The numbering of the tree that an index is: what DocumentIndexer makes  *)
(* (module NodeNumbering) and NodeStore keeps (module NodeStore).          *)
EXTENDS Integers, Sequences

(* IndexRootElement.LEFT, and the first number after the two root nodes.   *)
RootLeft  == 1
FirstLeft == 2

(* Two nodes by their numbers.  Intervals are disjoint or nested, and when *)
(* n lies in m, the parent of n is m or lies in it.                        *)
Nested(m, n) ==
  /\ m.left = n.left => m = n
  /\ m.left < n.left =>
       m.right < n.left \/ (n.right < m.right /\ m.left <= n.parent)

IsParent(m, n) == m.left = n.parent /\ m.left < n.left /\ n.right < m.right

(* A document as the list of its nodes in document order, with the numbers *)
(* counted from the document's first.  The document element has the first  *)
(* number and the last.                                                    *)
Numbered(t) ==
  /\ t \in Seq([left : Nat, right : Nat, parent : Nat])
  /\ Len(t) > 0
  /\ t[1].left = 0 /\ t[1].right = 2 * Len(t) - 1 /\ t[1].parent = 0
  /\ \A i \in 1 .. Len(t) : t[i].left < t[i].right /\ t[i].right < 2 * Len(t)
  /\ \A i, j \in 1 .. Len(t) : i < j => t[i].left < t[j].left /\ Nested(t[i], t[j])
  /\ \A i \in 2 .. Len(t) : \E j \in 1 .. i - 1 : IsParent(t[j], t[i])
=============================================================================
