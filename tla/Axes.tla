-------------------------------- MODULE Axes --------------------------------
(***************************************************************************)
(* Navigation in the searcher of a session: the axes of XMLIndexNodeInfo   *)
(* and the iterators of saxon/axis, which turn an axis into a range query  *)
(* on the numbers of the context node.                                     *)
(*                                                                         *)
(* The searcher does not change while it is used, so the index is a set of *)
(* nodes chosen at the start.  It may hold the first nodes of a document   *)
(* only: that is what a refresh in the middle of an addition shows (module *)
(* NodeStore).  A walk over the index then enters nodes and iterates axes, *)
(* in any order.                                                           *)
(*                                                                         *)
(* Abstractions.  A text, comment or processing instruction is a leaf;     *)
(* names, values and node tests are left out, and so is the order of the   *)
(* hits of a query.                                                        *)
(***************************************************************************)
EXTENDS IndexTree, FiniteSets

CONSTANTS
  MaxLong,  \* Definitions.MAX_LONG
  Indexes   \* what a searcher may contain: sets of nodes

(* The two nodes above all documents.                                      *)
DocumentNode ==
  [kind |-> "document", left |-> 0, right |-> MaxLong, parent |-> -1,
   docLeft |-> -1, docRight |-> -1, textOnly |-> FALSE]
RootElement ==
  [kind |-> "element", left |-> RootLeft, right |-> MaxLong - 1, parent |-> 0,
   docLeft |-> -1, docRight |-> -1, textOnly |-> FALSE]
Tops == {DocumentNode, RootElement}

(* A node of a document.  textOnly says that the element's value is not    *)
(* empty, which takes a single child that is a text node.                  *)
NodeRecord ==
  [kind : {"element", "text", "comment"}, left : Nat, right : Nat, parent : Nat,
   docLeft : Nat, docRight : Nat, textOnly : BOOLEAN]

Leaf(n) == n.right = n.left + 1

(* The numbers of a document: what NodeNumbering establishes, and what     *)
(* NodeStore keeps true also of the first nodes of a document.             *)
NodeInDocument(ix, n) ==
  /\ FirstLeft <= n.docLeft
  /\ n.docLeft <= n.left /\ n.left < n.right
  /\ n.right <= n.docRight /\ n.docRight < MaxLong - 1
  /\ n.kind # "element" => Leaf(n) /\ ~n.textOnly
  /\ IF n.parent = RootLeft
       THEN n.kind = "element" /\ n.left = n.docLeft /\ n.right = n.docRight
       ELSE \E p \in ix : /\ p.kind = "element" /\ IsParent(p, n)
                          /\ p.docLeft = n.docLeft /\ p.docRight = n.docRight
                          /\ p.textOnly => n.kind = "text" /\ n.left = p.left + 1
                                           /\ n.right = p.right - 1

DocumentsApart(m, n) ==
  /\ m.docLeft = n.docLeft => m.docRight = n.docRight
  /\ m.docLeft < n.docLeft => m.docRight < n.docLeft

WellFormed(ix) ==
  /\ IsFiniteSet(ix)
  /\ Tops \subseteq ix
  /\ ix \ Tops \subseteq NodeRecord
  /\ \A n \in ix \ Tops : NodeInDocument(ix, n)
  /\ \A m, n \in ix \ Tops : Nested(m, n) /\ DocumentsApart(m, n)

ASSUME MaxLongAssumption == MaxLong \in Nat /\ MaxLong > 3
ASSUME IndexesAssumption == \A ix \in Indexes : WellFormed(ix)

VARIABLES
  index,     \* the nodes of the searcher
  chain,     \* the context node, then the parents it has cached
  iterator   \* an axis iterator over the context node, or None

vars == <<index, chain, iterator>>

None    == [axis |-> "none"]
Context == chain[1]

-----------------------------------------------------------------------------
(* The range queries.                                                      *)
AncestorQuery(n, includeSelf) ==
  {m \in index : /\ m.left <= (IF includeSelf THEN n.left ELSE n.left - 1)
                 /\ m.right >= (IF includeSelf THEN n.right ELSE n.right + 1)}

DescendantQuery(n, includeSelf) ==
  {m \in index : /\ m.left >= (IF includeSelf THEN n.left ELSE n.left + 1)
                 /\ m.left <= (IF includeSelf THEN n.right ELSE n.right - 1)}

(* Slip: no bound by the end of the document.                              *)
FollowingQuery_unbounded(n) == {m \in index : m.left >= n.right}

FollowingQuery(n) == {m \in index : m.left >= n.right /\ m.right <= n.docRight}

(* Slip: the left numbers are compared.                                    *)
PrecedingQuery_byLeft(n) ==
  {m \in index : m.left < n.left /\ m.left >= n.docLeft}

PrecedingQuery(n) == {m \in index : m.right <= n.left /\ m.left >= n.docLeft}

ChildQuery(n) == {m \in index : m.parent = n.left}

FollowingSiblingQuery(n) ==
  {m \in index : m.parent = n.parent /\ m.left >= n.left + 1}

PrecedingSiblingQuery(n) ==
  {m \in index : m.parent = n.parent /\ m.left <= n.left - 1}

Query(n, axis) ==
  CASE axis = "ancestor"           -> AncestorQuery(n, FALSE)
    [] axis = "ancestor-or-self"   -> AncestorQuery(n, TRUE)
    [] axis = "child"              -> ChildQuery(n)
    [] axis = "descendant"         -> DescendantQuery(n, FALSE)
    [] axis = "descendant-or-self" -> DescendantQuery(n, TRUE)
    [] axis = "following"          -> FollowingQuery(n)
    [] axis = "following-sibling"  -> FollowingSiblingQuery(n)
    [] axis = "preceding"          -> PrecedingQuery(n)
    [] axis = "preceding-sibling"  -> PrecedingSiblingQuery(n)

AllAxes ==
  {"ancestor", "ancestor-or-self", "child", "descendant", "descendant-or-self",
   "following", "following-sibling", "preceding", "preceding-sibling"}

(* The axes of a node for which iterateAxis makes an iterator over the     *)
(* hits of a query; the others are empty or a single node.                 *)
SearchAxes(n) ==
  {"following", "preceding"}
    \cup (IF n.kind = "document" THEN {}
          ELSE {"ancestor", "ancestor-or-self", "following-sibling", "preceding-sibling"})
    \cup (IF n.kind \in {"element", "document"}
            THEN {"descendant", "descendant-or-self"} ELSE {})
    \cup (IF n.kind = "document" \/ (n.kind = "element" /\ ~n.textOnly)
            THEN {"child"} ELSE {})

(* getHits: the iterators of the child and descendant axes do not search   *)
(* below an element without children, also when it is to be included.      *)
Unsearched(n, axis) ==
  axis \in {"child", "descendant", "descendant-or-self"} /\ Leaf(n)

Hits(n, axis) == IF Unsearched(n, axis) THEN {} ELSE Query(n, axis)

(* Slip: the numbers of the element itself.                                *)
TextOf_elementsNumbers(e) ==
  [kind |-> "text", left |-> e.left, right |-> e.right, parent |-> e.left,
   docLeft |-> e.docLeft, docRight |-> -1, textOnly |-> FALSE]

(* The child of an element whose value is stored with it: a text node made *)
(* from the element's numbers.                                             *)
TextOf(e) ==
  [kind |-> "text", left |-> e.left + 1, right |-> e.right - 1, parent |-> e.left,
   docLeft |-> e.docLeft, docRight |-> -1, textOnly |-> FALSE]

(* Slip: a sibling is given the context node for its parent.               *)
Found_siblingsParent(m, axis) ==
  CASE axis \in {"child", "following-sibling", "preceding-sibling"} -> <<m>> \o chain
    [] OTHER -> <<m>>

(* getXMLIndexNodeInfo: a child is given its parent, a sibling the cached  *)
(* parent of the context node.                                             *)
Found(m, axis) ==
  CASE axis = "child" -> <<m>> \o chain
    [] axis \in {"following-sibling", "preceding-sibling"} -> <<m>> \o Tail(chain)
    [] OTHER -> <<m>>

-----------------------------------------------------------------------------
Iterate(axis) ==
  /\ iterator = None
  /\ axis \in SearchAxes(Context)
  /\ iterator' = [axis |-> axis, returned |-> 0, done |-> FALSE, length |-> -1]
  /\ UNCHANGED <<index, chain>>

(* next() returns one more hit.                                            *)
NextHit ==
  /\ iterator # None
  /\ iterator.returned < Cardinality(Hits(Context, iterator.axis))
  /\ iterator' = [iterator EXCEPT !.returned = @ + 1]
  /\ UNCHANGED <<index, chain>>

(* next() returns null.                                                    *)
NextNull ==
  /\ iterator # None
  /\ iterator.returned = Cardinality(Hits(Context, iterator.axis))
  /\ iterator' = [iterator EXCEPT !.done = TRUE, !.length = 0]
  /\ UNCHANGED <<index, chain>>

(* Slip: what is still to come.                                            *)
Length_remaining ==
  IF iterator.length > -1 THEN iterator.length
  ELSE IF iterator.returned > 0
    THEN Cardinality(Hits(Context, iterator.axis)) - iterator.returned
  ELSE Cardinality(Query(Context, iterator.axis))

(* What getLength() returns: the number of hits of the search made by the  *)
(* first next(), or of a search for this purpose.                          *)
Length ==
  IF iterator.length > -1 THEN iterator.length
  ELSE IF iterator.returned > 0 THEN Cardinality(Hits(Context, iterator.axis))
  ELSE Cardinality(Query(Context, iterator.axis))

(* getLength() before next() keeps the number.                             *)
GetLength ==
  /\ iterator # None
  /\ iterator.returned = 0
  /\ iterator' = [iterator EXCEPT !.length = Length]
  /\ UNCHANGED <<index, chain>>

(* The walk goes on at a node that the iterator returned.                  *)
Enter ==
  /\ iterator # None
  /\ iterator.returned > 0
  /\ \E m \in Hits(Context, iterator.axis) : chain' = Found(m, iterator.axis)
  /\ iterator' = None
  /\ UNCHANGED index

(* The child axis of an element whose value is not empty.                  *)
EnterText ==
  /\ iterator = None
  /\ Context.kind = "element" /\ Context.textOnly
  /\ chain' = << TextOf(Context) >>
  /\ UNCHANGED <<index, iterator>>

(* getParent: the cached parent, the document node above a document        *)
(* element, or a search for the left number.  The result is cached.        *)
GetParent ==
  /\ iterator = None
  /\ Context.kind # "document"
  /\ Len(chain) = 1
  /\ \E p \in index :
       /\ IF Context.parent = RootLeft THEN p = DocumentNode ELSE p.left = Context.parent
       /\ chain' = << Context, p >>
  /\ UNCHANGED <<index, iterator>>

EnterParent ==
  /\ iterator = None
  /\ Len(chain) > 1
  /\ chain' = Tail(chain)
  /\ UNCHANGED <<index, iterator>>

Init ==
  /\ index \in Indexes
  /\ chain = << DocumentNode >>
  /\ iterator = None

Next ==
  \/ \E axis \in AllAxes : Iterate(axis)
  \/ NextHit
  \/ NextNull
  \/ GetLength
  \/ Enter
  \/ EnterText
  \/ GetParent
  \/ EnterParent

Spec == Init /\ [][Next]_vars

-----------------------------------------------------------------------------
(* iterateAxis as a set, for the axes that relate a node to every other.   *)
Axis(n, axis) ==
  IF axis = "self" THEN {n}
  ELSE IF axis \in SearchAxes(n) THEN Hits(n, axis) ELSE {}

PartitionAxes == {"self", "ancestor", "descendant", "following", "preceding"}

(* Slip: a sibling before the node is told by the right numbers.           *)
ComparePosition_siblingsSwapped(m, n) ==
  IF m.left = n.left THEN "self"
  ELSE IF m.left = n.parent THEN "ancestor"
  ELSE IF m.parent = n.left THEN "descendant"
  ELSE IF m.parent = n.parent
    THEN IF m.right < n.left THEN "following" ELSE "preceding"
  ELSE IF m.left < n.left /\ m.right > n.right THEN "ancestor"
  ELSE IF m.left > n.left /\ m.right < n.right THEN "descendant"
  ELSE IF m.left < n.left THEN "preceding" ELSE "following"

(* comparePosition: what node m is to node n.                              *)
ComparePosition(m, n) ==
  IF m.left = n.left THEN "self"
  ELSE IF m.left = n.parent THEN "ancestor"
  ELSE IF m.parent = n.left THEN "descendant"
  ELSE IF m.parent = n.parent
    THEN IF m.left < n.left THEN "preceding" ELSE "following"
  ELSE IF m.left < n.left /\ m.right > n.right THEN "ancestor"
  ELSE IF m.left > n.left /\ m.right < n.right THEN "descendant"
  ELSE IF m.left < n.left THEN "preceding" ELSE "following"

-----------------------------------------------------------------------------
Stored        == index \ Tops
InDocument(n) == {m \in Stored : m.docLeft = n.docLeft}

(* The state is well typed: the walk is at a node of the index, or at the  *)
(* text that is stored with an element.                                    *)
Texts      == {TextOf(e) : e \in {n \in index : n.textOnly}}
IteratorIn == [axis : AllAxes, returned : Nat, done : BOOLEAN, length : Nat \cup {-1}]

TypeOK ==
  /\ Tops \subseteq index /\ index \ Tops \subseteq NodeRecord
  /\ chain \in Seq(index \cup Texts) /\ chain # << >>
  /\ \A i \in 2 .. Len(chain) : chain[i] \in index
  /\ iterator \in IteratorIn \cup {None}
  /\ iterator # None => iterator.axis \in SearchAxes(Context)

(* For every node of a document, each node of that document, as far as it  *)
(* is in the searcher, is on exactly one of the axes self, ancestor,       *)
(* descendant, following and preceding; and these axes lead to no other    *)
(* document.  Each of them is a range query of its own (saxon/axis).       *)
AxesPartitionDocument ==
  Context \in Stored =>
    /\ \A m \in InDocument(Context) :
         \E a \in PartitionAxes :
           /\ m \in Axis(Context, a)
           /\ \A b \in PartitionAxes \ {a} : m \notin Axis(Context, b)
    /\ \A a \in PartitionAxes : Axis(Context, a) \subseteq InDocument(Context) \cup Tops

(* comparePosition, which decides by cases and looks at the parent numbers *)
(* first, says the same as the axes do by their ranges, and the opposite   *)
(* when the nodes are swapped: also for a node of another document, and    *)
(* for the text that is stored with its element.                           *)
Opposite ==
  [self |-> "self", ancestor |-> "descendant", descendant |-> "ancestor",
   preceding |-> "following", following |-> "preceding"]

ComparisonAgrees ==
  /\ \A m \in index :
       ComparePosition(Context, m) = Opposite[ComparePosition(m, Context)]
  /\ Context \in Stored =>
       \A m \in InDocument(Context) : m \in Axis(Context, ComparePosition(m, Context))

(* However the walk came to a node, the parents it has cached are the ones *)
(* its parent number names, but for a document element: by the child axis  *)
(* its parent is the root element, by getParent the document node          *)
(* (XMLIndexNodeInfo.getParent tests the same condition twice).            *)
CachedParent ==
  \A i \in 1 .. Len(chain) - 1 :
    \/ chain[i + 1].left = chain[i].parent
    \/ chain[i].parent = RootLeft /\ chain[i + 1] = DocumentNode

(* The text that is made from an element stands for the text node in the   *)
(* index: every axis gives the same nodes for both.  Only following is     *)
(* empty, as that text has no docRight.                                    *)
TextStandsForStored ==
  Context \notin index =>
    \A m \in InDocument(Context) : m.parent = Context.parent =>
      /\ m.kind = "text" /\ m.left = Context.left
      /\ \A a \in AllAxes \ {"following"} : Axis(Context, a) = Axis(m, a)
      /\ Axis(Context, "following") = {}

(* Until next() has returned null, getLength tells how many nodes next()   *)
(* returns in all, whenever it is called.  It does not where an element    *)
(* without children should have included itself.                           *)
LengthTells ==
  iterator # None /\ ~iterator.done =>
    \/ Length = Cardinality(Hits(Context, iterator.axis))
    \/ iterator.axis = "descendant-or-self" /\ Leaf(Context)

(* The tree, from the parent numbers alone: the pairs of a node and one    *)
(* below it.  The first is in every set that has the parent of the second  *)
(* and the parents of its own members.                                     *)
Parent(n) == {m \in index : m.left = n.parent}
Tree ==
  LET Rising == {S \in SUBSET index : \A m \in S : Parent(m) \subseteq S}
  IN  {e \in index \X index : \A S \in Rising : Parent(e[2]) \subseteq S => e[1] \in S}

(* The axes are those of XPath, document order being that of the left      *)
(* numbers, for every node of the index that the walk comes to.  Following *)
(* and preceding end with the document; the siblings of a document element *)
(* are the other document elements.                                        *)
AxesFollowTree ==
  iterator = None /\ Context \in Stored =>
    LET n            == Context
        tree         == Tree
        Ancestors(m) == {a \in index : <<a, m>> \in tree}
        Descendants  == {m \in index : <<n, m>> \in tree}
        Siblings     == {m \in index : Ancestors(m) = Ancestors(n)}
    IN  /\ Axis(n, "ancestor") = Ancestors(n)
        /\ Axis(n, "ancestor-or-self") = Ancestors(n) \cup {n}
        /\ Axis(n, "descendant") = Descendants
        /\ Axis(n, "descendant-or-self") \in
             {Descendants \cup {n}} \cup (IF Leaf(n) THEN {{}} ELSE {})
        /\ Axis(n, "following") =
             {m \in InDocument(n) \ Descendants : m.left > n.left}
        /\ Axis(n, "preceding") =
             {m \in InDocument(n) \ Ancestors(n) : m.left < n.left}
        /\ Axis(n, "following-sibling") = {m \in Siblings : m.left > n.left}
        /\ Axis(n, "preceding-sibling") = {m \in Siblings : m.left < n.left}
        /\ ~n.textOnly /\ n.kind = "element" =>
             Axis(n, "child") =
               {m \in Descendants : Ancestors(m) = Ancestors(n) \cup {n}}
=============================================================================
