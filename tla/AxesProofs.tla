----------------------------- MODULE AxesProofs -----------------------------
(***************************************************************************)
(* Proofs about Axes, for every set of nodes that is numbered as           *)
(* NodeNumbering numbers them, and every walk over it.                     *)
(***************************************************************************)
EXTENDS Axes, FiniteSetTheorems, SequenceTheorems, WellFoundedInduction, TLAPS

-----------------------------------------------------------------------------
(* Nodes and their numbers.                                                *)
Numbers(n) ==
  /\ n.left \in Int /\ n.right \in Int /\ n.parent \in Int
  /\ n.docLeft \in Int /\ n.docRight \in Int
  /\ n.textOnly \in BOOLEAN

(* Every node of an index has integer numbers.                             *)
LEMMA IndexNumbers ==
  ASSUME TypeOK, NEW n \in index
  PROVE  Numbers(n) /\ n.kind \in {"document", "element", "text", "comment"}
<1>1. CASE n = DocumentNode
  BY <1>1, MaxLongAssumption DEF Numbers, DocumentNode
<1>2. CASE n = RootElement
  BY <1>2, MaxLongAssumption DEF Numbers, RootElement, RootLeft
<1>3. CASE n \in NodeRecord
  BY <1>3 DEF Numbers, NodeRecord
<1> QED
  BY <1>1, <1>2, <1>3 DEF TypeOK, Tops

(* So has the text that is stored with an element.                         *)
LEMMA TextNumbers ==
  ASSUME TypeOK, NEW n \in Texts
  PROVE  Numbers(n) /\ n.kind = "text" /\ n \notin index
<1>1. PICK e \in index : n = TextOf(e)
  BY DEF Texts
<1>2. n.docRight = -1 /\ n.kind = "text"
  BY <1>1 DEF TextOf
<1>3. n \notin index
  BY <1>2, MaxLongAssumption DEF TypeOK, Tops, DocumentNode, RootElement, NodeRecord
<1> QED
  BY <1>1, <1>2, <1>3, IndexNumbers DEF Numbers, TextOf

(* The context node is one of the two.                                     *)
LEMMA ContextNode ==
  ASSUME TypeOK
  PROVE  /\ Context \in index \cup Texts
         /\ chain \in Seq(index \cup Texts)
         /\ Len(chain) \in Nat /\ Len(chain) >= 1
         /\ Numbers(Context)
         /\ Context.kind \in {"document", "element", "text", "comment"}
<1>1. chain \in Seq(index \cup Texts) /\ chain # << >>
  BY DEF TypeOK
<1>2. Len(chain) \in Nat /\ Len(chain) >= 1 /\ Context \in index \cup Texts
  BY <1>1 DEF Context
<1> QED
  BY <1>1, <1>2, IndexNumbers, TextNumbers

(* Search axes are axes, and a search gives nodes of the index.            *)
LEMMA SearchGivesNodes ==
  ASSUME NEW n, NEW a \in AllAxes
  PROVE  Query(n, a) \subseteq index /\ Hits(n, a) \subseteq index
<1>1. Query(n, a) \subseteq index
  BY DEF AllAxes, Query, AncestorQuery, ChildQuery, DescendantQuery, FollowingQuery,
         FollowingSiblingQuery, PrecedingQuery, PrecedingSiblingQuery
<1> QED
  BY <1>1 DEF Hits

LEMMA SearchAxesAreAxes ==
  ASSUME NEW n PROVE SearchAxes(n) \subseteq AllAxes
BY DEF SearchAxes, AllAxes

(* The index stays one of those that NodeNumbering makes.                  *)
LEMMA IndexIsWellFormed ==
  ASSUME index \in Indexes PROVE WellFormed(index)
BY IndexesAssumption

(* The number of hits of a query is a number.                              *)
LEMMA CountedHits ==
  ASSUME index \in Indexes, NEW n, NEW a \in AllAxes
  PROVE  Cardinality(Query(n, a)) \in Nat /\ Cardinality(Hits(n, a)) \in Nat
BY IndexIsWellFormed, SearchGivesNodes, FS_Subset, FS_CardinalityType DEF WellFormed

-----------------------------------------------------------------------------
(* The invariant.  The length that an iterator keeps is the number of hits *)
(* of its query, until it has none left.                                   *)
LengthKept ==
  iterator # None /\ ~iterator.done =>
    iterator.length \in {-1, Cardinality(Query(Context, iterator.axis))}

IInv ==
  /\ index \in Indexes
  /\ TypeOK
  /\ CachedParent
  /\ LengthKept

LEMMA Prepended ==
  ASSUME NEW S, NEW m \in S, NEW t \in Seq(S), NEW c, c = <<m>> \o t
  PROVE  /\ c \in Seq(S) /\ c # << >>
         /\ Len(c) = Len(t) + 1
         /\ c[1] = m
         /\ \A i \in 2 .. Len(c) : c[i] = t[i - 1]
OBVIOUS

(* The chain after a step to a child, to a sibling, to another node, or to *)
(* the cached parent.                                                      *)
LEMMA LongerChain ==
  ASSUME IInv, NEW m \in index, Context \in index, m.parent = Context.left,
         NEW c, c = <<m>> \o chain
  PROVE  /\ c \in Seq(index \cup Texts) /\ c # << >>
         /\ \A i \in 2 .. Len(c) : c[i] \in index
         /\ \A i \in 1 .. Len(c) - 1 :
              \/ c[i + 1].left = c[i].parent
              \/ c[i].parent = RootLeft /\ c[i + 1] = DocumentNode
<1>1. chain \in Seq(index \cup Texts) /\ Len(chain) \in Nat /\ Len(chain) >= 1
  BY ContextNode DEF IInv
<1>2. /\ Len(c) = Len(chain) + 1 /\ c[1] = m
      /\ c \in Seq(index \cup Texts) /\ c # << >>
      /\ \A i \in 2 .. Len(c) : c[i] = chain[i - 1]
  BY <1>1
<1>3. \A i \in 1 .. Len(chain) : chain[i] \in index
  BY <1>1 DEF IInv, TypeOK, Context
<1>4. \A i \in 1 .. Len(chain) - 1 :
        \/ chain[i + 1].left = chain[i].parent
        \/ chain[i].parent = RootLeft /\ chain[i + 1] = DocumentNode
  BY DEF IInv, CachedParent
<1>5. ASSUME NEW i \in 1 .. Len(c) - 1
      PROVE  \/ c[i + 1].left = c[i].parent
             \/ c[i].parent = RootLeft /\ c[i + 1] = DocumentNode
  <2>1. CASE i = 1
    BY <1>1, <1>2, <2>1 DEF Context
  <2>2. CASE i # 1
    <3>1. i - 1 \in 1 .. Len(chain) - 1 /\ (i - 1) + 1 = i
      BY <1>1, <1>2, <2>2
    <3>2. c[i] = chain[i - 1] /\ c[i + 1] = chain[i]
      BY <1>1, <1>2, <2>2
    <3> QED
      BY <3>1, <3>2, <1>4
  <2> QED
    BY <2>1, <2>2
<1>6. \A i \in 2 .. Len(c) : c[i] \in index
  BY <1>1, <1>2, <1>3
<1> QED
  BY <1>2, <1>5, <1>6

LEMMA SiblingChain ==
  ASSUME IInv, NEW m \in index, m.parent = Context.parent,
         NEW t, t = Tail(chain), NEW c, c = <<m>> \o t
  PROVE  /\ c \in Seq(index \cup Texts) /\ c # << >>
         /\ \A i \in 2 .. Len(c) : c[i] \in index
         /\ \A i \in 1 .. Len(c) - 1 :
              \/ c[i + 1].left = c[i].parent
              \/ c[i].parent = RootLeft /\ c[i + 1] = DocumentNode
<1>1. chain \in Seq(index \cup Texts) /\ Len(chain) \in Nat /\ Len(chain) >= 1
  BY ContextNode DEF IInv
<1>2. /\ Len(c) = Len(chain) /\ c[1] = m
      /\ c \in Seq(index \cup Texts) /\ c # << >>
      /\ \A i \in 2 .. Len(c) : c[i] = chain[i]
  <2>1. /\ Tail(chain) \in Seq(index \cup Texts)
        /\ Len(Tail(chain)) = Len(chain) - 1
        /\ \A i \in 1 .. Len(chain) - 1 : Tail(chain)[i] = chain[i + 1]
    BY <1>1
  <2>2. /\ t \in Seq(index \cup Texts) /\ Len(t) = Len(chain) - 1
        /\ \A i \in 1 .. Len(chain) - 1 : t[i] = chain[i + 1]
    BY <2>1
  <2>3. /\ Len(c) = Len(t) + 1 /\ c[1] = m
        /\ c \in Seq(index \cup Texts) /\ c # << >>
        /\ \A i \in 2 .. Len(c) : c[i] = t[i - 1]
    BY <2>2, Prepended
  <2>4. ASSUME NEW i \in 2 .. Len(c) PROVE c[i] = chain[i]
    <3>1. i - 1 \in 1 .. Len(chain) - 1 /\ (i - 1) + 1 = i
      BY <1>1, <2>2, <2>3
    <3> QED
      BY <3>1, <2>2, <2>3
  <2> QED
    BY <1>1, <2>2, <2>3, <2>4
<1>3. \A i \in 1 .. Len(chain) - 1 :
        \/ chain[i + 1].left = chain[i].parent
        \/ chain[i].parent = RootLeft /\ chain[i + 1] = DocumentNode
  BY DEF IInv, CachedParent
<1>4. ASSUME NEW i \in 1 .. Len(c) - 1
      PROVE  \/ c[i + 1].left = c[i].parent
             \/ c[i].parent = RootLeft /\ c[i + 1] = DocumentNode
  <2>1. c[i + 1] = chain[i + 1] /\ c[i].parent = chain[i].parent
    BY <1>1, <1>2 DEF Context
  <2> QED
    BY <1>2, <1>3, <2>1
<1>5. \A i \in 2 .. Len(c) : c[i] \in index
  BY <1>1, <1>2 DEF IInv, TypeOK
<1> QED
  BY <1>2, <1>4, <1>5

LEMMA ParentChain ==
  ASSUME IInv, Len(chain) > 1
  PROVE  /\ Tail(chain) \in Seq(index \cup Texts) /\ Tail(chain) # << >>
         /\ \A i \in 2 .. Len(Tail(chain)) : Tail(chain)[i] \in index
         /\ \A i \in 1 .. Len(Tail(chain)) - 1 :
              \/ Tail(chain)[i + 1].left = Tail(chain)[i].parent
              \/ /\ Tail(chain)[i].parent = RootLeft
                 /\ Tail(chain)[i + 1] = DocumentNode
<1>1. chain \in Seq(index \cup Texts) /\ Len(chain) \in Nat
  BY ContextNode DEF IInv
<1>2. /\ Tail(chain) \in Seq(index \cup Texts)
      /\ Len(Tail(chain)) = Len(chain) - 1
      /\ \A i \in 1 .. Len(chain) - 1 : Tail(chain)[i] = chain[i + 1]
  BY <1>1
<1>3. Tail(chain) # << >>
  BY <1>1, <1>2
<1>4. \A i \in 1 .. Len(chain) - 1 :
        \/ chain[i + 1].left = chain[i].parent
        \/ chain[i].parent = RootLeft /\ chain[i + 1] = DocumentNode
  BY DEF IInv, CachedParent
<1>5. \A i \in 2 .. Len(chain) : chain[i] \in index
  BY DEF IInv, TypeOK
<1> QED
  BY <1>1, <1>2, <1>3, <1>4, <1>5

-----------------------------------------------------------------------------
(* The invariant holds at first.                                           *)
LEMMA InitIInv == Init => IInv
<1> SUFFICES ASSUME Init PROVE IInv
  OBVIOUS
<1>1. index \in Indexes /\ WellFormed(index)
  BY IndexIsWellFormed DEF Init
<1>2. Tops \subseteq index /\ index \ Tops \subseteq NodeRecord
  BY <1>1 DEF WellFormed
<1>3. DocumentNode \in index \cup Texts
  BY <1>2 DEF Tops
<1>4. chain \in Seq(index \cup Texts) /\ Len(chain) = 1 /\ chain # << >>
  BY <1>3 DEF Init
<1>5. TypeOK
  BY <1>2, <1>4 DEF TypeOK, Init
<1>6. CachedParent
  BY <1>4 DEF CachedParent
<1> QED
  BY <1>1, <1>5, <1>6 DEF IInv, LengthKept, Init

(* The walk stays at its node.                                             *)
LEMMA SamePlace ==
  ASSUME IInv, UNCHANGED <<index, chain>>,
         iterator' \in IteratorIn \cup {None},
         iterator' # None => iterator'.axis \in SearchAxes(Context),
         LengthKept'
  PROVE  IInv'
<1>1. Context' = Context /\ Texts' = Texts
  BY DEF Context, Texts
<1>2. TypeOK'
  BY <1>1 DEF IInv, TypeOK
<1>3. CachedParent'
  BY DEF IInv, CachedParent
<1> QED
  BY <1>2, <1>3 DEF IInv

(* The walk goes to another node, and has no iterator then.                *)
LEMMA OtherPlace ==
  ASSUME IInv, UNCHANGED index, iterator' = None,
         chain' \in Seq(index \cup Texts), chain' # << >>,
         \A i \in 2 .. Len(chain') : chain'[i] \in index,
         \A i \in 1 .. Len(chain') - 1 :
           \/ chain'[i + 1].left = chain'[i].parent
           \/ chain'[i].parent = RootLeft /\ chain'[i + 1] = DocumentNode
  PROVE  IInv'
<1>1. Texts' = Texts
  BY DEF Texts
<1>2. TypeOK'
  BY <1>1 DEF IInv, TypeOK
<1>3. CachedParent'
  BY DEF CachedParent
<1>4. LengthKept'
  BY DEF LengthKept
<1> QED
  BY <1>2, <1>3, <1>4 DEF IInv

LEMMA IterateKeeps == ASSUME IInv, NEW axis \in AllAxes, Iterate(axis) PROVE IInv'
<1>1. iterator' \in IteratorIn
  BY DEF Iterate, IteratorIn
<1>2. iterator'.axis \in SearchAxes(Context) /\ iterator'.length = -1
  BY DEF Iterate
<1>3. LengthKept'
  BY <1>2 DEF LengthKept
<1> QED
  BY <1>1, <1>2, <1>3, SamePlace DEF Iterate

(* An iterator that is there is a record.                                  *)
LEMMA IteratorType ==
  ASSUME IInv, iterator # None
  PROVE  iterator \in IteratorIn /\ iterator.axis \in SearchAxes(Context)
         /\ iterator.axis \in AllAxes
BY SearchAxesAreAxes DEF IInv, TypeOK

LEMMA NextHitKeeps == ASSUME IInv, NextHit PROVE IInv'
<1>1. iterator \in IteratorIn /\ iterator.axis \in SearchAxes(Context)
  BY IteratorType DEF NextHit
<1>2. /\ iterator' \in IteratorIn
      /\ iterator'.axis = iterator.axis /\ iterator'.length = iterator.length
      /\ iterator'.done = iterator.done
  BY <1>1 DEF NextHit, IteratorIn
<1>3. Context' = Context /\ \A a : Query(Context, a)' = Query(Context, a)
  BY DEF NextHit, Context, Query, AncestorQuery, ChildQuery, DescendantQuery,
         FollowingQuery, FollowingSiblingQuery, PrecedingQuery, PrecedingSiblingQuery
<1>4. LengthKept'
  BY <1>2, <1>3 DEF LengthKept, IInv, NextHit
<1> QED
  BY <1>1, <1>2, <1>4, SamePlace DEF NextHit

LEMMA NextNullKeeps == ASSUME IInv, NextNull PROVE IInv'
<1>1. iterator \in IteratorIn /\ iterator.axis \in SearchAxes(Context)
  BY IteratorType DEF NextNull
<1>2. iterator' \in IteratorIn /\ iterator'.axis = iterator.axis /\ iterator'.done
  BY <1>1 DEF NextNull, IteratorIn
<1>3. LengthKept'
  BY <1>2 DEF LengthKept
<1> QED
  BY <1>1, <1>2, <1>3, SamePlace DEF NextNull

LEMMA GetLengthKeeps == ASSUME IInv, GetLength PROVE IInv'
<1>1. /\ iterator \in IteratorIn /\ iterator.axis \in SearchAxes(Context)
      /\ iterator.axis \in AllAxes
  BY IteratorType DEF GetLength
<1>2. /\ Cardinality(Query(Context, iterator.axis)) \in Nat
      /\ Cardinality(Hits(Context, iterator.axis)) \in Nat
  BY <1>1, CountedHits DEF IInv
<1>3. Length \in Nat
  BY <1>1, <1>2 DEF Length, IteratorIn
<1>4. /\ iterator' \in IteratorIn
      /\ iterator'.axis = iterator.axis /\ iterator'.length = Length
      /\ iterator'.done = iterator.done
  BY <1>1, <1>3 DEF GetLength, IteratorIn
<1>5. Context' = Context /\ \A a : Query(Context, a)' = Query(Context, a)
  BY DEF GetLength, Context, Query, AncestorQuery, ChildQuery, DescendantQuery,
         FollowingQuery, FollowingSiblingQuery, PrecedingQuery, PrecedingSiblingQuery
<1>6. ~iterator.done => Length = Cardinality(Query(Context, iterator.axis))
  BY <1>1, <1>2 DEF Length, IInv, LengthKept, GetLength, IteratorIn
<1>7. LengthKept'
  BY <1>4, <1>5, <1>6 DEF LengthKept
<1> QED
  BY <1>1, <1>4, <1>7, SamePlace DEF GetLength

LEMMA EnterKeeps == ASSUME IInv, Enter PROVE IInv'
<1>1. /\ iterator \in IteratorIn /\ iterator.axis \in SearchAxes(Context)
      /\ iterator.axis \in AllAxes
  BY IteratorType DEF Enter
<1>2. PICK m \in Hits(Context, iterator.axis) : chain' = Found(m, iterator.axis)
  BY DEF Enter
<1>3. m \in index /\ m \in Query(Context, iterator.axis)
  BY <1>1, <1>2, SearchGivesNodes DEF Hits
<1>4. CASE iterator.axis = "child"
  <2>1. m.parent = Context.left
    BY <1>3, <1>4 DEF Query, ChildQuery
  <2>2. Context \in index
    BY <1>1, <1>4, ContextNode, TextNumbers DEF IInv, SearchAxes
  <2>3. chain' = <<m>> \o chain
    BY <1>2, <1>4 DEF Found
  <2> QED
    BY <1>3, <2>1, <2>2, <2>3, LongerChain, OtherPlace DEF Enter
<1>5. CASE iterator.axis \in {"following-sibling", "preceding-sibling"}
  <2>1. m.parent = Context.parent
    BY <1>3, <1>5 DEF Query, FollowingSiblingQuery, PrecedingSiblingQuery
  <2>2. chain' = <<m>> \o Tail(chain)
    BY <1>2, <1>5 DEF Found
  <2> QED
    BY ZenonT(60), <1>3, <2>1, <2>2, SiblingChain, OtherPlace DEF Enter
<1>6. CASE iterator.axis \notin {"child", "following-sibling", "preceding-sibling"}
  <2>1. chain' = <<m>>
    BY <1>2, <1>6 DEF Found
  <2>2. chain' \in Seq(index \cup Texts) /\ Len(chain') = 1 /\ chain' # << >>
    BY <1>3, <2>1
  <2> QED
    BY <2>2, OtherPlace DEF Enter
<1> QED
  BY <1>4, <1>5, <1>6

LEMMA EnterTextKeeps == ASSUME IInv, EnterText PROVE IInv'
<1>1. Context \in index
  BY ContextNode, TextNumbers DEF IInv, EnterText
<1>2. TextOf(Context) \in Texts
  BY <1>1 DEF Texts, EnterText
<1>3. chain' \in Seq(index \cup Texts) /\ Len(chain') = 1 /\ chain' # << >>
  BY <1>2 DEF EnterText
<1>4. iterator' = None
  BY DEF EnterText
<1> QED
  BY <1>3, <1>4, OtherPlace DEF EnterText

LEMMA GetParentKeeps == ASSUME IInv, GetParent PROVE IInv'
<1>1. PICK p \in index :
        /\ IF Context.parent = RootLeft THEN p = DocumentNode ELSE p.left = Context.parent
        /\ chain' = << Context, p >>
  BY DEF GetParent
<1>2. Context \in index \cup Texts
  BY ContextNode DEF IInv
<1>3. /\ chain' \in Seq(index \cup Texts) /\ Len(chain') = 2 /\ chain' # << >>
      /\ chain'[1] = Context /\ chain'[2] = p
  BY <1>1, <1>2
<1>4. \A i \in 2 .. Len(chain') : chain'[i] \in index
  BY <1>3
<1>5. \A i \in 1 .. Len(chain') - 1 :
        \/ chain'[i + 1].left = chain'[i].parent
        \/ chain'[i].parent = RootLeft /\ chain'[i + 1] = DocumentNode
  BY <1>1, <1>3
<1>6. iterator' = None
  BY DEF GetParent
<1> QED
  BY <1>3, <1>4, <1>5, <1>6, OtherPlace DEF GetParent

LEMMA EnterParentKeeps == ASSUME IInv, EnterParent PROVE IInv'
BY ParentChain, OtherPlace DEF EnterParent

(* Every step keeps the invariant.                                         *)
LEMMA StepIInv == IInv /\ [Next]_vars => IInv'
<1> SUFFICES ASSUME IInv, [Next]_vars PROVE IInv'
  OBVIOUS
<1>1. CASE UNCHANGED vars
  <2>1. UNCHANGED <<index, chain, iterator>>
    BY <1>1 DEF vars
  <2>2. Context' = Context /\ \A a : Query(Context, a)' = Query(Context, a)
    BY <2>1 DEF Context, Query, AncestorQuery, ChildQuery, DescendantQuery,
           FollowingQuery, FollowingSiblingQuery, PrecedingQuery, PrecedingSiblingQuery
  <2>3. LengthKept'
    BY <2>1, <2>2 DEF IInv, LengthKept
  <2> QED
    BY <2>1, <2>3, SamePlace DEF IInv, TypeOK
<1> QED
  BY <1>1, IterateKeeps, NextHitKeeps, NextNullKeeps, GetLengthKeeps, EnterKeeps,
     EnterTextKeeps, GetParentKeeps, EnterParentKeeps DEF Next

(* Every iterator and every hit of a search keeps to the stored tree.      *)
THEOREM InvariantHolds == Spec => []IInv
<1>1. Init => IInv
  BY InitIInv
<1>2. IInv /\ [Next]_vars => IInv'
  BY StepIInv
<1> QED
  BY <1>1, <1>2, PTL DEF Spec

(* The walk stays well typed: only to an element whose value is stored with *)
(* it there is a text that is not in the index (iterateAxis).              *)
THEOREM TypeCorrect == Spec => []TypeOK
<1>1. IInv => TypeOK
  BY DEF IInv
<1> QED
  BY <1>1, InvariantHolds, PTL

(* The parents that the nodes of a walk have cached are the parents that   *)
(* their numbers name, for every index and every walk (getCachedParent).   *)
THEOREM ParentsAreCached == Spec => []CachedParent
<1>1. IInv => CachedParent
  BY DEF IInv
<1> QED
  BY <1>1, InvariantHolds, PTL

-----------------------------------------------------------------------------
(* What the numbers of an index say, for any two of its nodes.             *)

(* The two top nodes are known by their left numbers.                      *)
LEMMA LeftsOfTops ==
  ASSUME index \in Indexes, TypeOK, NEW n \in index
  PROVE  /\ n.left >= 0 /\ n.parent < n.left /\ n.right >= 0
         /\ n.left = 0 => n = DocumentNode
         /\ n.left = 1 => n = RootElement
         /\ n \in Stored <=> n.left >= 2
<1>1. CASE n = DocumentNode
  BY <1>1, MaxLongAssumption DEF DocumentNode, Stored, Tops
<1>2. CASE n = RootElement
  BY <1>2, MaxLongAssumption DEF RootElement, RootLeft, Stored, Tops
<1>3. CASE n \in Stored
  <2>1. NodeInDocument(index, n) /\ Numbers(n)
    BY <1>3, IndexIsWellFormed, IndexNumbers DEF WellFormed, Stored
  <2>2. n.left >= 2
    BY <2>1 DEF NodeInDocument, IsParent, Numbers, FirstLeft
  <2>3. n.parent < n.left /\ n.right >= 0
    <3>1. CASE n.parent = RootLeft
      BY <2>1, <2>2, <3>1 DEF NodeInDocument, IsParent, Numbers, RootLeft
    <3>2. CASE n.parent # RootLeft
      <4>1. PICK p \in index : p.left = n.parent /\ p.left < n.left
        BY <2>1, <3>2 DEF NodeInDocument, IsParent
      <4> QED
        BY <4>1, <2>1, <2>2 DEF NodeInDocument, IsParent, Numbers
    <3> QED
      BY <3>1, <3>2
  <2> QED
    BY <1>3, <2>1, <2>2, <2>3 DEF Numbers
<1> QED
  BY <1>1, <1>2, <1>3 DEF Stored, Tops

(* A node of a document is the only one with its left number, and it lies  *)
(* in its document.                                                        *)
LEMMA StoredNode ==
  ASSUME index \in Indexes, TypeOK, NEW n \in Stored
  PROVE  /\ n \in index /\ Numbers(n)
         /\ n.kind \in {"element", "text", "comment"}
         /\ 2 <= n.docLeft /\ n.docLeft <= n.left /\ n.left < n.right
         /\ n.right <= n.docRight
         /\ n.kind # "element" => Leaf(n) /\ ~n.textOnly
         /\ n.parent = RootLeft => n.left = n.docLeft
<1>1. n \in index /\ NodeInDocument(index, n) /\ Numbers(n) /\ n \in NodeRecord
  BY IndexIsWellFormed, IndexNumbers DEF WellFormed, Stored
<1>2. n.kind \in {"element", "text", "comment"}
  BY <1>1 DEF NodeRecord
<1> QED
  BY <1>1, <1>2 DEF NodeInDocument, IsParent, FirstLeft

LEMMA StoredPair ==
  ASSUME index \in Indexes, TypeOK, NEW m \in Stored, NEW n \in Stored
  PROVE  /\ m.left = n.left => m = n
         /\ m.docLeft = n.docLeft => m.docRight = n.docRight
         /\ m.docLeft < n.docLeft => m.docRight < n.docLeft
         /\ m.left < n.left =>
              m.right < n.left \/ (n.right < m.right /\ m.left <= n.parent)
BY IndexIsWellFormed DEF WellFormed, Stored, Nested, DocumentsApart

(* A node whose left number is the parent number of a stored node is its   *)
(* parent.                                                                 *)
LEMMA ParentAndChild ==
  ASSUME index \in Indexes, TypeOK, NEW p \in Stored, NEW n \in Stored,
         n.parent = p.left
  PROVE  /\ p.left < n.left /\ n.right < p.right
         /\ p.docLeft = n.docLeft
         /\ p.textOnly => /\ n.kind = "text" /\ n.left = p.left + 1
                          /\ n.right = p.right - 1
<1>1. NodeInDocument(index, n) /\ p \in index /\ p.left >= 2
  BY IndexIsWellFormed, LeftsOfTops DEF WellFormed, Stored
<1>2. n.parent # RootLeft
  BY <1>1 DEF RootLeft
<1>3. PICK q \in index : /\ q.left = n.parent /\ q.docLeft = n.docLeft
                         /\ q.left < n.left /\ n.right < q.right
                         /\ q.textOnly => n.kind = "text" /\ n.left = q.left + 1
                                          /\ n.right = q.right - 1
  BY <1>1, <1>2 DEF NodeInDocument, IsParent
<1>4. q \in Stored
  BY <1>1, <1>3, LeftsOfTops
<1>5. q = p
  BY <1>3, <1>4, StoredPair
<1> QED
  BY <1>3, <1>5

-----------------------------------------------------------------------------
(* The axes as ranges of numbers.                                          *)
LEMMA AxisRanges ==
  ASSUME index \in Indexes, TypeOK, NEW n \in Stored
  PROVE  /\ Axis(n, "self") = {n}
         /\ Axis(n, "ancestor") =
              {m \in index : m.left <= n.left - 1 /\ m.right >= n.right + 1}
         /\ Axis(n, "descendant") =
              {m \in index : m.left >= n.left + 1 /\ m.left <= n.right - 1}
         /\ Axis(n, "following") =
              {m \in index : m.left >= n.right /\ m.right <= n.docRight}
         /\ Axis(n, "preceding") =
              {m \in index : m.right <= n.left /\ m.left >= n.docLeft}
<1>1. n \in index /\ Numbers(n) /\ n.kind \in {"element", "text", "comment"}
      /\ (n.kind # "element" => Leaf(n))
  BY StoredNode
<1>2. \A m \in index : Numbers(m)
  BY IndexNumbers
<1>3. Axis(n, "self") = {n}
  BY DEF Axis
<1>4. Axis(n, "ancestor") = AncestorQuery(n, FALSE)
  BY <1>1 DEF Axis, SearchAxes, Hits, Unsearched, Query
<1>5. Axis(n, "following") = FollowingQuery(n)
  BY <1>1 DEF Axis, SearchAxes, Hits, Unsearched, Query
<1>6. Axis(n, "preceding") = PrecedingQuery(n)
  BY <1>1 DEF Axis, SearchAxes, Hits, Unsearched, Query
<1>7. Axis(n, "descendant") = DescendantQuery(n, FALSE)
  <2>1. CASE Leaf(n)
    <3>1. Axis(n, "descendant") = {}
      BY <2>1 DEF Axis, Hits, Unsearched
    <3>2. DescendantQuery(n, FALSE) = {}
      BY <2>1, <1>1, <1>2 DEF DescendantQuery, Leaf, Numbers
    <3> QED
      BY <3>1, <3>2
  <2>2. CASE ~Leaf(n)
    BY <2>2, <1>1 DEF Axis, SearchAxes, Hits, Unsearched, Query
  <2> QED
    BY <2>1, <2>2
<1> QED
  BY <1>3, <1>4, <1>5, <1>6, <1>7
     DEF AncestorQuery, DescendantQuery, FollowingQuery, PrecedingQuery

(* Of two nodes of a document, one is on exactly one axis of the other.    *)
LEMMA OnExactlyOneAxis ==
  ASSUME index \in Indexes, TypeOK, NEW n \in Stored, NEW m \in InDocument(n)
  PROVE  \E a \in PartitionAxes :
           /\ m \in Axis(n, a)
           /\ \A b \in PartitionAxes \ {a} : m \notin Axis(n, b)
<1> DEFINE
  Self       == m = n
  Ancestor   == m.left <= n.left - 1 /\ m.right >= n.right + 1
  Descendant == m.left >= n.left + 1 /\ m.left <= n.right - 1
  Following  == m.left >= n.right /\ m.right <= n.docRight
  Preceding  == m.right <= n.left /\ m.left >= n.docLeft
<1>1. /\ m \in Stored /\ m \in index /\ m.docLeft = n.docLeft
  BY StoredNode DEF InDocument
<1>2. /\ m \in Axis(n, "self") <=> Self
      /\ m \in Axis(n, "ancestor") <=> Ancestor
      /\ m \in Axis(n, "descendant") <=> Descendant
      /\ m \in Axis(n, "following") <=> Following
      /\ m \in Axis(n, "preceding") <=> Preceding
  BY <1>1, AxisRanges
<1>3. /\ Numbers(m) /\ Numbers(n)
      /\ m.left < m.right /\ n.left < n.right
      /\ m.docLeft <= m.left /\ m.right <= m.docRight
      /\ m.docRight = n.docRight
      /\ m.left = n.left => m = n
      /\ m.left < n.left => m.right < n.left \/ n.right < m.right
      /\ n.left < m.left => n.right < m.left \/ m.right < n.right
  BY <1>1, StoredNode, StoredPair
<1>4. Self \/ Ancestor \/ Descendant \/ Following \/ Preceding
  BY <1>1, <1>3 DEF Numbers
<1>5. /\ Self => ~Ancestor /\ ~Descendant /\ ~Following /\ ~Preceding
      /\ Ancestor => ~Descendant /\ ~Following /\ ~Preceding
      /\ Descendant => ~Following /\ ~Preceding
      /\ Following => ~Preceding
  BY <1>3 DEF Numbers
<1> HIDE DEF Self, Ancestor, Descendant, Following, Preceding
<1> QED
  BY <1>2, <1>4, <1>5 DEF PartitionAxes

(* The axes stay in the document, but for the two top nodes.               *)
LEMMA AxesStayInDocument ==
  ASSUME index \in Indexes, TypeOK, NEW n \in Stored, NEW a \in PartitionAxes,
         NEW m \in Axis(n, a)
  PROVE  m \in InDocument(n) \cup Tops
<1>1. /\ n \in index
      /\ m \in index
      /\ \/ m = n
         \/ m.left <= n.left - 1 /\ m.right >= n.right + 1
         \/ m.left >= n.left + 1 /\ m.left <= n.right - 1
         \/ m.left >= n.right /\ m.right <= n.docRight
         \/ m.right <= n.left /\ m.left >= n.docLeft
  BY AxisRanges, StoredNode DEF PartitionAxes
<1>2. CASE m \in Stored
  <2>1. /\ Numbers(m) /\ Numbers(n)
        /\ m.left < m.right /\ n.left < n.right
        /\ m.docLeft <= m.left /\ m.right <= m.docRight
        /\ n.docLeft <= n.left /\ n.right <= n.docRight
        /\ m.docLeft < n.docLeft => m.docRight < n.docLeft
        /\ n.docLeft < m.docLeft => n.docRight < m.docLeft
    BY <1>2, StoredNode, StoredPair
  <2>2. m.docLeft = n.docLeft
    BY <1>1, <2>1 DEF Numbers
  <2> QED
    BY <1>2, <2>2 DEF InDocument
<1> QED
  BY <1>1, <1>2 DEF Stored

(* The axes self, ancestor, descendant, following and preceding of a node  *)
(* divide its document among them, for every index: their range queries    *)
(* leave no node out, give none twice, and reach no other document.        *)
THEOREM AxesPartition == Spec => []AxesPartitionDocument
<1>1. IInv => AxesPartitionDocument
  BY OnExactlyOneAxis, AxesStayInDocument DEF IInv, AxesPartitionDocument
<1> QED
  BY <1>1, InvariantHolds, PTL

-----------------------------------------------------------------------------
(* The numbers of the context node, also when it is a stored text.         *)
LEMMA StoredText ==
  ASSUME index \in Indexes, TypeOK, NEW t \in Texts
  PROVE  \E e \in Stored : /\ t = TextOf(e) /\ e.textOnly
                           /\ t.left = e.left + 1 /\ t.right = e.right - 1
                           /\ t.parent = e.left /\ t.docLeft = e.docLeft
<1>1. PICK e \in index : e.textOnly /\ t = TextOf(e)
  BY DEF Texts
<1>2. e \in Stored
  BY <1>1 DEF Stored, Tops, DocumentNode, RootElement
<1> QED
  BY <1>1, <1>2 DEF TextOf

LEMMA ParentIsBefore ==
  ASSUME index \in Indexes, TypeOK
  PROVE  Context.parent < Context.left
<1>1. CASE Context \in index
  BY <1>1, LeftsOfTops
<1>2. CASE Context \in Texts
  <2>1. PICK e \in Stored : Context.left = e.left + 1 /\ Context.parent = e.left
    BY <1>2, StoredText
  <2> QED
    BY <2>1, StoredNode DEF Numbers
<1> QED
  BY <1>1, <1>2, ContextNode

(* Swapping the nodes gives the opposite.                                  *)
LEMMA ComparisonSwaps ==
  ASSUME index \in Indexes, TypeOK, NEW m \in index
  PROVE  ComparePosition(Context, m) = Opposite[ComparePosition(m, Context)]
<1> DEFINE n == Context
<1>1. /\ m.left \in Int /\ m.right \in Int /\ m.parent \in Int
      /\ n.left \in Int /\ n.right \in Int /\ n.parent \in Int
      /\ m.parent < m.left /\ n.parent < n.left
  BY IndexNumbers, ContextNode, LeftsOfTops, ParentIsBefore DEF Numbers
<1>2. /\ Opposite["self"] = "self"
      /\ Opposite["ancestor"] = "descendant" /\ Opposite["descendant"] = "ancestor"
      /\ Opposite["preceding"] = "following" /\ Opposite["following"] = "preceding"
  BY DEF Opposite
<1> HIDE DEF n
<1>3. ComparePosition(n, m) = Opposite[ComparePosition(m, n)]
  BY <1>1, <1>2 DEF ComparePosition
<1> QED
  BY <1>3 DEF n

(* What comparePosition says is the axis on which the range queries find   *)
(* the node.                                                               *)
LEMMA ComparisonIsAxis ==
  ASSUME index \in Indexes, TypeOK, NEW n \in Stored, NEW m \in InDocument(n)
  PROVE  m \in Axis(n, ComparePosition(m, n))
<1>1. m \in Stored /\ m \in index /\ m.docLeft = n.docLeft
  BY StoredNode DEF InDocument
<1>2. /\ Numbers(m) /\ Numbers(n)
      /\ m.left < m.right /\ n.left < n.right
      /\ m.docLeft <= m.left /\ n.docLeft <= n.left
      /\ m.right <= m.docRight /\ m.docRight = n.docRight
      /\ 2 <= m.left /\ 2 <= n.left
      /\ m.parent = RootLeft => m.left = m.docLeft
      /\ n.parent = RootLeft => n.left = n.docLeft
  BY <1>1, StoredNode, StoredPair, LeftsOfTops
<1>3. /\ m.left = n.left => m = n
      /\ m.left < n.left =>
           m.right < n.left \/ (n.right < m.right /\ m.left <= n.parent)
      /\ n.left < m.left =>
           n.right < m.left \/ (m.right < n.right /\ n.left <= m.parent)
  BY <1>1, StoredPair
<1>4. m.left = n.parent => m.left < n.left /\ n.right < m.right
  BY <1>1, ParentAndChild
<1>5. n.left = m.parent => n.left < m.left /\ m.right < n.right
  BY <1>1, ParentAndChild
<1>6. m.parent < m.left /\ n.parent < n.left
  BY <1>1, StoredNode, LeftsOfTops
<1>7. /\ ComparePosition(m, n) = "self" => m = n
      /\ ComparePosition(m, n) = "ancestor" =>
           m.left <= n.left - 1 /\ m.right >= n.right + 1
      /\ ComparePosition(m, n) = "descendant" =>
           m.left >= n.left + 1 /\ m.left <= n.right - 1
      /\ ComparePosition(m, n) = "preceding" =>
           m.right <= n.left /\ m.left >= n.docLeft
      /\ ComparePosition(m, n) = "following" =>
           m.left >= n.right /\ m.right <= n.docRight
  BY <1>1, <1>2, <1>3, <1>4, <1>5, <1>6 DEF Numbers, ComparePosition
<1>8. ComparePosition(m, n) \in PartitionAxes
  BY DEF ComparePosition, PartitionAxes
<1> QED
  BY <1>1, <1>7, <1>8, AxisRanges DEF PartitionAxes

(* comparePosition agrees with the axes for every two nodes of a document, *)
(* and is the opposite for the swapped nodes, for every index.             *)
THEOREM ComparisonsAgree == Spec => []ComparisonAgrees
<1>1. IInv => ComparisonAgrees
  BY ComparisonSwaps, ComparisonIsAxis DEF IInv, ComparisonAgrees
<1> QED
  BY <1>1, InvariantHolds, PTL

-----------------------------------------------------------------------------
(* No node of an index is below an element without children.               *)
LEMMA NothingBelowLeaf ==
  ASSUME index \in Indexes, TypeOK, NEW n \in index, Leaf(n)
  PROVE  ChildQuery(n) = {} /\ DescendantQuery(n, FALSE) = {}
<1>1. n \in Stored
  <2>1. ~Leaf(DocumentNode) /\ ~Leaf(RootElement)
    BY MaxLongAssumption DEF Leaf, DocumentNode, RootElement, RootLeft
  <2> QED
    BY <2>1 DEF Stored, Tops
<1>2. Numbers(n) /\ n.left >= 2 /\ n.right = n.left + 1
  BY <1>1, StoredNode, LeftsOfTops DEF Leaf
<1>3. ASSUME NEW m \in index, m.parent = n.left PROVE FALSE
  <2>1. Numbers(m) /\ m.parent < m.left
    BY IndexNumbers, LeftsOfTops
  <2>2. m \in Stored
    BY <1>2, <1>3, <2>1, LeftsOfTops DEF Numbers
  <2>3. m.left > n.left /\ m.right < n.right /\ m.left < m.right
    BY <1>1, <1>3, <2>2, ParentAndChild, StoredNode
  <2> QED
    BY <1>2, <2>1, <2>3 DEF Numbers
<1>4. \A m \in index : ~(m.left >= n.left + 1 /\ m.left <= n.right - 1)
  BY <1>2, IndexNumbers DEF Numbers
<1> QED
  BY <1>3, <1>4 DEF ChildQuery, DescendantQuery

(* getLength is right, for every index and every order of its calls and    *)
(* those of next(), but below an element without children that should have *)
(* included itself.                                                        *)
THEOREM LengthIsTold == Spec => []LengthTells
<1>1. ASSUME IInv PROVE LengthTells
  <2> SUFFICES ASSUME iterator # None, ~iterator.done,
                      ~(iterator.axis = "descendant-or-self" /\ Leaf(Context))
               PROVE  Length = Cardinality(Hits(Context, iterator.axis))
    BY DEF LengthTells
  <2>1. /\ iterator \in IteratorIn /\ iterator.axis \in SearchAxes(Context)
        /\ iterator.axis \in AllAxes
    BY <1>1, IteratorType
  <2>2. Hits(Context, iterator.axis) = Query(Context, iterator.axis)
    <3>1. CASE Unsearched(Context, iterator.axis)
      <4>1. Leaf(Context) /\ iterator.axis \in {"child", "descendant"}
        BY <3>1 DEF Unsearched
      <4>2. Context \in index
        BY <1>1, <2>1, <4>1, ContextNode, TextNumbers DEF IInv, SearchAxes
      <4>3. ChildQuery(Context) = {} /\ DescendantQuery(Context, FALSE) = {}
        BY <1>1, <4>1, <4>2, NothingBelowLeaf DEF IInv
      <4> QED
        BY <3>1, <4>1, <4>3 DEF Hits, Query
    <3> QED
      BY <3>1 DEF Hits
  <2>3. Cardinality(Query(Context, iterator.axis)) \in Nat
    BY <1>1, <2>1, CountedHits DEF IInv
  <2> QED
    BY <1>1, <2>1, <2>2, <2>3 DEF IInv, LengthKept, Length, IteratorIn
<1> QED
  BY <1>1, InvariantHolds, PTL

-----------------------------------------------------------------------------
(* The text that is made from an element and the text node in the index    *)
(* are the same to every axis but following, for every index.              *)
THEOREM TextStands == Spec => []TextStandsForStored
<1>1. ASSUME IInv PROVE TextStandsForStored
  <2> SUFFICES ASSUME Context \notin index, NEW m \in InDocument(Context),
                      m.parent = Context.parent
               PROVE  /\ m.kind = "text" /\ m.left = Context.left
                      /\ \A a \in AllAxes \ {"following"} :
                           Axis(Context, a) = Axis(m, a)
                      /\ Axis(Context, "following") = {}
    BY DEF TextStandsForStored
  <2>1. PICK e \in Stored :
               /\ Context = TextOf(e) /\ e.textOnly
               /\ Context.left = e.left + 1 /\ Context.right = e.right - 1
               /\ Context.parent = e.left /\ Context.docLeft = e.docLeft
    BY <1>1, ContextNode, StoredText DEF IInv
  <2>2. m \in Stored /\ m \in index /\ m.docLeft = Context.docLeft
    BY <1>1, StoredNode DEF InDocument, IInv
  <2>3. m.kind = "text" /\ m.left = Context.left /\ m.right = Context.right
    BY <1>1, <2>1, <2>2, ParentAndChild DEF IInv
  <2>4. Context.kind = "text" /\ Context.docRight = -1
    BY <2>1 DEF TextOf
  <2>5. SearchAxes(Context) = SearchAxes(m)
    BY <2>3, <2>4 DEF SearchAxes
  <2>6. ASSUME NEW a \in AllAxes \ {"following"}, a \in SearchAxes(m)
        PROVE  Hits(Context, a) = Hits(m, a)
    <3>1. a \in {"ancestor", "ancestor-or-self", "preceding",
                 "following-sibling", "preceding-sibling"}
      BY <2>3, <2>6 DEF SearchAxes
    <3> QED
      BY <3>1, <2>2, <2>3
         DEF Hits, Unsearched, Query, AncestorQuery, PrecedingQuery,
             FollowingSiblingQuery, PrecedingSiblingQuery
  <2>7. ASSUME NEW a \in AllAxes \ {"following"} PROVE Axis(Context, a) = Axis(m, a)
    <3>1. a # "self"
      BY DEF AllAxes
    <3> QED
      BY <2>5, <2>6, <3>1 DEF Axis
  <2>8. Axis(Context, "following") = {}
    <3>1. \A k \in index : ~(k.right <= -1)
      BY <1>1, IndexNumbers, LeftsOfTops DEF IInv, Numbers
    <3>2. Axis(Context, "following") \subseteq FollowingQuery(Context)
      BY DEF Axis, Hits, Unsearched, Query
    <3> QED
      BY <2>4, <3>1, <3>2 DEF FollowingQuery
  <2> QED
    BY <2>3, <2>7, <2>8
<1> QED
  BY <1>1, InvariantHolds, PTL

-----------------------------------------------------------------------------
(* The tree that the parent numbers make.                                  *)

(* A set of numbers that is not empty has a smallest one.                  *)
LEMMA Smallest ==
  ASSUME NEW T \in SUBSET Nat, T # {}
  PROVE  \E x \in T : \A y \in T : x <= y
<1> DEFINE R == {ss \in Nat \X Nat : ss[1] < ss[2]}
<1>1. IsWellFoundedOn(R, Nat)
  BY NatLessThanWellFounded DEF OpToRel
<1> HIDE DEF R
<1>2. PICK x \in T : \A y \in T : ~ (<<y, x>> \in R)
  BY <1>1, WFMin
<1>3. \A y \in T : ~ (y < x)
  BY <1>2 DEF R
<1> QED
  BY <1>3

(* What is true of two nodes of a document holds with the two top nodes    *)
(* too: intervals are apart or nested, and nothing fits between a node and *)
(* its parent.                                                             *)
LEMMA AnyPair ==
  ASSUME index \in Indexes, TypeOK, NEW m \in index, NEW n \in index
  PROVE  /\ m.left \in Nat /\ m.right \in Nat /\ m.parent \in Int /\ m.left < m.right
         /\ m.left = n.left => m = n
         /\ m.left < n.left =>
              m.right < n.left \/ (n.right < m.right /\ m.left <= n.parent)
<1>1. /\ m.left >= 0 /\ m.right >= 0 /\ m.parent < m.left /\ n.parent < n.left
      /\ m.left \in Int /\ m.right \in Int /\ m.parent \in Int
      /\ n.left \in Int /\ n.right \in Int /\ n.parent \in Int
      /\ m.left = 0 => m = DocumentNode
      /\ m.left = 1 => m = RootElement
      /\ m \in Stored <=> m.left >= 2
      /\ n.left = 0 => n = DocumentNode
      /\ n.left = 1 => n = RootElement
      /\ n \in Stored <=> n.left >= 2
  BY LeftsOfTops, IndexNumbers DEF Numbers
<1>2. /\ DocumentNode.left = 0 /\ DocumentNode.right = MaxLong
      /\ RootElement.left = 1 /\ RootElement.right = MaxLong - 1
      /\ RootElement.parent = 0 /\ MaxLong \in Nat /\ MaxLong > 3
  BY MaxLongAssumption DEF DocumentNode, RootElement, RootLeft
<1>3. n \in Stored =>
        /\ n.right < MaxLong - 1 /\ n.parent >= 1
  <2>1. SUFFICES ASSUME n \in Stored PROVE n.right < MaxLong - 1 /\ n.parent >= 1
    OBVIOUS
  <2>2. NodeInDocument(index, n) /\ n.right \in Int /\ n.docRight \in Int
    BY <2>1, IndexIsWellFormed, IndexNumbers DEF WellFormed, Stored, Numbers
  <2>3. n.right < MaxLong - 1
    BY <1>2, <2>2 DEF NodeInDocument, IsParent
  <2>4. n.parent >= 1
    <3>1. CASE n.parent = RootLeft
      BY <3>1 DEF RootLeft
    <3>2. CASE n.parent # RootLeft
      <4>1. PICK p \in index : p.kind = "element" /\ p.left = n.parent
        BY <2>2, <3>2 DEF NodeInDocument, IsParent
      <4>2. /\ p.left \in Int /\ p.left >= 0
            /\ p.left = 0 => p = DocumentNode
        BY LeftsOfTops, IndexNumbers DEF Numbers
      <4>3. DocumentNode.kind = "document"
        BY DEF DocumentNode
      <4> QED
        BY <4>1, <4>2, <4>3
    <3> QED
      BY <3>1, <3>2
  <2> QED
    BY <2>3, <2>4
<1>4. m.left < m.right
  <2>1. m \in Stored => m.left < m.right
    BY StoredNode
  <2> QED
    BY <1>1, <1>2, <2>1
<1>5. m.left = n.left => m = n
  <2>1. m \in Stored /\ n \in Stored => (m.left = n.left => m = n)
    BY StoredPair
  <2> QED
    BY <1>1, <2>1
<1>6. ASSUME m.left < n.left
      PROVE  m.right < n.left \/ (n.right < m.right /\ m.left <= n.parent)
  <2>1. CASE m \in Stored
    BY <1>1, <1>6, <2>1, StoredPair
  <2>2. CASE m = RootElement
    BY <1>1, <1>2, <1>3, <1>6, <2>2
  <2>3. CASE m = DocumentNode
    <3>1. CASE n \in Stored
      BY <1>1, <1>2, <1>3, <2>3, <3>1
    <3>2. CASE n = RootElement
      BY <1>1, <1>2, <2>3, <3>2
    <3> QED
      BY <1>1, <1>2, <1>6, <2>3, <3>1, <3>2
  <2> QED
    BY <1>1, <2>1, <2>2, <2>3
<1> QED
  BY <1>1, <1>4, <1>5, <1>6

(* Every node but the document node has a parent, around it.               *)
LEMMA ParentIsAround ==
  ASSUME index \in Indexes, TypeOK, NEW n \in index
  PROVE  /\ \A p \in Parent(n) : p \in index /\ p.left < n.left /\ n.right < p.right
         /\ n # DocumentNode => \E p \in index : p \in Parent(n)
<1>1. ASSUME NEW p \in Parent(n)
      PROVE  p \in index /\ p.left < n.left /\ n.right < p.right
  <2>1. p \in index /\ p.left = n.parent
    BY DEF Parent
  <2>2. n.parent < n.left
    BY LeftsOfTops
  <2>3. p.right < n.left \/ n.right < p.right
    BY <2>1, <2>2, AnyPair
  <2>4. p \in Stored /\ n \in Stored => n.right < p.right
    BY <2>1, ParentAndChild
  <2>5. /\ p \in Stored => n \in Stored
        /\ p \notin Stored => n.right < p.right
    <3>1. n \in Stored <=> n.left >= 2
      BY LeftsOfTops
    <3>2. /\ p \in Stored <=> p.left >= 2
          /\ p.left = 0 => p = DocumentNode
          /\ p.left = 1 => p = RootElement
      BY <2>1, LeftsOfTops
    <3>3. /\ p.left \in Nat /\ n.left \in Nat /\ n.right \in Nat /\ n.left < n.right
          /\ p.left = n.left => p = n
          /\ p.left < n.left => p.right < n.left \/ n.right < p.right
      BY <2>1, AnyPair
    <3>4. /\ DocumentNode.left = 0 /\ DocumentNode.right = MaxLong
          /\ RootElement.left = 1 /\ RootElement.right = MaxLong - 1
      BY DEF DocumentNode, RootElement, RootLeft
    <3>5. n \in Stored => n.left < MaxLong - 1
      <4>1. SUFFICES ASSUME n \in Stored PROVE n.left < MaxLong - 1
        OBVIOUS
      <4>2. NodeInDocument(index, n) /\ Numbers(n)
        BY <4>1, IndexIsWellFormed, IndexNumbers DEF WellFormed, Stored
      <4> QED
        BY <4>2, MaxLongAssumption DEF NodeInDocument, IsParent, Numbers
    <3>6. n \notin Stored => n = DocumentNode \/ n = RootElement
      BY DEF Stored, Tops
    <3> QED
      BY <2>1, <2>2, <3>1, <3>2, <3>3, <3>4, <3>5, <3>6, MaxLongAssumption
  <2> QED
    BY <2>1, <2>2, <2>4, <2>5
<1>2. ASSUME n # DocumentNode
      PROVE  \E p \in index : p \in Parent(n)
  <2>0. DocumentNode \in index /\ RootElement \in index
    BY DEF TypeOK, Tops
  <2>1. CASE n = RootElement
    <3>1. DocumentNode.left = RootElement.parent
      BY DEF DocumentNode, RootElement
    <3> QED
      BY <2>0, <2>1, <3>1 DEF Parent
  <2>2. CASE n \in Stored
    <3>1. NodeInDocument(index, n)
      BY <2>2, IndexIsWellFormed DEF WellFormed, Stored
    <3>2. CASE n.parent = RootLeft
      <4>1. RootElement.left = n.parent
        BY <3>2 DEF RootElement
      <4> QED
        BY <2>0, <4>1 DEF Parent
    <3>3. CASE n.parent # RootLeft
      BY <3>1, <3>3 DEF NodeInDocument, IsParent, Parent
    <3> QED
      BY <3>2, <3>3
  <2> QED
    BY <1>2, <2>1, <2>2 DEF Stored, Tops
<1> QED
  BY <1>1, <1>2

(* One node is above another in the tree if its interval is around that of *)
(* the other: of the nodes inside m that are in a set with the parents of  *)
(* its members, the one with the smallest left number has m for its parent.*)
LEMMA TreeIsNesting ==
  ASSUME index \in Indexes, TypeOK, NEW m \in index, NEW n \in index
  PROVE  <<m, n>> \in Tree <=> m.left < n.left /\ n.right < m.right
<1>1. ASSUME <<m, n>> \in Tree
      PROVE  m.left < n.left /\ n.right < m.right
  <2> DEFINE S == {x \in index : x.left < n.left /\ n.right < x.right}
  <2>1. Parent(n) \subseteq S
    BY ParentIsAround
  <2>2. ASSUME NEW x \in S, NEW p \in Parent(x)
        PROVE  p \in S
    <3>1. x \in index /\ p \in index /\ p.left < x.left /\ x.right < p.right
      BY ParentIsAround
    <3>2. p.left \in Nat /\ p.right \in Nat /\ x.left \in Nat /\ x.right \in Nat
      BY <3>1, AnyPair
    <3>3. n.left \in Nat /\ n.right \in Nat
      BY AnyPair
    <3> QED
      BY <3>1, <3>2, <3>3
  <2>3. S \in SUBSET index /\ \A x \in S : Parent(x) \subseteq S
    BY <2>2
  <2> HIDE DEF S
  <2>4. m \in S
    BY <1>1, <2>1, <2>3 DEF Tree
  <2> QED
    BY <2>4 DEF S
<1>2. ASSUME m.left < n.left, n.right < m.right,
             NEW S \in SUBSET index, \A x \in S : Parent(x) \subseteq S,
             Parent(n) \subseteq S, m \notin S
      PROVE  FALSE
  <2> DEFINE T == {x \in S \cup {n} : m.left < x.left /\ x.right < m.right}
             Lefts == {x.left : x \in T}
  <2>1. n \in T /\ \A x \in T : x \in index
    BY <1>2
  <2>2. Lefts \in SUBSET Nat /\ Lefts # {}
    <3>1. \A x \in T : x.left \in Nat
      BY <2>1, AnyPair
    <3> QED
      BY <2>1, <3>1
  <2>3. PICK a \in Lefts : \A b \in Lefts : a <= b
    <3> HIDE DEF Lefts
    <3> QED
      BY <2>2, Smallest
  <2>4. PICK x \in T : a = x.left
    BY <2>3
  <2>5. x \in index /\ m.left < x.left /\ x.right < m.right /\ Parent(x) \subseteq S
    BY <1>2, <2>1
  <2>6. m.left \in Nat /\ m.right \in Nat /\ x.left \in Nat /\ x.right \in Nat
        /\ x.left < x.right /\ m.left <= x.parent
    BY <2>5, AnyPair
  <2>7. x # DocumentNode
    BY <2>5, <2>6 DEF DocumentNode
  <2>8. PICK p \in index : p \in Parent(x)
    BY <2>5, <2>7, ParentIsAround
  <2>9. p \in S /\ p.left = x.parent /\ p.left < x.left /\ x.right < p.right
    BY <2>5, <2>8, ParentIsAround DEF Parent
  <2>10. /\ p.left \in Nat /\ p.right \in Nat
         /\ m.left = p.left => m = p
         /\ m.left < p.left => m.right < p.left \/ p.right < m.right
    BY <2>8, AnyPair
  <2>11. p \in T
    BY <1>2, <2>5, <2>6, <2>9, <2>10
  <2>12. x.left <= p.left
    BY <2>3, <2>4, <2>11
  <2> QED
    BY <2>6, <2>9, <2>10, <2>12
<1>3. m.left < n.left /\ n.right < m.right => <<m, n>> \in Tree
  BY <1>2 DEF Tree
<1> QED
  BY <1>1, <1>3

(* The axes in terms of the tree.                                          *)
Up(m) == {a \in index : <<a, m>> \in Tree}

(* Above a child is its parent, and what is above that.                    *)
LEMMA UpOfChild ==
  ASSUME index \in Indexes, TypeOK, NEW n \in index, NEW m \in index,
         m.parent = n.left
  PROVE  <<n, m>> \in Tree /\ Up(m) = Up(n) \cup {n}
<1>1. n.left < m.left /\ m.right < n.right
  BY ParentIsAround DEF Parent
<1>2. <<n, m>> \in Tree
  BY <1>1, TreeIsNesting
<1>3. ASSUME NEW a \in index
      PROVE  <<a, m>> \in Tree <=> <<a, n>> \in Tree \/ a = n
  <2>1. /\ <<a, m>> \in Tree <=> a.left < m.left /\ m.right < a.right
        /\ <<a, n>> \in Tree <=> a.left < n.left /\ n.right < a.right
    BY TreeIsNesting
  <2>2. /\ a.left \in Nat /\ a.right \in Nat
        /\ a.left = n.left => a = n
        /\ a.left < n.left => a.right < n.left \/ n.right < a.right
    BY AnyPair
  <2>3. /\ a.left < m.left => a.right < m.left \/ a.left <= m.parent
    BY AnyPair
  <2>4. /\ m.left \in Nat /\ m.right \in Nat /\ m.left < m.right
        /\ n.left \in Nat /\ n.right \in Nat
    BY AnyPair
  <2> QED
    BY <1>1, <2>1, <2>2, <2>3, <2>4
<1> QED
  BY <1>2, <1>3 DEF Up

(* Two nodes have the same above them if they have the same parent.        *)
LEMMA SameParent ==
  ASSUME index \in Indexes, TypeOK, NEW n \in Stored, NEW m \in index
  PROVE  m.parent = n.parent <=> Up(m) = Up(n)
<1>1. n \in index /\ n # DocumentNode
  BY StoredNode DEF Stored, Tops
<1>2. PICK p \in index : p \in Parent(n)
  BY <1>1, ParentIsAround
<1>3. p.left = n.parent /\ Up(n) = Up(p) \cup {p}
  BY <1>1, <1>2, UpOfChild DEF Parent
<1>4. m.parent = n.parent => Up(m) = Up(n)
  BY <1>3, UpOfChild
<1>5. ASSUME Up(m) = Up(n)
      PROVE  m.parent = n.parent
  <2>1. p \in Up(m)
    BY <1>3, <1>5
  <2>2. p.left < m.left
    BY <2>1, TreeIsNesting DEF Up
  <2>3. p.left \in Nat
    BY AnyPair
  <2>4. m # DocumentNode
    BY <2>2, <2>3 DEF DocumentNode
  <2>5. PICK q \in index : q \in Parent(m)
    BY <2>4, ParentIsAround
  <2>6. q.left = m.parent /\ Up(m) = Up(q) \cup {q}
    BY <2>5, UpOfChild DEF Parent
  <2>7. (q = p \/ q \in Up(p)) /\ (p = q \/ p \in Up(q))
    BY <1>3, <1>5, <2>6
  <2>8. /\ q \in Up(p) => q.left < p.left
        /\ p \in Up(q) => p.left < q.left
    BY TreeIsNesting DEF Up
  <2>9. q.left \in Nat
    BY AnyPair
  <2>10. p = q
    BY <2>3, <2>7, <2>8, <2>9
  <2> QED
    BY <1>3, <2>6, <2>10
<1> QED
  BY <1>4, <1>5

(* The siblings are the children of the parent, before and after.          *)
LEMMA SiblingAxes ==
  ASSUME index \in Indexes, TypeOK, NEW n \in Stored
  PROVE  LET Siblings == {m \in index : Up(m) = Up(n)}
         IN  /\ Axis(n, "following-sibling") = {m \in Siblings : m.left > n.left}
             /\ Axis(n, "preceding-sibling") = {m \in Siblings : m.left < n.left}
<1>1. n \in index /\ n.kind # "document" /\ n.left \in Nat
  BY StoredNode, AnyPair
<1>2. ASSUME NEW m \in index
      PROVE  /\ m.left >= n.left + 1 <=> m.left > n.left
             /\ m.left <= n.left - 1 <=> m.left < n.left
             /\ m.parent = n.parent <=> Up(m) = Up(n)
  <2>1. m.left \in Nat
    BY AnyPair
  <2> QED
    BY <1>1, <2>1, SameParent
<1>3. /\ Axis(n, "following-sibling") =
           {m \in index : m.parent = n.parent /\ m.left >= n.left + 1}
      /\ Axis(n, "preceding-sibling") =
           {m \in index : m.parent = n.parent /\ m.left <= n.left - 1}
  BY <1>1 DEF Axis, SearchAxes, Hits, Unsearched, Query, FollowingSiblingQuery,
              PrecedingSiblingQuery
<1> QED
  BY <1>2, <1>3

(* The child axis.                                                         *)
LEMMA ChildAxis ==
  ASSUME index \in Indexes, TypeOK, NEW n \in Stored,
         ~n.textOnly, n.kind = "element"
  PROVE  Axis(n, "child") =
           {m \in {d \in index : <<n, d>> \in Tree} : Up(m) = Up(n) \cup {n}}
<1>1. n \in index
  BY StoredNode
<1>2. Axis(n, "child") = {m \in index : m.parent = n.left}
  <2>1. CASE Leaf(n)
    <3>1. Axis(n, "child") = {}
      BY <2>1 DEF Axis, Hits, Unsearched
    <3> QED
      BY <1>1, <2>1, <3>1, NothingBelowLeaf DEF ChildQuery
  <2>2. CASE ~Leaf(n)
    BY <2>2 DEF Axis, SearchAxes, Hits, Unsearched, Query, ChildQuery
  <2> QED
    BY <2>1, <2>2
<1>3. ASSUME NEW m \in index, m.parent = n.left
      PROVE  <<n, m>> \in Tree /\ Up(m) = Up(n) \cup {n}
  BY <1>1, <1>3, UpOfChild
<1>4. ASSUME NEW m \in index, <<n, m>> \in Tree, Up(m) = Up(n) \cup {n}
      PROVE  m.parent = n.left
  <2>1. n.left < m.left /\ m.right < n.right
    BY <1>1, <1>4, TreeIsNesting
  <2>2. /\ n.left \in Nat /\ n.right \in Nat /\ m.left \in Nat /\ m.right \in Nat
        /\ m.left < m.right
        /\ n.left < m.left => n.right < m.left \/ n.left <= m.parent
    BY <1>1, AnyPair
  <2>3. m # DocumentNode
    BY <2>1, <2>2 DEF DocumentNode
  <2>4. PICK p \in index : p \in Parent(m)
    BY <2>3, ParentIsAround
  <2>5. p.left = m.parent /\ p.left < m.left /\ m.right < p.right /\ p.left \in Nat
    BY <2>4, ParentIsAround, AnyPair DEF Parent
  <2>6. p \in Up(m)
    BY <2>5, TreeIsNesting DEF Up
  <2>7. CASE p \in Up(n)
    <3>1. p.left < n.left
      BY <1>1, <2>7, TreeIsNesting DEF Up
    <3> QED
      BY <2>1, <2>2, <2>5, <3>1
  <2> QED
    BY <1>4, <2>5, <2>6, <2>7
<1> QED
  BY <1>2, <1>3, <1>4

(* The axes up and down the tree, with the node itself or without it.      *)
LEMMA VerticalAxes ==
  ASSUME index \in Indexes, TypeOK, NEW n \in Stored
  PROVE  LET Descendants == {m \in index : <<n, m>> \in Tree}
         IN  /\ Axis(n, "ancestor") = Up(n)
             /\ Axis(n, "ancestor-or-self") = Up(n) \cup {n}
             /\ Axis(n, "descendant") = Descendants
             /\ Axis(n, "descendant-or-self") \in
                  {Descendants \cup {n}} \cup (IF Leaf(n) THEN {{}} ELSE {})
<1> DEFINE Descendants == {m \in index : <<n, m>> \in Tree}
<1>1. /\ n \in index /\ n.kind \in {"element", "text", "comment"}
      /\ n.kind # "element" => Leaf(n)
      /\ n.left \in Nat /\ n.right \in Nat /\ n.left < n.right
  BY StoredNode, AnyPair
<1>2. ASSUME NEW m \in index
      PROVE  /\ m.left \in Nat /\ m.right \in Nat /\ m.left < m.right
             /\ m.left = n.left => m = n
             /\ m.left < n.left => m.right < n.left \/ n.right < m.right
             /\ n.left < m.left => n.right < m.left \/ m.right < n.right
             /\ <<m, n>> \in Tree <=> m.left < n.left /\ n.right < m.right
             /\ <<n, m>> \in Tree <=> n.left < m.left /\ m.right < n.right
  BY <1>1, AnyPair, TreeIsNesting
<1> HIDE DEF Descendants
<1>3. ASSUME NEW m \in index
      PROVE  /\ m.left <= n.left - 1 /\ m.right >= n.right + 1 <=> <<m, n>> \in Tree
             /\ m.left <= n.left /\ m.right >= n.right
                  <=> <<m, n>> \in Tree \/ m = n
             /\ m.left >= n.left + 1 /\ m.left <= n.right - 1 <=> <<n, m>> \in Tree
             /\ m.left >= n.left /\ m.left <= n.right
                  <=> <<n, m>> \in Tree \/ m = n
  BY <1>1, <1>2
<1> USE DEF Descendants
<1>4. Axis(n, "ancestor") = Up(n)
  BY <1>3, AxisRanges DEF Up
<1>5. Axis(n, "ancestor-or-self") = Up(n) \cup {n}
  <2>1. Axis(n, "ancestor-or-self") =
          {m \in index : m.left <= n.left /\ m.right >= n.right}
    BY <1>1 DEF Axis, SearchAxes, Hits, Unsearched, Query, AncestorQuery
  <2> QED
    BY <1>1, <1>3, <2>1 DEF Up
<1>6. Axis(n, "descendant") = Descendants
  BY <1>3, AxisRanges
<1>7. Axis(n, "descendant-or-self") \in
        {Descendants \cup {n}} \cup (IF Leaf(n) THEN {{}} ELSE {})
  <2>1. CASE Leaf(n)
    BY <1>1, <2>1 DEF Axis, Hits, Unsearched
  <2>2. CASE ~Leaf(n)
    <3>1. Axis(n, "descendant-or-self") =
            {m \in index : m.left >= n.left /\ m.left <= n.right}
      BY <1>1, <2>2 DEF Axis, SearchAxes, Hits, Unsearched, Query, DescendantQuery
    <3> QED
      BY <1>1, <1>3, <3>1
  <2> QED
    BY <2>1, <2>2
<1> QED
  BY <1>4, <1>5, <1>6, <1>7

(* The other nodes of the document, before and after.                      *)
LEMMA HorizontalAxes ==
  ASSUME index \in Indexes, TypeOK, NEW n \in Stored
  PROVE  LET Descendants == {m \in index : <<n, m>> \in Tree}
         IN  /\ Axis(n, "following") =
                  {m \in InDocument(n) \ Descendants : m.left > n.left}
             /\ Axis(n, "preceding") =
                  {m \in InDocument(n) \ Up(n) : m.left < n.left}
<1> DEFINE Descendants == {m \in index : <<n, m>> \in Tree}
<1>1. /\ n \in index /\ Numbers(n) /\ n.left < n.right /\ n.left >= 2
      /\ 2 <= n.docLeft /\ n.docLeft <= n.left
  BY StoredNode, LeftsOfTops
<1>2. ASSUME NEW m \in InDocument(n)
      PROVE  /\ m \in index /\ Numbers(m)
             /\ m.left < m.right /\ m.docLeft <= m.left /\ m.right <= m.docRight
             /\ m.docLeft = n.docLeft /\ m.docRight = n.docRight
             /\ m.left < n.left => m.right < n.left \/ n.right < m.right
             /\ n.left < m.left => n.right < m.left \/ m.right < n.right
             /\ <<m, n>> \in Tree <=> m.left < n.left /\ n.right < m.right
             /\ <<n, m>> \in Tree <=> n.left < m.left /\ m.right < n.right
  <2>1. m \in Stored /\ m \in index /\ m.docLeft = n.docLeft
    BY StoredNode DEF InDocument
  <2> QED
    BY <1>1, <2>1, StoredNode, StoredPair, AnyPair, TreeIsNesting
<1>3. /\ Axis(n, "following") \subseteq InDocument(n) \cup Tops
      /\ Axis(n, "preceding") \subseteq InDocument(n) \cup Tops
  BY AxesStayInDocument DEF PartitionAxes
<1>4. DocumentNode.left = 0 /\ RootElement.left = 1
  BY DEF DocumentNode, RootElement, RootLeft
<1>5. /\ \A m \in Axis(n, "following") : m \in InDocument(n)
      /\ \A m \in Axis(n, "preceding") : m \in InDocument(n)
  <2>1. /\ \A m \in Axis(n, "following") : m.left >= n.right
        /\ \A m \in Axis(n, "preceding") : m.left >= n.docLeft
    BY AxisRanges
  <2>2. DocumentNode \notin Axis(n, "following") /\ RootElement \notin Axis(n, "following")
    BY <1>1, <1>4, <2>1 DEF Numbers
  <2>3. DocumentNode \notin Axis(n, "preceding") /\ RootElement \notin Axis(n, "preceding")
    BY <1>1, <1>4, <2>1 DEF Numbers
  <2> QED
    BY <1>3, <2>2, <2>3 DEF Tops
<1>6. ASSUME NEW m \in InDocument(n)
      PROVE  /\ m \in Axis(n, "following") <=> m \notin Descendants /\ m.left > n.left
             /\ m \in Axis(n, "preceding") <=> m \notin Up(n) /\ m.left < n.left
  <2>1. /\ m \in Axis(n, "following") <=> m.left >= n.right /\ m.right <= n.docRight
        /\ m \in Axis(n, "preceding") <=> m.right <= n.left /\ m.left >= n.docLeft
    BY <1>2, AxisRanges
  <2>2. /\ m \in Descendants <=> n.left < m.left /\ m.right < n.right
        /\ m \in Up(n) <=> m.left < n.left /\ n.right < m.right
    BY <1>2 DEF Up
  <2> HIDE DEF Descendants
  <2>3. /\ m.left \in Int /\ m.right \in Int /\ n.left \in Int /\ n.right \in Int
        /\ n.docLeft \in Int /\ n.docRight \in Int
        /\ n.docLeft <= m.left /\ m.right <= n.docRight
        /\ m.left < m.right /\ n.left < n.right
        /\ m.left < n.left => m.right < n.left \/ n.right < m.right
        /\ n.left < m.left => n.right < m.left \/ m.right < n.right
    BY <1>1, <1>2 DEF Numbers
  <2>4. /\ m.left >= n.right /\ m.right <= n.docRight
             <=> ~ (n.left < m.left /\ m.right < n.right) /\ m.left > n.left
        /\ m.right <= n.left /\ m.left >= n.docLeft
             <=> ~ (m.left < n.left /\ n.right < m.right) /\ m.left < n.left
    BY <2>3
  <2> QED
    BY <2>1, <2>2, <2>4
<1> HIDE DEF Descendants
<1>7. Axis(n, "following") = {m \in InDocument(n) \ Descendants : m.left > n.left}
  BY <1>5, <1>6
<1>8. Axis(n, "preceding") = {m \in InDocument(n) \ Up(n) : m.left < n.left}
  BY <1>5, <1>6
<1> QED
  BY <1>7, <1>8 DEF Descendants

(* The axes are those of XPath on the tree that the parent numbers make,   *)
(* for every index and every node of it: ranges of left and right numbers  *)
(* find what following the parents would.                                  *)
THEOREM AxesAreXPaths == Spec => []AxesFollowTree
<1>1. ASSUME IInv, Context \in Stored
      PROVE  AxesFollowTree
  <2> DEFINE n == Context
             Descendants == {m \in index : <<n, m>> \in Tree}
  <2>1. index \in Indexes /\ TypeOK /\ n \in Stored
    BY <1>1 DEF IInv
  <2>2. /\ Axis(n, "ancestor") = Up(n)
        /\ Axis(n, "ancestor-or-self") = Up(n) \cup {n}
        /\ Axis(n, "descendant") = Descendants
        /\ Axis(n, "descendant-or-self") \in
             {Descendants \cup {n}} \cup (IF Leaf(n) THEN {{}} ELSE {})
    BY <2>1, VerticalAxes
  <2>3. /\ Axis(n, "following") = {m \in InDocument(n) \ Descendants : m.left > n.left}
        /\ Axis(n, "preceding") = {m \in InDocument(n) \ Up(n) : m.left < n.left}
    BY <2>1, HorizontalAxes
  <2>4. ~n.textOnly /\ n.kind = "element" =>
          Axis(n, "child") = {m \in Descendants : Up(m) = Up(n) \cup {n}}
    BY <2>1, ChildAxis
  <2>5. /\ Axis(n, "following-sibling") = {m \in {x \in index : Up(x) = Up(n)} : m.left > n.left}
        /\ Axis(n, "preceding-sibling") = {m \in {x \in index : Up(x) = Up(n)} : m.left < n.left}
    BY <2>1, SiblingAxes
  <2> QED
    BY <2>2, <2>3, <2>4, <2>5 DEF AxesFollowTree, Up
<1>2. IInv => AxesFollowTree
  BY <1>1 DEF AxesFollowTree
<1> QED
  BY <1>2, InvariantHolds, PTL
=============================================================================
