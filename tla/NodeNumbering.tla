--------------------------- MODULE NodeNumbering ---------------------------
(***************************************************************************)
(* DocumentIndexer: numberNode gives every node of a document a left and a *)
(* right number and a depth in one recursive pass, kept in userDataMap;    *)
(* indexNode walks the same tree once more and writes one Lucene document  *)
(* per node, with what it finds in userDataMap.                            *)
(*                                                                         *)
(* A step of the model is one call of numberNode or indexNode on a node,   *)
(* or the return of one: stack holds the calls in progress.  The indexer   *)
(* outlives a document: nodeCounter goes on, or back to where it was when  *)
(* indexing fails, and userDataMap keeps old entries, because only         *)
(* documents that come in as a stream clear it.                            *)
(*                                                                         *)
(* Abstractions.  A node is an element of Nodes; its fields other than its *)
(* place (name, value, typed values, attributes, namespaces) are left out. *)
(* An exception while a field is computed is Fail, at any node.            *)
(***************************************************************************)
EXTENDS IndexTree, FiniteSets

CONSTANTS
  Nodes,        \* the nodes of all documents
  Roots,        \* the document elements
  Children,     \* for each node, its children in order
  Blank,        \* whitespace-only text nodes
  DepthLimit,   \* 128: the depth is a byte, from -DepthLimit to DepthLimit - 1
  MaxAdditions  \* bound on the number of additions

(* XML documents: a node is the child of one node at one place, a document *)
(* element of none, and is not a text node.                                *)
ASSUME ForestAssumption ==
  /\ Roots \subseteq Nodes \ Blank
  /\ Children \in [Nodes -> Seq(Nodes \ Roots)]
  /\ \A p, q \in Nodes : \A i \in 1 .. Len(Children[p]), j \in 1 .. Len(Children[q]) :
       Children[p][i] = Children[q][j] => p = q /\ i = j
ASSUME BoundsAssumption == DepthLimit \in Nat /\ DepthLimit > 2 /\ MaxAdditions \in Nat

VARIABLES
  phase,        \* "idle", "number" (numberNode) or "index" (indexNode)
  root,         \* the document element of the addition
  base,         \* nodeCounter when the addition started
  stack,        \* the recursive calls in progress
  userDataMap,  \* depth, left and right of the nodes numbered so far
  nodeCounter,
  numbered,     \* history: the nodes numberNode was called on for this document
  written,      \* the Lucene documents added for this document
  additions     \* additions so far

vars == <<phase, root, base, stack, userDataMap, nodeCounter, numbered,
          written, additions>>

(* A call: its node, and how many of its children it has passed.           *)
Frame    == [node : Nodes, next : Nat]
Top      == stack[Len(stack)]
Pop      == SubSeq(stack, 1, Len(stack) - 1)
Child    == Children[Top.node][Top.next + 1]
HasChild == stack # << >> /\ Top.next < Len(Children[Top.node])
Returns  == stack # << >> /\ Top.next = Len(Children[Top.node])
Advanced == [stack EXCEPT ![Len(stack)].next = @ + 1]

(* The Java type byte: depth wraps where the nesting reaches DepthLimit.   *)
Byte(x) == ((x + DepthLimit) % (2 * DepthLimit)) - DepthLimit
Depths  == -DepthLimit .. DepthLimit - 1

Put(f, n, data) == [m \in DOMAIN f \cup {n} |-> IF m = n THEN data ELSE f[m]]

-----------------------------------------------------------------------------
(* addDocument: numberNode is called on the document element, with depth 2.*)
Begin(r, isStream) ==
  /\ phase = "idle"
  /\ additions < MaxAdditions
  /\ additions' = additions + 1
  /\ phase' = "number"
  /\ root' = r
  /\ base' = nodeCounter
  /\ userDataMap' = Put(IF isStream THEN << >> ELSE userDataMap, r,
                        [depth |-> 2, left |-> nodeCounter, right |-> 0])
  /\ nodeCounter' = nodeCounter + 1
  /\ stack' = << [node |-> r, next |-> 0] >>
  /\ numbered' = {r}
  /\ written' = << >>

(* The stream is not well-formed: the map was cleared, nothing is numbered.*)
ParseError ==
  /\ phase = "idle"
  /\ additions < MaxAdditions
  /\ additions' = additions + 1
  /\ userDataMap' = << >>
  /\ numbered' = {}
  /\ written' = << >>
  /\ UNCHANGED <<phase, root, base, stack, nodeCounter>>

(* Slip: a node that was numbered before keeps its left number.            *)
NumberChild_reusesEntry ==
  /\ phase = "number" /\ HasChild
  /\ IF Child \in Blank
       THEN stack' = Advanced /\ UNCHANGED <<userDataMap, nodeCounter, numbered>>
       ELSE /\ userDataMap' = IF Child \in DOMAIN userDataMap THEN userDataMap
                 ELSE Put(userDataMap, Child,
                          [depth |-> Byte(userDataMap[Top.node].depth + 1),
                           left |-> nodeCounter, right |-> 0])
            /\ nodeCounter' = nodeCounter + 1
            /\ stack' = Append(Advanced, [node |-> Child, next |-> 0])
            /\ numbered' = numbered \cup {Child}
  /\ UNCHANGED <<phase, root, base, written, additions>>

(* Slip: a whitespace node takes a number although it is not indexed.      *)
NumberChild_countsBlank ==
  /\ phase = "number" /\ HasChild
  /\ IF Child \in Blank
       THEN /\ stack' = Advanced
            /\ nodeCounter' = nodeCounter + 1
            /\ UNCHANGED <<userDataMap, numbered>>
       ELSE /\ userDataMap' = Put(userDataMap, Child,
                 [depth |-> Byte(userDataMap[Top.node].depth + 1),
                  left |-> nodeCounter, right |-> 0])
            /\ nodeCounter' = nodeCounter + 1
            /\ stack' = Append(Advanced, [node |-> Child, next |-> 0])
            /\ numbered' = numbered \cup {Child}
  /\ UNCHANGED <<phase, root, base, written, additions>>

(* Slip: depth is increased after the loop over the children.              *)
NumberChild_depthOfParent ==
  /\ phase = "number" /\ HasChild
  /\ IF Child \in Blank
       THEN stack' = Advanced /\ UNCHANGED <<userDataMap, nodeCounter, numbered>>
       ELSE /\ userDataMap' = Put(userDataMap, Child,
                 [depth |-> userDataMap[Top.node].depth,
                  left |-> nodeCounter, right |-> 0])
            /\ nodeCounter' = nodeCounter + 1
            /\ stack' = Append(Advanced, [node |-> Child, next |-> 0])
            /\ numbered' = numbered \cup {Child}
  /\ UNCHANGED <<phase, root, base, written, additions>>

(* numberNode on the next child: a whitespace-only text node is skipped,   *)
(* any other takes its left number before its descendants.                 *)
NumberChild ==
  /\ phase = "number" /\ HasChild
  /\ IF Child \in Blank
       THEN stack' = Advanced /\ UNCHANGED <<userDataMap, nodeCounter, numbered>>
       ELSE /\ userDataMap' = Put(userDataMap, Child,
                 [depth |-> Byte(userDataMap[Top.node].depth + 1),
                  left |-> nodeCounter, right |-> 0])
            /\ nodeCounter' = nodeCounter + 1
            /\ stack' = Append(Advanced, [node |-> Child, next |-> 0])
            /\ numbered' = numbered \cup {Child}
  /\ UNCHANGED <<phase, root, base, written, additions>>

(* Slip: the right number does not use up the counter.                     *)
NumberReturn_sharesNumber ==
  /\ phase = "number" /\ Returns
  /\ userDataMap' = [userDataMap EXCEPT ![Top.node].right = nodeCounter]
  /\ stack' = Pop
  /\ phase' = IF Len(stack) = 1 THEN "index" ELSE "number"
  /\ UNCHANGED <<root, base, nodeCounter, numbered, written, additions>>

(* numberNode returns: the right number comes after all descendants.  With *)
(* the return of the outermost call indexNode is next.                     *)
NumberReturn ==
  /\ phase = "number" /\ Returns
  /\ userDataMap' = [userDataMap EXCEPT ![Top.node].right = nodeCounter]
  /\ nodeCounter' = nodeCounter + 1
  /\ stack' = Pop
  /\ phase' = IF Len(stack) = 1 THEN "index" ELSE "number"
  /\ UNCHANGED <<root, base, numbered, written, additions>>

(* The Lucene document of node n below the node with left number parent.   *)
(* docLeft and docRight are handed down from the document element.         *)
Record(n, parent) ==
  [node |-> n, depth |-> userDataMap[n].depth,
   left |-> userDataMap[n].left, right |-> userDataMap[n].right,
   parent |-> parent,
   docLeft |-> userDataMap[root].left, docRight |-> userDataMap[root].right]

IndexRoot ==
  /\ phase = "index" /\ stack = << >>
  /\ written' = << Record(root, RootLeft) >>
  /\ stack' = << [node |-> root, next |-> 0] >>
  /\ UNCHANGED <<phase, root, base, userDataMap, nodeCounter, numbered, additions>>

(* Slip: the parent of every node is the document element.                 *)
IndexChild_parentOfRoot ==
  /\ phase = "index" /\ HasChild
  /\ IF Child \in Blank
       THEN stack' = Advanced /\ UNCHANGED written
       ELSE /\ written' = Append(written,
                 Record(Child, userDataMap[stack[1].node].left))
            /\ stack' = Append(Advanced, [node |-> Child, next |-> 0])
  /\ UNCHANGED <<phase, root, base, userDataMap, nodeCounter, numbered, additions>>

(* Slip: a whitespace node ends the loop over the children.                *)
IndexChild_stopsAtBlank ==
  /\ phase = "index" /\ HasChild
  /\ IF Child \in Blank
       THEN /\ stack' = [stack EXCEPT ![Len(stack)].next = Len(Children[Top.node])]
            /\ UNCHANGED written
       ELSE /\ written' = Append(written,
                 Record(Child, userDataMap[Top.node].left))
            /\ stack' = Append(Advanced, [node |-> Child, next |-> 0])
  /\ UNCHANGED <<phase, root, base, userDataMap, nodeCounter, numbered, additions>>

(* indexNode on the next child: its parent's number is looked up in        *)
(* userDataMap.                                                            *)
IndexChild ==
  /\ phase = "index" /\ HasChild
  /\ IF Child \in Blank
       THEN stack' = Advanced /\ UNCHANGED written
       ELSE /\ written' = Append(written,
                 Record(Child, userDataMap[Top.node].left))
            /\ stack' = Append(Advanced, [node |-> Child, next |-> 0])
  /\ UNCHANGED <<phase, root, base, userDataMap, nodeCounter, numbered, additions>>

IndexReturn ==
  /\ phase = "index" /\ Returns
  /\ stack' = Pop
  /\ phase' = IF Len(stack) = 1 THEN "idle" ELSE "index"
  /\ UNCHANGED <<root, base, userDataMap, nodeCounter, numbered, written, additions>>

(* An exception in indexNode: NodeStore removes what was written and sets  *)
(* the counter back; userDataMap is left as it is.                         *)
Fail ==
  /\ phase = "index"
  /\ phase' = "idle"
  /\ nodeCounter' = base
  /\ stack' = << >>
  /\ written' = << >>
  /\ UNCHANGED <<root, base, userDataMap, numbered, additions>>

(* An Error, such as a stack overflow, in either recursion: NodeStore does  *)
(* not catch it.  The counter stays where it is; what becomes of the nodes *)
(* that were written is NodeStore's matter.                                *)
Error ==
  /\ phase # "idle"
  /\ phase' = "idle"
  /\ stack' = << >>
  /\ numbered' = {}
  /\ written' = << >>
  /\ UNCHANGED <<root, base, userDataMap, nodeCounter, additions>>

Init ==
  /\ phase = "idle"
  /\ root \in Roots
  /\ base = FirstLeft
  /\ stack = << >>
  /\ userDataMap = << >>
  /\ nodeCounter = FirstLeft
  /\ numbered = {}
  /\ written = << >>
  /\ additions = 0

Next ==
  \/ \E r \in Roots, isStream \in BOOLEAN : Begin(r, isStream)
  \/ ParseError
  \/ NumberChild
  \/ NumberReturn
  \/ IndexRoot
  \/ IndexChild
  \/ IndexReturn
  \/ Fail
  \/ Error

Spec == Init /\ [][Next]_vars

-----------------------------------------------------------------------------
UserData == [depth : Depths, left : Nat, right : Nat]
LuceneDocument == [node : Nodes, depth : Depths, left : Nat, right : Nat,
                   parent : Nat, docLeft : Nat, docRight : Nat]

(* The state is well typed.                                                *)
TypeOK ==
  /\ phase \in {"idle", "number", "index"}
  /\ root \in Roots
  /\ base \in Nat
  /\ stack \in Seq(Frame)
  /\ DOMAIN userDataMap \subseteq Nodes
  /\ \A n \in DOMAIN userDataMap : userDataMap[n] \in UserData
  /\ nodeCounter \in Nat
  /\ numbered \in SUBSET (DOMAIN userDataMap)
  /\ written \in Seq(LuceneDocument)
  /\ additions \in Nat

(* numberNode is still at work on node n.                                  *)
Open(n)   == phase = "number" /\ \E i \in 1 .. Len(stack) : stack[i].node = n
Closed(n) == n \in numbered /\ ~Open(n)
left(n)   == userDataMap[n].left
right(n)  == userDataMap[n].right

(* Two nodes of a document have disjoint intervals, or one lies inside the *)
(* other: at every point of the numbering, for all nodes it is done with,  *)
(* although userDataMap still holds numbers of earlier documents.          *)
Laminar ==
  \A m, n \in numbered :
    Closed(m) /\ Closed(n) /\ left(m) < left(n)
      => right(m) < left(n) \/ right(n) < right(m)

(* The interval of a child lies strictly inside its parent's: the child,   *)
(* descendant and ancestor axes are range queries that rely on it.         *)
ChildInsideParent ==
  \A p \in numbered : \A i \in 1 .. Len(Children[p]) :
    LET c == Children[p][i]
    IN  c \in numbered /\ Closed(p)
          => /\ Closed(c)
             /\ left(p) < left(c) /\ left(c) < right(c) /\ right(c) < right(p)

(* What was written, with the numbers counted from the document's first.   *)
Relative ==
  [i \in 1 .. Len(written) |->
     [left   |-> written[i].left - base,
      right  |-> written[i].right - base,
      parent |-> IF i = 1 THEN 0 ELSE written[i].parent - base]]

(* A document that was indexed without an exception is a numbered tree in  *)
(* the sense of NodeStore, and used two numbers per node, none of them an  *)
(* earlier document's.                                                     *)
FinishedIsNumbered ==
  phase = "idle" /\ written # << >> =>
    /\ Numbered(Relative)
    /\ nodeCounter = base + 2 * Len(written)
    /\ \A i \in 1 .. Len(written) :
         written[i].docLeft = base /\ written[i].docRight = nodeCounter - 1

(* The parent number and the intervals are two encodings of one tree: what *)
(* the child axis finds by the parent number, the ancestor axis finds as   *)
(* the innermost interval around the node.                                 *)
ParentIsInnermost ==
  \A i \in 2 .. Len(written) :
    LET Around == {j \in 1 .. Len(written) :
                     /\ written[j].left < written[i].left
                     /\ written[i].right < written[j].right}
    IN  \E j \in Around :
          /\ written[j].left = written[i].parent
          /\ \A k \in Around : written[k].left <= written[j].left

(* The tree of what is indexed, from the document alone: the children that *)
(* are kept, and the pairs of a node and one at or below it, which is in   *)
(* every set that has the node and the children of its members.            *)
Present == {written[i].node : i \in 1 .. Len(written)}
Kept(p) == {Children[p][k] : k \in 1 .. Len(Children[p])} \ Blank
Tree ==
  LET Whole == {S \in SUBSET Present :
                  \A p \in S : Kept(p) \cap Present \subseteq S}
  IN  {e \in Present \X Present : \A S \in Whole : e[1] \in S => e[2] \in S}

(* A node comes before those below it, and before those below a later      *)
(* sibling of a node it is at or below.                                    *)
Before(tree, m, n) ==
  \/ m # n /\ <<m, n>> \in tree
  \/ \E p \in Present : \E h, k \in 1 .. Len(Children[p]) :
       h < k /\ <<Children[p][h], m>> \in tree /\ <<Children[p][k], n>> \in tree

Finished == phase = "idle" /\ written # << >>

(* The index holds the document element and all that is below it but for   *)
(* whitespace, in document order, and each node once.                      *)
DocumentOrder ==
  Finished =>
    LET tree == Tree
    IN  /\ \A n \in Present : <<root, n>> \in tree /\ Kept(n) \subseteq Present
        /\ \A i, j \in 1 .. Len(written) :
             i < j => Before(tree, written[i].node, written[j].node)

(* The document element is at level 2, below the two nodes of the index.   *)
Level(tree, n) == 1 + Cardinality({m \in Present : <<m, n>> \in tree})

(* XMLIndexNodeInfo.copy closes as many elements between two nodes as the  *)
(* depth drops from one to the next: that is right as long as the nesting  *)
(* fits in the byte that numberNode counts in, and only so long.           *)
DepthTellsNesting ==
  Finished =>
    LET tree == Tree
        level(n) == Level(tree, n.node)
    IN  \A i \in 1 .. Len(written) - 1 :
          LET m == written[i]
              n == written[i + 1]
          IN  level(m) < DepthLimit
                => (n.depth - m.depth = level(n) - level(m) <=> level(n) < DepthLimit)
=============================================================================
