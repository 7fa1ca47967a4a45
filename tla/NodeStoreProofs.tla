-------------------------- MODULE NodeStoreProofs --------------------------
(***************************************************************************)
(* Proofs about NodeStore, and about SerialNodeStore and the DocStore it   *)
(* implements, for every set of URIs, sessions and trees and every number  *)
(* of calls.                                                               *)
(***************************************************************************)
EXTENDS SerialNodeStore, FiniteSetTheorems, SequenceTheorems, TLAPS

-----------------------------------------------------------------------------
(* Trees and their nodes.                                                  *)

(* What TreesAssumption says of one node of a tree.                        *)
LEMMA TreeNode ==
  ASSUME NEW t \in Trees, NEW i \in 1 .. Len(t)
  PROVE  /\ t \in Seq([left : Nat, right : Nat, parent : Nat])
         /\ Len(t) \in Nat /\ Len(t) > 0
         /\ t[i].left \in Nat /\ t[i].right \in Nat /\ t[i].parent \in Nat
         /\ t[i].left < t[i].right /\ t[i].right < 2 * Len(t)
<1>1. Numbered(t)
  BY TreesAssumption
<1>2. t \in Seq([left : Nat, right : Nat, parent : Nat])
  BY <1>1 DEF Numbered
<1>3. t[i] \in [left : Nat, right : Nat, parent : Nat]
  BY <1>2, ElementOfSeq
<1>4. /\ Len(t) \in Nat /\ Len(t) > 0
      /\ t[i].left < t[i].right /\ t[i].right < 2 * Len(t)
  BY <1>1, <1>2 DEF Numbered
<1> QED
  BY <1>2, <1>3, <1>4

(* A tree has a node.                                                      *)
LEMMA TreeNotEmpty ==
  ASSUME NEW t \in Trees
  PROVE  Len(t) \in Nat /\ Len(t) > 0
  BY TreesAssumption DEF Numbered

(* The Lucene document of a node is well typed, carries its URI, and its   *)
(* numbers lie in the interval of its version.                             *)
LEMMA NodeFacts ==
  ASSUME NEW u \in Uris, NEW d \in [ver : Nat, base : Nat, tree : Trees],
         NEW i \in 1 .. Len(d.tree)
  PROVE  /\ Node(u, d, i) \in NodeRecord
         /\ Node(u, d, i).uri = u
         /\ Node(u, d, i).left = d.base + d.tree[i].left
         /\ Node(u, d, i).right = d.base + d.tree[i].right
         /\ d.base <= Node(u, d, i).left
         /\ Node(u, d, i).left < Node(u, d, i).right
         /\ Node(u, d, i).right < d.base + Size(d)
<1>1. /\ d.tree \in Trees /\ d.base \in Nat /\ d.ver \in Nat
  OBVIOUS
<1>2. 1 \in 1 .. Len(d.tree)
  BY <1>1, TreeNotEmpty
<1>3. /\ d.tree[i].left \in Nat /\ d.tree[i].right \in Nat /\ d.tree[i].parent \in Nat
      /\ d.tree[i].left < d.tree[i].right /\ d.tree[i].right < 2 * Len(d.tree)
      /\ Len(d.tree) \in Nat
  BY <1>1, TreeNode
<1>4. d.tree[1].left \in Nat
  BY <1>1, <1>2, TreeNode
<1>5. Node(u, d, i) \in NodeRecord
  <2>1. d.base + d.tree[i].left \in Nat /\ d.base + d.tree[i].right \in Nat
    BY <1>1, <1>3
  <2>2. d.base + d.tree[i].parent \in Nat
    BY <1>1, <1>3
  <2>3. d.base + d.tree[1].left \in Nat
    BY <1>1, <1>4
  <2> QED
    BY <1>1, <2>1, <2>2, <2>3 DEF Node, NodeRecord, RootLeft
<1> QED
  BY <1>1, <1>3, <1>5 DEF Node, Size

-----------------------------------------------------------------------------
(* Type correctness.                                                       *)

(* Removing a document leaves an image.                                    *)
LEMMA WithoutType ==
  ASSUME NEW img \in Image, NEW u \in Uris
  PROVE  /\ Without(img, u) \in Image
         /\ Without(img, u).nodes = {n \in img.nodes : n.uri # u}
         /\ Without(img, u).counter = img.counter
         /\ Without(img, u).docs = [img.docs EXCEPT ![u] = NoDoc]
         /\ Without(img, u).torn = img.torn \ {u}
         /\ Without(img, u).damaged = img.damaged \ {u}
         /\ Without(img, u).ahead = img.ahead \ {u}
         /\ Without(img, u).shared = img.shared \ {u}
  BY DEF Without, Image, Version, NoDoc

(* So does capturing the writer.                                           *)
LEMMA CaptureType ==
  ASSUME TypeOK
  PROVE  /\ Capture \in Image
         /\ Capture.nodes = writer.nodes
         /\ Capture.counter = writer.counter
         /\ Capture.docs = writer.docs
         /\ Capture.torn = IF Adding /\ 0 < op.added /\ op.added < Len(op.doc.tree)
                             THEN writer.torn \cup {op.uri} ELSE writer.torn
         /\ Capture.ahead = IF Adding /\ 0 < op.added
                              THEN writer.ahead \cup {op.uri} ELSE writer.ahead
         /\ Capture.shared = writer.shared
         /\ Capture.damaged = IF Reindexing
                                THEN writer.damaged \cup {op.uri} ELSE writer.damaged
<1>1. Adding => op.uri \in Uris
  BY DEF TypeOK, Adding, NoOp, AddOp, ReindexOp
<1>2. Reindexing => op.uri \in Uris
  BY DEF TypeOK, Reindexing, NoOp, AddOp, ReindexOp
<1>3. writer \in Image
  BY DEF TypeOK
<1> QED
  BY <1>1, <1>2, <1>3 DEF Capture, Image

(* What op is while an addition or a reindex is in progress.               *)
LEMMA OpType ==
  ASSUME TypeOK
  PROVE  /\ Adding => /\ op \in AddOp
                      /\ op.session \in Sessions /\ op.uri \in Uris /\ op.added \in Nat
                      /\ op.doc \in [ver : Nat, base : Nat, tree : Trees]
                      /\ op.doc \in Version
                      /\ ~Reindexing
         /\ Reindexing => /\ op \in ReindexOp
                          /\ op.session \in Sessions /\ op.uri \in Uris
                          /\ op.node \in NodeRecord
         /\ op = NoOp => ~Adding /\ ~Reindexing
         /\ ~Adding /\ ~Reindexing => op = NoOp
  BY DEF TypeOK, Adding, Reindexing, NoOp, AddOp, ReindexOp, Version

(* A restart keeps the nodes.                                              *)
LEMMA RestartedType ==
  ASSUME NEW img \in Image, NEW c \in Nat
  PROVE  /\ Restarted(img) \in Image
         /\ Restarted(img).nodes = img.nodes
         /\ Restarted(img).counter = img.counter
         /\ Restarted(img).docs = img.docs
         /\ Restarted(img).torn = img.torn
         /\ Restarted(img).damaged = img.damaged
         /\ Restarted(img).ahead = {}
         /\ Restarted(img).shared = img.shared \cup img.ahead
         /\ [Restarted(img) EXCEPT !.counter = c] \in Image
         /\ [Restarted(img) EXCEPT !.counter = c].nodes = img.nodes
         /\ [Restarted(img) EXCEPT !.counter = c].counter = c
         /\ [Restarted(img) EXCEPT !.counter = c].docs = img.docs
         /\ [Restarted(img) EXCEPT !.counter = c].torn = img.torn
         /\ [Restarted(img) EXCEPT !.counter = c].damaged = img.damaged
         /\ [Restarted(img) EXCEPT !.counter = c].ahead = {}
         /\ [Restarted(img) EXCEPT !.counter = c].shared = img.shared \cup img.ahead
  BY DEF Restarted, Image

(* What Open loads: the last commit, with a counter that is not behind the *)
(* one that was committed.                                                 *)
LEMMA OpenLoads ==
  ASSUME TypeOK, Open
  PROVE  \E img \in Image :
           /\ Load(img)
           /\ img.nodes = durable.nodes
           /\ img.counter \in Nat /\ durable.counter \in Nat
           /\ durable.counter <= img.counter
           /\ img.counter = IF durable.counter = 0 THEN FirstLeft ELSE durable.counter
           /\ img.docs = durable.docs
           /\ img.torn = durable.torn
           /\ img.damaged = durable.damaged
           /\ img.ahead = {}
           /\ img.shared = durable.shared \cup durable.ahead
<1>1. durable \in Image /\ durable.counter \in Nat /\ FirstLeft \in Nat
  BY DEF TypeOK, Image, FirstLeft
<1>2. CASE durable.counter = 0
  <2> DEFINE img == [Restarted(durable) EXCEPT !.counter = FirstLeft]
  <2>1. /\ img \in Image /\ img.nodes = durable.nodes /\ img.counter = FirstLeft
        /\ img.docs = durable.docs /\ img.torn = durable.torn
        /\ img.damaged = durable.damaged /\ img.ahead = {}
        /\ img.shared = durable.shared \cup durable.ahead
    BY <1>1, RestartedType
  <2>2. Load(img)
    BY <1>2 DEF Open
  <2>3. durable.counter <= FirstLeft
    BY <1>2 DEF FirstLeft
  <2> HIDE DEF img
  <2> QED
    BY <1>1, <1>2, <2>1, <2>2, <2>3
<1>3. CASE durable.counter # 0
  <2> DEFINE img == Restarted(durable)
  <2>1. /\ img \in Image /\ img.nodes = durable.nodes /\ img.counter = durable.counter
        /\ img.docs = durable.docs /\ img.torn = durable.torn
        /\ img.damaged = durable.damaged /\ img.ahead = {}
        /\ img.shared = durable.shared \cup durable.ahead
    BY <1>1, RestartedType
  <2>2. Load(img)
    BY <1>3 DEF Open
  <2>3. durable.counter <= durable.counter
    BY <1>1
  <2> HIDE DEF img
  <2> QED
    BY <1>1, <1>3, <2>1, <2>2, <2>3
<1> QED
  BY <1>2, <1>3

(* The volatile state after Load is well typed.                            *)
LEMMA LoadType ==
  ASSUME TypeOK, NEW img \in Image, Load(img), up' \in BOOLEAN,
         snapshot' \in [Sessions -> Image]
  PROVE  TypeOK'
<1>1. img.counter \in Nat
  BY DEF Image
<1> QED
  BY <1>1 DEF Load, TypeOK, NoOp

(* ReindexBegin restores the URI of a node of the snapshot.                *)
LEMMA ReindexNodeType ==
  ASSUME TypeOK, NEW s \in Sessions, NEW n \in snapshot[s].nodes,
         NEW b \in BaseUris(snapshot[s], n)
  PROVE  /\ n \in NodeRecord /\ b \in Uris
         /\ [n EXCEPT !.uri = b] \in NodeRecord
         /\ [n EXCEPT !.uri = b].uri = b
         /\ [n EXCEPT !.uri = b].left = n.left
<1>1. snapshot[s].nodes \subseteq NodeRecord
  BY DEF TypeOK, Image
<1>2. n \in NodeRecord
  BY <1>1
<1>3. PICK m \in snapshot[s].nodes : b = m.uri
  BY DEF BaseUris
<1>4. b \in Uris
  BY <1>1, <1>3 DEF NodeRecord
<1> QED
  BY <1>2, <1>4 DEF NodeRecord

(* The counter that an Error leaves lies between the addition's base and   *)
(* its last number.                                                        *)
LEMMA AddErrorCounter ==
  ASSUME TypeOK, NEW s \in Sessions, AddError(s)
  PROVE  /\ nodeCounter' \in Nat
         /\ op.doc.base <= nodeCounter' \/ nodeCounter' = nodeCounter
<1>1. op.doc.base \in Nat /\ nodeCounter \in Nat
  BY OpType DEF AddError, TypeOK
<1> QED
  BY <1>1 DEF AddError

(* The nodes that the first write of reindexNode deletes.                  *)
Hit(n) == {m \in writer.nodes : m.left = n.left}

(* The writer after that write.                                            *)
LEMMA ReindexWriter ==
  ASSUME TypeOK, NEW s \in Sessions, NEW n \in snapshot[s].nodes,
         NEW b \in BaseUris(snapshot[s], n), ReindexDelete(s, n, b),
         NEW new, new = [n EXCEPT !.uri = b]
  PROVE  /\ writer' \in Image
         /\ writer'.nodes = writer.nodes \ Hit(n)
         /\ writer'.counter = writer.counter
         /\ writer'.docs = writer.docs
         /\ writer'.torn = writer.torn
         /\ writer'.ahead = writer.ahead
         /\ writer'.shared = writer.shared \cup (IF new \in Hit(n) THEN {} ELSE {b})
         /\ writer'.damaged = writer.damaged \cup {m.uri : m \in Hit(n) \ {new}}
                                \cup (IF new \in Hit(n) THEN {} ELSE {b})
<1>1. b \in Uris
  BY ReindexNodeType
<1>2. writer \in Image /\ \A m \in writer.nodes : m.uri \in Uris
  BY DEF TypeOK, Image, NodeRecord
<1> DEFINE D == writer.damaged \cup {m.uri : m \in Hit(n) \ {new}}
                                \cup (IF new \in Hit(n) THEN {} ELSE {b})
           S == writer.shared \cup (IF new \in Hit(n) THEN {} ELSE {b})
<1>3. D \in SUBSET Uris /\ S \in SUBSET Uris
  BY <1>1, <1>2 DEF Hit, Image
<1>4. writer' = [writer EXCEPT !.nodes = @ \ Hit(n), !.damaged = D, !.shared = S]
  BY DEF ReindexDelete, Hit
<1> HIDE DEF D, S
<1>5. /\ writer' \in Image
      /\ writer'.nodes = writer.nodes \ Hit(n)
      /\ writer'.counter = writer.counter
      /\ writer'.docs = writer.docs
      /\ writer'.torn = writer.torn
      /\ writer'.ahead = writer.ahead
      /\ writer'.shared = S
      /\ writer'.damaged = D
  BY <1>2, <1>3, <1>4 DEF Image
<1> QED
  BY <1>5 DEF D, S

(* The writer after a node was added.                                      *)
LEMMA AddNodeWriter ==
  ASSUME TypeOK, NEW s \in Sessions, AddNode(s)
  PROVE  /\ op.added + 1 \in 1 .. Len(op.doc.tree)
         /\ op.added + 1 \in Nat
         /\ Node(op.uri, op.doc, op.added + 1) \in NodeRecord
         /\ writer' \in Image
         /\ writer'.nodes = writer.nodes \cup {Node(op.uri, op.doc, op.added + 1)}
         /\ writer'.counter = writer.counter
         /\ writer'.docs = [writer.docs EXCEPT ![op.uri] =
               IF op.added + 1 = Len(op.doc.tree) THEN op.doc ELSE @]
         /\ writer'.torn = writer.torn
         /\ writer'.damaged = writer.damaged
         /\ writer'.ahead = writer.ahead
         /\ writer'.shared = writer.shared
<1>1. /\ Adding /\ op.uri \in Uris /\ op.added \in Nat /\ op.doc \in Version
      /\ op.doc \in [ver : Nat, base : Nat, tree : Trees]
  BY OpType DEF AddNode
<1>2. Len(op.doc.tree) \in Nat
  BY <1>1, TreeNotEmpty
<1>3. op.added + 1 \in 1 .. Len(op.doc.tree)
  BY <1>1, <1>2 DEF AddNode
<1>4. Node(op.uri, op.doc, op.added + 1) \in NodeRecord
  BY <1>1, <1>3, NodeFacts
<1>5. writer \in Image
  BY DEF TypeOK
<1> DEFINE d == IF op.added + 1 = Len(op.doc.tree) THEN op.doc ELSE writer.docs[op.uri]
<1>6. d \in Version
  BY <1>1, <1>5 DEF Image
<1> DEFINE nodes == writer.nodes \cup {Node(op.uri, op.doc, op.added + 1)}
           docs  == [writer.docs EXCEPT ![op.uri] = d]
<1>7. nodes \in SUBSET NodeRecord
  BY <1>4, <1>5 DEF Image
<1>8. docs \in [Uris -> Version]
  BY <1>1, <1>5, <1>6 DEF Image
<1>9. writer' = [writer EXCEPT !.nodes = nodes, !.docs = docs]
  BY <1>5 DEF AddNode, Image
<1>10. op.added + 1 \in Nat
  BY <1>1
<1> HIDE DEF d, nodes, docs
<1>11. /\ writer' \in Image
       /\ writer'.nodes = nodes
       /\ writer'.counter = writer.counter
       /\ writer'.docs = docs
       /\ writer'.torn = writer.torn
       /\ writer'.damaged = writer.damaged
       /\ writer'.ahead = writer.ahead
       /\ writer'.shared = writer.shared
  BY <1>5, <1>7, <1>8, <1>9 DEF Image
<1> QED
  BY <1>3, <1>4, <1>10, <1>11 DEF d, nodes, docs

(* The writer after a removal.                                             *)
LEMMA RemovalWriter ==
  ASSUME TypeOK, NEW s \in Sessions, NEW u \in Uris, RemoveDocument(s, u)
  PROVE  /\ writer' \in Image
         /\ writer'.nodes = Without(writer, u).nodes
         /\ writer'.counter = Without(writer, u).counter
         /\ writer'.docs = Without(writer, u).docs
         /\ writer'.torn = Without(writer, u).torn
         /\ writer'.damaged = IF RemovalRaces(u)
                               THEN Without(writer, u).damaged \cup {u}
                               ELSE Without(writer, u).damaged
         /\ writer'.ahead = IF ComesBack(u) THEN writer.ahead ELSE Without(writer, u).ahead
         /\ writer'.shared = IF ComesBack(u) THEN writer.shared ELSE Without(writer, u).shared
<1> DEFINE new == Without(writer, u)
           D == IF RemovalRaces(u) THEN new.damaged \cup {u} ELSE new.damaged
           A == IF ComesBack(u) THEN writer.ahead ELSE new.ahead
           S == IF ComesBack(u) THEN writer.shared ELSE new.shared
<1>1. writer \in Image /\ new \in Image
  BY WithoutType DEF TypeOK
<1>2. D \in SUBSET Uris /\ A \in SUBSET Uris /\ S \in SUBSET Uris
  BY <1>1 DEF Image
<1>3. writer' = [new EXCEPT !.damaged = D, !.ahead = A, !.shared = S]
  BY DEF RemoveDocument
<1> HIDE DEF D, A, S
<1> HIDE DEF new
<1>4. /\ writer' \in Image
      /\ writer'.nodes = new.nodes
      /\ writer'.counter = new.counter
      /\ writer'.docs = new.docs
      /\ writer'.torn = new.torn
      /\ writer'.damaged = D
      /\ writer'.ahead = A
      /\ writer'.shared = S
  BY <1>1, <1>2, <1>3 DEF Image
<1> QED
  BY <1>4 DEF D, A, S, new

(* The writer at the end of an addition.                                   *)
LEMMA AddEndWriter ==
  ASSUME TypeOK, NEW s \in Sessions, AddEnd(s)
  PROVE  /\ writer' \in Image
         /\ writer'.nodes = writer.nodes
         /\ writer'.counter = nodeCounter
         /\ writer'.docs = writer.docs
         /\ writer'.torn = writer.torn
         /\ writer'.damaged = writer.damaged
         /\ writer'.ahead = {}
         /\ writer'.shared = writer.shared
  BY DEF AddEnd, TypeOK, Image

(* Every step keeps the state well typed.                                  *)
LEMMA TypeStep ==
  ASSUME TypeOK, [Next]_vars
  PROVE  TypeOK'
<1>1. CASE Open
  <2>1. PICK img \in Image : Load(img)
    BY <1>1, OpenLoads
  <2> QED
    BY <1>1, <2>1, LoadType DEF Open, TypeOK
<1>2. CASE Close
  BY <1>2, CaptureType, LoadType DEF Close, TypeOK
<1>3. CASE Crash
  <2>1. durable \in Image
    BY DEF TypeOK
  <2> QED
    BY <1>3, <2>1, LoadType DEF Crash
<1>4. CASE Refresh
  BY <1>4, CaptureType DEF Refresh, TypeOK
<1>5. ASSUME NEW s \in Sessions, SessionNext(s)
      PROVE  TypeOK'
  <2>1. ASSUME NEW u \in Uris, NEW t \in Trees, AddBegin(s, u, t)
        PROVE  TypeOK'
    <3>1. /\ calls \in Nat /\ nodeCounter \in Nat /\ Len(t) \in Nat /\ writer \in Image
      BY TreeNotEmpty DEF TypeOK
    <3>2. calls + 1 \in Nat /\ nodeCounter + 2 * Len(t) \in Nat
      BY <3>1
    <3>3. op' \in AddOp
      BY <2>1, <3>1, <3>2 DEF AddBegin, AddOp
    <3>4. writer' \in Image
      BY <2>1, <3>1, WithoutType DEF AddBegin
    <3> QED
      BY <2>1, <3>2, <3>3, <3>4 DEF AddBegin, Call, TypeOK
  <2>2. CASE AddNode(s)
    <3>1. writer' \in Image /\ op.added + 1 \in Nat
      BY <2>2, AddNodeWriter
    <3>2. op' \in AddOp
      <4>1. op \in AddOp /\ op' = [op EXCEPT !.added = @ + 1]
        BY <2>2, OpType DEF AddNode
      <4> QED
        BY <3>1, <4>1 DEF AddOp
    <3> QED
      BY <2>2, <3>1, <3>2 DEF AddNode, TypeOK
  <2>3. CASE AddEnd(s)
    <3>1. writer' \in Image
      BY <2>3, AddEndWriter
    <3> QED
      BY <2>3, <3>1 DEF AddEnd, TypeOK
  <2>4. CASE AddFail(s)
    <3>1. /\ op.uri \in Uris /\ op.doc \in Version
      BY <2>4, OpType DEF AddFail
    <3>2. writer' \in Image
      BY <2>4, <3>1, WithoutType DEF AddFail, TypeOK
    <3> QED
      BY <2>4, <3>1, <3>2 DEF AddFail, TypeOK, Version
  <2>5. CASE AddError(s)
    BY <2>5, CaptureType, AddErrorCounter DEF AddError, TypeOK
  <2>6. ASSUME NEW u \in Uris, RemoveDocument(s, u)
        PROVE  TypeOK'
    <3>1. writer' \in Image
      BY <2>6, RemovalWriter
    <3>2. calls + 1 \in Nat
      BY DEF TypeOK
    <3> QED
      BY <2>6, <3>1, <3>2 DEF RemoveDocument, Call, TypeOK
  <2>7. ASSUME ReindexBegin(s)
        PROVE  TypeOK'
    <3>1. PICK n \in snapshot[s].nodes :
             \E b \in BaseUris(snapshot[s], n) : ReindexDelete(s, n, b)
      BY <2>7 DEF ReindexBegin
    <3>2. PICK b \in BaseUris(snapshot[s], n) : ReindexDelete(s, n, b)
      BY <3>1
    <3>3. b \in Uris /\ [n EXCEPT !.uri = b] \in NodeRecord
      BY ReindexNodeType
    <3>4. op' \in ReindexOp
      BY <3>2, <3>3 DEF ReindexDelete, ReindexOp
    <3>5. writer' \in Image
      BY <3>2, ReindexWriter
    <3>6. calls + 1 \in Nat
      BY DEF TypeOK
    <3> QED
      BY <3>2, <3>4, <3>5, <3>6 DEF ReindexDelete, Call, TypeOK
  <2>8. CASE ReindexAdd(s)
    <3>1. op.node \in NodeRecord
      BY <2>8, OpType DEF ReindexAdd
    <3>2. writer' \in Image
      BY <2>8, <3>1 DEF ReindexAdd, TypeOK, Image
    <3> QED
      BY <2>8, <3>2 DEF ReindexAdd, TypeOK
  <2>9. ASSUME NEW w \in BOOLEAN, Commit(s, w)
        PROVE  TypeOK'
    <3>1. Capture \in Image /\ calls + 1 \in Nat
      BY CaptureType DEF TypeOK
    <3> QED
      BY <2>9, <3>1 DEF Commit, Call, TypeOK
  <2>10. CASE SwitchSearcher(s)
    BY <2>10, CaptureType DEF SwitchSearcher, TypeOK
  <2>11. CASE AquireSession(s)
    <3>1. calls + 1 \in Nat
      BY DEF TypeOK
    <3> QED
      BY <2>11, <3>1 DEF AquireSession, Call, TypeOK
  <2> QED
    BY <1>5, <2>1, <2>2, <2>3, <2>4, <2>6, <2>7, <2>8, <2>9, <2>10, <2>11,
       <2>5 DEF SessionNext
<1>6. CASE UNCHANGED vars
  BY <1>6 DEF vars, TypeOK, Adding, Reindexing
<1> QED
  BY <1>1, <1>2, <1>3, <1>4, <1>5, <1>6 DEF Next

(* The first state is well typed.                                          *)
LEMMA InitType == Init => TypeOK
<1> SUFFICES ASSUME Init PROVE TypeOK
  OBVIOUS
<1> DEFINE img == [nodes |-> {}, counter |-> 0, docs |-> [u \in Uris |-> NoDoc],
                   torn |-> {}, damaged |-> {}, ahead |-> {}, shared |-> {}]
<1>1. img \in Image
  BY DEF Image, Version, NoDoc
<1> HIDE DEF img
<1>2. /\ durable = img /\ writer = img /\ searcher = img
      /\ snapshot = [s \in Sessions |-> img]
  BY DEF Init, img
<1> QED
  BY <1>1, <1>2 DEF Init, TypeOK, NoOp

(* The state of the node store stays well typed, whatever the sessions,    *)
(* the reopen thread and the process do.                                   *)
THEOREM TypeCorrect == Spec => []TypeOK
  BY InitType, TypeStep, PTL DEF Spec

-----------------------------------------------------------------------------
(* The inductive invariant.  IntactDocuments and RecoverableCounter speak  *)
(* of what can be seen; they hold at the next capture only because of what *)
(* the monitor's holder has done so far.                                   *)

(* The writer: its documents are intact, except for the one that is being  *)
(* added, which has a prefix of its nodes, and for the one node that is    *)
(* between the two writes of a reindex.                                    *)
AddedTo(u)  == Adding /\ op.uri = u
Reindexed(u) == Reindexing /\ op.uri = u

WriterNodesOf(u) ==
  /\ ~AddedTo(u) /\ ~Reindexed(u) =>
       NodesOf(writer, u) = DocNodes(u, writer.docs[u])
  /\ AddedTo(u) /\ op.added < Len(op.doc.tree) =>
       /\ NodesOf(writer, u) = Prefix(u, op.doc, op.added)
       /\ writer.docs[u] = NoDoc
  /\ AddedTo(u) /\ op.added = Len(op.doc.tree) =>
       /\ NodesOf(writer, u) = DocNodes(u, writer.docs[u])
       /\ writer.docs[u] \in {NoDoc, op.doc}
  /\ Reindexed(u) =>
       /\ op.node \in DocNodes(u, writer.docs[u])
       /\ NodesOf(writer, u) = DocNodes(u, writer.docs[u]) \ {op.node}

WriterIntact == \A u \in Healthy(writer) : WriterNodesOf(u)

(* An addition starts at or above the stored counter (above, after an      *)
(* Error), and nodeCounter is beyond the numbers of the addition.          *)
Counters ==
  /\ writer.counter <= nodeCounter
  /\ Adding => /\ writer.counter <= op.doc.base
               /\ nodeCounter = op.doc.base + Size(op.doc)
               /\ op.added <= Len(op.doc.tree)

OpNode == Reindexing => op.node.uri = op.uri

WriterInv == WriterIntact /\ Counters /\ OpNode

IInv ==
  /\ TypeOK
  /\ WriterInv
  /\ Intact(durable)
  /\ Intact(searcher)
  /\ \A s \in Sessions : Intact(snapshot[s])

-----------------------------------------------------------------------------
(* Lemmas about versions, prefixes and removals.                           *)

(* The interval of a version.                                              *)
LEMMA VersionSize ==
  ASSUME NEW d \in Version
  PROVE  /\ d.base \in Nat /\ Len(d.tree) \in Nat /\ Size(d) \in Nat
         /\ d.tree # << >> => d.tree \in Trees /\ Len(d.tree) > 0
         /\ d \in [ver : Nat, base : Nat, tree : Trees] \/ d.tree = << >>
<1>1. /\ d.ver \in Nat /\ d.base \in Nat /\ d.tree \in Trees \cup {<< >>}
      /\ d = [ver |-> d.ver, base |-> d.base, tree |-> d.tree]
  BY DEF Version
<1>2. CASE d.tree = << >>
  <2>1. Len(d.tree) = 0
    BY <1>2
  <2> QED
    BY <1>1, <1>2, <2>1 DEF Size
<1>3. CASE d.tree \in Trees
  <2>1. Len(d.tree) \in Nat /\ Len(d.tree) > 0
    BY <1>3, TreeNotEmpty
  <2>2. Size(d) \in Nat
    BY <2>1 DEF Size
  <2> QED
    BY <1>1, <1>3, <2>1, <2>2
<1> QED
  BY <1>1, <1>2, <1>3

(* No document has no nodes and no numbers.                                *)
LEMMA NoDocFacts ==
  ASSUME NEW u \in Uris
  PROVE  /\ NoDoc \in Version /\ NoDoc.tree = << >>
         /\ NoDoc.base = 0 /\ Size(NoDoc) = 0
         /\ DocNodes(u, NoDoc) = {}
<1>1. NoDoc.tree = << >> /\ NoDoc.base = 0 /\ NoDoc \in Version
  BY DEF NoDoc, Version
<1>2. Len(NoDoc.tree) = 0
  BY <1>1
<1>3. 1 .. 0 = {}
  OBVIOUS
<1> QED
  BY <1>1, <1>2, <1>3 DEF DocNodes, Prefix, Size

(* The nodes of one more step of an addition.                              *)
LEMMA PrefixStep ==
  ASSUME NEW u, NEW d, NEW k \in Nat
  PROVE  /\ Prefix(u, d, 0) = {}
         /\ Prefix(u, d, k + 1) = Prefix(u, d, k) \cup {Node(u, d, k + 1)}
<1>1. 1 .. 0 = {}
  OBVIOUS
<1>2. 1 .. k + 1 = (1 .. k) \cup {k + 1}
  OBVIOUS
<1> QED
  BY <1>1, <1>2 DEF Prefix

(* The nodes of a document carry its URI.                                  *)
LEMMA DocNodesUri ==
  ASSUME NEW u, NEW d, NEW n \in DocNodes(u, d)
  PROVE  n.uri = u
  BY DEF DocNodes, Prefix, Node

(* A removal empties one document and makes it healthy, and leaves the     *)
(* other documents alone.                                                  *)
LEMMA WithoutNodes ==
  ASSUME NEW img \in Image, NEW u \in Uris, NEW v \in Uris
  PROVE  /\ Healthy(Without(img, u)) = Healthy(img) \cup {u}
         /\ NodesOf(Without(img, u), u) = {}
         /\ Without(img, u).docs[u] = NoDoc
         /\ v # u => /\ NodesOf(Without(img, u), v) = NodesOf(img, v)
                     /\ Without(img, u).docs[v] = img.docs[v]
                     /\ v \in Healthy(Without(img, u)) <=> v \in Healthy(img)
<1>1. img.docs \in [Uris -> Version]
  BY DEF Image
<1> DEFINE new == Without(img, u)
<1>2. /\ new.nodes = {n \in img.nodes : n.uri # u}
      /\ new.docs = [img.docs EXCEPT ![u] = NoDoc]
      /\ new.torn = img.torn \ {u}
      /\ new.damaged = img.damaged \ {u}
  BY DEF Without, Image
<1> HIDE DEF new
<1>3. Healthy(new) = Healthy(img) \cup {u}
  BY <1>2 DEF Healthy
<1>4. NodesOf(new, u) = {}
  BY <1>2 DEF NodesOf
<1>5. v # u => NodesOf(new, v) = NodesOf(img, v)
  BY <1>2 DEF NodesOf
<1>6. new.docs[u] = NoDoc /\ (v # u => new.docs[v] = img.docs[v])
  BY <1>1, <1>2
<1> QED
  BY <1>3, <1>4, <1>5, <1>6 DEF new

-----------------------------------------------------------------------------
(* Captures and restarts.                                                  *)

(* What a commit, a refresh or an orderly stop captures is intact, at      *)
(* every point of every operation.                                         *)
LEMMA IntactCapture ==
  ASSUME TypeOK, WriterInv
  PROVE  Intact(Capture)
<1>1. \A u \in Healthy(Capture) :
        /\ u \in Healthy(writer) /\ ~Reindexed(u)
        /\ AddedTo(u) => ~(0 < op.added /\ op.added < Len(op.doc.tree))
  BY CaptureType DEF Healthy, AddedTo, Reindexed
<1> SUFFICES ASSUME NEW u \in Healthy(Capture)
             PROVE  NodesOf(writer, u) = DocNodes(u, writer.docs[u])
  BY CaptureType DEF Intact, NodesOf
<1>2. u \in Uris /\ WriterNodesOf(u)
  BY <1>1 DEF Healthy, WriterInv, WriterIntact
<1>3. CASE AddedTo(u)
  <2>1. /\ op.added \in Nat /\ Len(op.doc.tree) \in Nat /\ 0 < Len(op.doc.tree)
        /\ op.added <= Len(op.doc.tree)
    BY <1>3, OpType, TreeNotEmpty DEF AddedTo, WriterInv, Counters
  <2>2. op.added = 0 \/ op.added = Len(op.doc.tree)
    BY <1>1, <1>3, <2>1
  <2>3. CASE op.added = 0
    <3>1. NodesOf(writer, u) = Prefix(u, op.doc, 0) /\ writer.docs[u] = NoDoc
      BY <1>2, <1>3, <2>1, <2>3 DEF WriterNodesOf
    <3>2. Prefix(u, op.doc, 0) = {}
      BY PrefixStep
    <3> QED
      BY <1>2, <3>1, <3>2, NoDocFacts
  <2>4. CASE op.added = Len(op.doc.tree)
    BY <1>2, <1>3, <2>4 DEF WriterNodesOf
  <2> QED
    BY <2>2, <2>3, <2>4
<1>4. CASE ~AddedTo(u)
  BY <1>1, <1>2, <1>4 DEF WriterNodesOf
<1> QED
  BY <1>3, <1>4

(* An index that has just read an intact image satisfies the invariant.    *)
LEMMA LoadInv ==
  ASSUME TypeOK, NEW img \in Image, Intact(img), Load(img), up' \in BOOLEAN,
         snapshot' \in [Sessions -> Image], \A s \in Sessions : Intact(snapshot'[s])
  PROVE  IInv'
<1>1. TypeOK'
  BY LoadType
<1>2. /\ writer' = img /\ durable' = img /\ searcher' = img
      /\ nodeCounter' = img.counter /\ img.counter \in Nat
      /\ ~Adding' /\ ~Reindexing'
  BY DEF Load, Adding, Reindexing, NoOp, Image
<1>3. WriterInv'
  BY <1>2 DEF WriterInv, WriterIntact, WriterNodesOf, Counters, OpNode, AddedTo,
              Reindexed, Intact
<1> QED
  BY <1>1, <1>2, <1>3 DEF IInv

-----------------------------------------------------------------------------
(* The steps that write, one lemma each.                                   *)

(* The stored counter is a number, and documents are versions.             *)
LEMMA WriterType ==
  ASSUME TypeOK
  PROVE  /\ writer \in Image /\ writer.counter \in Nat /\ nodeCounter \in Nat
         /\ \A u \in Uris : writer.docs[u] \in Version
         /\ writer.docs \in [Uris -> Version]
         /\ Healthy(writer) \subseteq Uris
  BY DEF TypeOK, Image, Healthy

(* The start of an addition.                                               *)
LEMMA AddBeginInv ==
  ASSUME TypeOK, WriterInv,
         NEW s \in Sessions, NEW u \in Uris, NEW t \in Trees, AddBegin(s, u, t)
  PROVE  WriterInv'
<1>1. /\ op = NoOp /\ ~Adding /\ ~Reindexing
      /\ op'.kind = "add" /\ op'.uri = u /\ op'.added = 0
      /\ op'.doc.base = nodeCounter /\ op'.doc.tree = t
      /\ writer' = Without(writer, u)
      /\ nodeCounter' = nodeCounter + 2 * Len(t)
  BY OpType DEF AddBegin
<1>2. Adding' /\ ~Reindexing'
  BY <1>1 DEF Adding, Reindexing
<1>3. Len(t) \in Nat /\ 0 < Len(t) /\ writer.counter \in Nat /\ nodeCounter \in Nat
  BY TreeNotEmpty, WriterType
<1>4. writer.counter <= nodeCounter /\ writer'.counter = writer.counter
  BY <1>1, WriterType, WithoutType DEF WriterInv, Counters
<1>5. WriterIntact'
  <2> SUFFICES ASSUME NEW v \in Healthy(writer')
               PROVE  WriterNodesOf(v)'
    BY DEF WriterIntact
  <2>1. v \in Uris
    BY DEF Healthy
  <2>2. CASE v = u
    <3>1. NodesOf(writer', v) = {} /\ writer'.docs[v] = NoDoc
      BY <1>1, <2>2, WriterType, WithoutNodes
    <3>2. Prefix(u, op'.doc, 0) = {}
      BY PrefixStep
    <3> QED
      BY <1>1, <1>2, <1>3, <2>2, <3>1, <3>2 DEF WriterNodesOf, AddedTo, Reindexed
  <2>3. CASE v # u
    <3>1. /\ v \in Healthy(writer)
          /\ NodesOf(writer', v) = NodesOf(writer, v)
          /\ writer'.docs[v] = writer.docs[v]
      BY <1>1, <2>1, <2>3, WriterType, WithoutNodes
    <3>2. NodesOf(writer, v) = DocNodes(v, writer.docs[v])
      BY <1>1, <3>1 DEF WriterInv, WriterIntact, WriterNodesOf, AddedTo, Reindexed
    <3> QED
      BY <1>1, <1>2, <2>3, <3>1, <3>2 DEF WriterNodesOf, AddedTo, Reindexed
  <2> QED
    BY <2>2, <2>3
<1>6. Counters'
  BY <1>1, <1>2, <1>3, <1>4 DEF Counters, Size
<1>7. OpNode'
  BY <1>2 DEF OpNode
<1> QED
  BY <1>5, <1>6, <1>7 DEF WriterInv

(* One more node.                                                          *)
LEMMA AddNodeInv ==
  ASSUME TypeOK, WriterInv, NEW s \in Sessions, AddNode(s)
  PROVE  WriterInv'
<1> DEFINE u == op.uri
           d == op.doc
           k == op.added
<1>1. /\ Adding /\ ~Reindexing /\ u \in Uris /\ k \in Nat
      /\ d \in [ver : Nat, base : Nat, tree : Trees] /\ d \in Version
      /\ k < Len(d.tree) /\ Len(d.tree) \in Nat /\ d.base \in Nat
  BY OpType, TreeNotEmpty DEF AddNode
<1>2. /\ op'.kind = "add" /\ op'.uri = u /\ op'.doc = d /\ op'.added = k + 1
      /\ nodeCounter' = nodeCounter
  BY OpType DEF AddNode, AddOp
<1>3. Adding' /\ ~Reindexing'
  BY <1>2 DEF Adding, Reindexing
<1>4. /\ writer'.nodes = writer.nodes \cup {Node(u, d, k + 1)}
      /\ writer'.counter = writer.counter
      /\ writer'.docs = [writer.docs EXCEPT ![u] = IF k + 1 = Len(d.tree) THEN d ELSE @]
      /\ Healthy(writer') = Healthy(writer)
      /\ Node(u, d, k + 1).uri = u
  BY AddNodeWriter DEF Healthy, Node
<1> HIDE DEF u, d, k
<1>5. \A v \in Uris : v # u => /\ NodesOf(writer', v) = NodesOf(writer, v)
                               /\ writer'.docs[v] = writer.docs[v]
  BY <1>1, <1>4, WriterType DEF NodesOf
<1>6. writer'.docs[u] = IF k + 1 = Len(d.tree) THEN d ELSE writer.docs[u]
  BY <1>1, <1>4, WriterType
<1>7. WriterIntact'
  <2> SUFFICES ASSUME NEW v \in Healthy(writer)
               PROVE  WriterNodesOf(v)'
    BY <1>4 DEF WriterIntact
  <2>1. v \in Uris /\ WriterNodesOf(v)
    BY DEF Healthy, WriterInv, WriterIntact
  <2>2. CASE v = u
    <3>1. NodesOf(writer, u) = Prefix(u, d, k) /\ writer.docs[u] = NoDoc
      BY <1>1, <2>1, <2>2 DEF WriterNodesOf, AddedTo, u, d, k
    <3>2. NodesOf(writer', u) = NodesOf(writer, u) \cup {Node(u, d, k + 1)}
      BY <1>4 DEF NodesOf
    <3>3. NodesOf(writer', u) = Prefix(u, d, k + 1)
      BY <1>1, <3>1, <3>2, PrefixStep
    <3>4. CASE k + 1 = Len(d.tree)
      <4>1. NodesOf(writer', u) = DocNodes(u, d) /\ writer'.docs[u] = d
        BY <1>6, <3>3, <3>4 DEF DocNodes
      <4> QED
        BY <1>1, <1>2, <1>3, <2>2, <3>4, <4>1 DEF WriterNodesOf, AddedTo, Reindexed
    <3>5. CASE k + 1 # Len(d.tree)
      <4>1. writer'.docs[u] = NoDoc
        BY <1>6, <3>1, <3>5
      <4> QED
        BY <1>1, <1>2, <1>3, <2>2, <3>3, <3>5, <4>1 DEF WriterNodesOf, AddedTo, Reindexed
    <3> QED
      BY <3>4, <3>5
  <2>3. CASE v # u
    <3>1. NodesOf(writer, v) = DocNodes(v, writer.docs[v])
      BY <1>1, <2>1, <2>3 DEF WriterNodesOf, AddedTo, Reindexed, u
    <3> QED
      BY <1>2, <1>3, <1>5, <2>1, <2>3, <3>1 DEF WriterNodesOf, AddedTo, Reindexed
  <2> QED
    BY <2>2, <2>3
<1>8. Counters'
  BY <1>1, <1>2, <1>3, <1>4 DEF Counters, WriterInv, u, d, k
<1>9. OpNode'
  BY <1>3 DEF OpNode
<1> QED
  BY <1>7, <1>8, <1>9 DEF WriterInv

(* The end of an addition: its document is below the counter now stored.   *)
LEMMA AddEndInv ==
  ASSUME TypeOK, WriterInv, NEW s \in Sessions, AddEnd(s)
  PROVE  WriterInv'
<1>1. /\ Adding /\ ~Reindexing /\ op.uri \in Uris /\ op.added = Len(op.doc.tree)
      /\ op.doc \in Version /\ writer.counter <= nodeCounter
  BY OpType DEF AddEnd, WriterInv, Counters
<1>2. ~Adding' /\ ~Reindexing' /\ nodeCounter' = nodeCounter
  BY DEF AddEnd, Adding, Reindexing, NoOp
<1>3. writer'.counter = nodeCounter /\ nodeCounter \in Nat
  BY AddEndWriter, WriterType
<1>4. /\ writer'.nodes = writer.nodes /\ writer'.docs = writer.docs
      /\ Healthy(writer') = Healthy(writer)
  BY AddEndWriter DEF Healthy
<1>5. WriterIntact'
  <2> SUFFICES ASSUME NEW v \in Healthy(writer)
               PROVE  NodesOf(writer', v) = DocNodes(v, writer'.docs[v])
    BY <1>2, <1>4 DEF WriterIntact, WriterNodesOf, AddedTo, Reindexed
  <2>1. WriterNodesOf(v)
    BY DEF WriterInv, WriterIntact
  <2> QED
    BY <1>1, <1>4, <2>1 DEF WriterNodesOf, AddedTo, Reindexed, NodesOf
<1>6. Counters' /\ OpNode'
  BY <1>2, <1>3 DEF Counters, OpNode
<1> QED
  BY <1>5, <1>6 DEF WriterInv

(* A failed addition leaves no trace.                                      *)
LEMMA AddFailInv ==
  ASSUME TypeOK, WriterInv, NEW s \in Sessions, AddFail(s)
  PROVE  WriterInv'
<1> DEFINE u == op.uri
<1>1. /\ Adding /\ ~Reindexing /\ u \in Uris
      /\ nodeCounter' = op.doc.base /\ writer.counter <= op.doc.base
      /\ writer' = Without(writer, u)
  BY OpType DEF AddFail, WriterInv, Counters
<1>2. ~Adding' /\ ~Reindexing'
  BY DEF AddFail, Adding, Reindexing, NoOp
<1>3. writer'.counter = writer.counter
  BY <1>1, WriterType, WithoutType
<1>4. \A v \in Uris : v # u => ~AddedTo(v) /\ ~Reindexed(v)
  BY <1>1 DEF AddedTo, Reindexed
<1> HIDE DEF u
<1>5. WriterIntact'
  <2> SUFFICES ASSUME NEW v \in Healthy(writer')
               PROVE  NodesOf(writer', v) = DocNodes(v, writer'.docs[v])
    BY <1>2 DEF WriterIntact, WriterNodesOf, AddedTo, Reindexed
  <2>1. v \in Uris
    BY DEF Healthy
  <2>2. CASE v = u
    <3>1. NodesOf(writer', v) = {} /\ writer'.docs[v] = NoDoc
      BY <1>1, <2>2, WriterType, WithoutNodes
    <3> QED
      BY <2>1, <3>1, NoDocFacts
  <2>3. CASE v # u
    <3>1. /\ v \in Healthy(writer)
          /\ NodesOf(writer', v) = NodesOf(writer, v)
          /\ writer'.docs[v] = writer.docs[v]
      BY <1>1, <2>1, <2>3, WriterType, WithoutNodes
    <3> QED
      BY <1>4, <2>1, <2>3, <3>1 DEF WriterInv, WriterIntact, WriterNodesOf
  <2> QED
    BY <2>2, <2>3
<1>6. Counters' /\ OpNode'
  BY <1>1, <1>2, <1>3 DEF Counters, OpNode
<1> QED
  BY <1>5, <1>6 DEF WriterInv

(* An Error leaves what a commit at that moment would capture.             *)
LEMMA AddErrorInv ==
  ASSUME TypeOK, WriterInv, NEW s \in Sessions, AddError(s)
  PROVE  WriterInv'
<1>1. ~Adding' /\ ~Reindexing'
  BY DEF AddError, Adding, Reindexing, NoOp
<1>2. writer' = Capture /\ Intact(writer') /\ writer'.counter = writer.counter
  BY IntactCapture, CaptureType DEF AddError
<1>3. WriterIntact'
  BY <1>1, <1>2 DEF Intact, WriterIntact, WriterNodesOf, AddedTo, Reindexed
<1>4. Counters' /\ OpNode'
  <2>1. Adding /\ writer.counter <= op.doc.base /\ op.doc.base \in Nat
    BY OpType DEF AddError, WriterInv, Counters
  <2>2. writer.counter <= nodeCounter
    BY DEF WriterInv, Counters
  <2> QED
    BY <1>1, <1>2, <2>1, <2>2, AddErrorCounter, WriterType DEF Counters, OpNode
<1> QED
  BY <1>3, <1>4 DEF WriterInv

(* A removal, also in the middle of an addition or a reindex: then it may  *)
(* harm the document, and only that one.                                   *)
LEMMA RemoveDocumentInv ==
  ASSUME TypeOK, WriterInv,
         NEW s \in Sessions, NEW u \in Uris, RemoveDocument(s, u)
  PROVE  WriterInv'
<1> DEFINE new == Without(writer, u)
<1>1. op' = op /\ nodeCounter' = nodeCounter
  BY DEF RemoveDocument
<1>2. /\ new \in Image
      /\ Healthy(new) = Healthy(writer) \cup {u}
      /\ NodesOf(new, u) = {} /\ new.docs[u] = NoDoc
  BY WriterType, WithoutType, WithoutNodes
<1>3. \A v \in Uris : v # u =>
        /\ NodesOf(new, v) = NodesOf(writer, v)
        /\ new.docs[v] = writer.docs[v]
        /\ v \in Healthy(new) <=> v \in Healthy(writer)
  BY WriterType, WithoutNodes
<1> HIDE DEF new
<1>4. /\ writer'.nodes = new.nodes
      /\ writer'.docs = new.docs /\ writer'.torn = new.torn
      /\ writer'.damaged = IF RemovalRaces(u) THEN new.damaged \cup {u} ELSE new.damaged
  BY RemovalWriter DEF new
<1>5. /\ Healthy(writer') \subseteq Healthy(new)
      /\ u \in Healthy(writer') => ~RemovalRaces(u)
      /\ \A v \in Uris : NodesOf(writer', v) = NodesOf(new, v)
  BY <1>4 DEF Healthy, NodesOf
<1>6. \A v \in Uris : AddedTo(v)' = AddedTo(v) /\ Reindexed(v)' = Reindexed(v)
  BY <1>1 DEF AddedTo, Reindexed, Adding, Reindexing
<1>7. WriterIntact'
  <2> SUFFICES ASSUME NEW v \in Healthy(writer')
               PROVE  WriterNodesOf(v)'
    BY DEF WriterIntact
  <2>1. v \in Uris
    BY DEF Healthy
  <2>2. CASE v = u
    <3>1. /\ NodesOf(writer', v) = {} /\ writer'.docs[v] = NoDoc
          /\ DocNodes(v, NoDoc) = {}
      BY <1>2, <1>4, <1>5, <2>1, <2>2, NoDocFacts
    <3>2. ~Reindexed(v)
      BY <1>5, <2>2 DEF RemovalRaces, ComesBack, Reindexed
    <3>3. CASE AddedTo(v)
      <4>1. /\ op.added \in Nat /\ Len(op.doc.tree) \in Nat /\ op.added <= Len(op.doc.tree)
        BY <3>3, OpType, TreeNotEmpty DEF AddedTo, WriterInv, Counters
      <4>2. op.added = 0 \/ op.added = Len(op.doc.tree)
        BY <1>5, <2>2, <3>3, <4>1 DEF RemovalRaces, AddedTo
      <4>3. Prefix(v, op.doc, 0) = {}
        BY PrefixStep
      <4>4. AddedTo(v)' /\ ~Reindexed(v)'
        BY <1>6, <2>1, <3>2, <3>3
      <4>5. CASE op.added = 0
        BY <1>1, <3>1, <4>3, <4>4, <4>5 DEF WriterNodesOf
      <4>6. CASE op.added = Len(op.doc.tree)
        <5>1. ~(op'.added < Len(op'.doc.tree))
          BY <1>1, <4>1, <4>6
        <5>2. /\ NodesOf(writer', v) = DocNodes(v, writer'.docs[v])
              /\ writer'.docs[v] \in {NoDoc, op'.doc}
          BY <3>1
        <5> QED
          BY <4>4, <5>1, <5>2 DEF WriterNodesOf
      <4> QED
        BY <4>2, <4>5, <4>6
    <3>4. CASE ~AddedTo(v)
      BY <1>6, <2>1, <3>1, <3>2, <3>4 DEF WriterNodesOf
    <3> QED
      BY <3>3, <3>4
  <2>3. CASE v # u
    <3>1. /\ v \in Healthy(writer)
          /\ NodesOf(writer', v) = NodesOf(writer, v)
          /\ writer'.docs[v] = writer.docs[v]
      BY <1>3, <1>4, <1>5, <2>1, <2>3
    <3>2. WriterNodesOf(v)
      BY <3>1 DEF WriterInv, WriterIntact
    <3> QED
      BY <1>1, <1>6, <2>1, <3>1, <3>2 DEF WriterNodesOf
  <2> QED
    BY <2>2, <2>3
<1>8. writer'.counter = writer.counter
  BY RemovalWriter, WithoutType, WriterType
<1>9. Counters' /\ OpNode'
  BY <1>1, <1>8 DEF Counters, OpNode, Adding, Reindexing, WriterInv
<1> QED
  BY <1>7, <1>9 DEF WriterInv

(* The first write of a reindex: a healthy document loses at most the node *)
(* that is about to be written again.                                      *)
LEMMA ReindexDeleteInv ==
  ASSUME TypeOK, WriterInv, NEW s \in Sessions,
         NEW n \in snapshot[s].nodes, NEW b \in BaseUris(snapshot[s], n),
         ReindexDelete(s, n, b)
  PROVE  WriterInv'
<1> DEFINE new == [n EXCEPT !.uri = b]
<1>1. /\ op = NoOp /\ ~Adding /\ ~Reindexing
      /\ op'.kind = "reindex" /\ op'.uri = b /\ op'.node = new
  BY OpType DEF ReindexDelete
<1>2. ~Adding' /\ Reindexing'
  BY <1>1 DEF Adding, Reindexing
<1>3. b \in Uris /\ new.uri = b
  BY ReindexNodeType
<1>4. /\ writer'.nodes = writer.nodes \ Hit(n)
      /\ writer'.docs = writer.docs
      /\ writer'.torn = writer.torn
      /\ writer'.damaged = writer.damaged \cup {m.uri : m \in Hit(n) \ {new}}
                             \cup (IF new \in Hit(n) THEN {} ELSE {b})
  BY ReindexWriter
<1> HIDE DEF new
<1>5. Healthy(writer') \subseteq Healthy(writer)
  BY <1>4 DEF Healthy
<1>6. WriterIntact'
  <2> SUFFICES ASSUME NEW v \in Healthy(writer')
               PROVE  WriterNodesOf(v)'
    BY DEF WriterIntact
  <2>1. /\ v \in Uris /\ v \in Healthy(writer)
        /\ NodesOf(writer, v) = DocNodes(v, writer.docs[v])
    BY <1>1, <1>5 DEF Healthy, WriterInv, WriterIntact, WriterNodesOf, AddedTo, Reindexed
  <2>2. /\ \A m \in Hit(n) : m.uri = v => m = new
        /\ v = b => new \in Hit(n)
    BY <1>4 DEF Healthy
  <2>3. CASE v = b
    <3>1. new \in NodesOf(writer, v)
      BY <1>3, <2>2, <2>3 DEF NodesOf, Hit
    <3>2. NodesOf(writer', v) = NodesOf(writer, v) \ {new}
      BY <1>4, <2>2, <2>3 DEF NodesOf
    <3> QED
      BY <1>1, <1>2, <1>4, <2>1, <2>3, <3>1, <3>2 DEF WriterNodesOf, AddedTo, Reindexed
  <2>4. CASE v # b
    <3>1. NodesOf(writer', v) = NodesOf(writer, v)
      BY <1>3, <1>4, <2>2, <2>4 DEF NodesOf
    <3> QED
      BY <1>1, <1>2, <1>4, <2>1, <2>4, <3>1 DEF WriterNodesOf, AddedTo, Reindexed
  <2> QED
    BY <2>3, <2>4
<1>7. nodeCounter' = nodeCounter /\ writer'.counter = writer.counter
  BY ReindexWriter DEF ReindexDelete
<1>8. Counters' /\ OpNode'
  BY <1>1, <1>2, <1>3, <1>7 DEF Counters, OpNode, WriterInv
<1> QED
  BY <1>6, <1>8 DEF WriterInv

(* The second write of a reindex.                                          *)
LEMMA ReindexAddInv ==
  ASSUME TypeOK, WriterInv, NEW s \in Sessions, ReindexAdd(s)
  PROVE  WriterInv'
<1>1. /\ Reindexing /\ ~Adding /\ op.node.uri = op.uri
  BY OpType DEF ReindexAdd, WriterInv, OpNode
<1>2. ~Adding' /\ ~Reindexing'
  BY DEF ReindexAdd, Adding, Reindexing, NoOp
<1>3. /\ writer'.nodes = writer.nodes \cup {op.node}
      /\ writer'.docs = writer.docs
      /\ Healthy(writer') = Healthy(writer)
  BY WriterType DEF ReindexAdd, Image, Healthy
<1>4. WriterIntact'
  <2> SUFFICES ASSUME NEW v \in Healthy(writer)
               PROVE  NodesOf(writer', v) = DocNodes(v, writer.docs[v])
    BY <1>2, <1>3 DEF WriterIntact, WriterNodesOf, AddedTo, Reindexed
  <2>1. WriterNodesOf(v)
    BY DEF WriterInv, WriterIntact
  <2>2. CASE v = op.uri
    <3>1. /\ op.node \in DocNodes(v, writer.docs[v])
          /\ NodesOf(writer, v) = DocNodes(v, writer.docs[v]) \ {op.node}
      BY <1>1, <2>1, <2>2 DEF WriterNodesOf, Reindexed
    <3>2. NodesOf(writer', v) = NodesOf(writer, v) \cup {op.node}
      BY <1>1, <1>3, <2>2 DEF NodesOf
    <3> QED
      BY <3>1, <3>2
  <2>3. CASE v # op.uri
    <3>1. NodesOf(writer, v) = DocNodes(v, writer.docs[v])
      BY <2>1, <2>3 DEF WriterNodesOf, AddedTo, Reindexed
    <3> QED
      BY <1>1, <1>3, <2>3, <3>1 DEF NodesOf
  <2> QED
    BY <2>2, <2>3
<1>5. /\ nodeCounter' = nodeCounter /\ writer'.counter = writer.counter
      /\ writer.counter <= nodeCounter
  BY WriterType DEF ReindexAdd, Image, WriterInv, Counters
<1>6. Counters' /\ OpNode'
  BY <1>2, <1>5 DEF Counters, OpNode
<1> QED
  BY <1>4, <1>6 DEF WriterInv

-----------------------------------------------------------------------------
(* The invariant.                                                          *)

(* The empty directory satisfies it.                                       *)
LEMMA InitInv == Init => IInv
<1> SUFFICES ASSUME Init PROVE IInv
  OBVIOUS
<1> DEFINE img == [nodes |-> {}, counter |-> 0, docs |-> [u \in Uris |-> NoDoc],
                   torn |-> {}, damaged |-> {}, ahead |-> {}, shared |-> {}]
<1>1. /\ img.nodes = {} /\ img.counter = 0
      /\ \A u \in Uris : img.docs[u] = NoDoc
  OBVIOUS
<1>2. /\ durable = img /\ writer = img /\ searcher = img
      /\ snapshot = [s \in Sessions |-> img]
      /\ op = NoOp /\ nodeCounter = 0
  BY DEF Init
<1> HIDE DEF img
<1>3. Intact(img)
  <2>1. \A u \in Healthy(img) : u \in Uris /\ img.docs[u] = NoDoc /\ NodesOf(img, u) = {}
    BY <1>1 DEF Healthy, NodesOf
  <2>2. \A u \in Healthy(img) : DocNodes(u, img.docs[u]) = {}
    BY <2>1, NoDocFacts
  <2> QED
    BY <2>1, <2>2 DEF Intact
<1>4. ~Adding /\ ~Reindexing
  BY <1>2 DEF Adding, Reindexing, NoOp
<1>5. WriterInv
  BY <1>1, <1>2, <1>3, <1>4
     DEF WriterInv, WriterIntact, WriterNodesOf, Counters, OpNode, AddedTo, Reindexed,
         Intact
<1> QED
  BY <1>2, <1>3, <1>5, InitType DEF IInv

(* Every step preserves it.                                                *)
LEMMA StepInv ==
  ASSUME IInv, [Next]_vars
  PROVE  IInv'
<1>1. TypeOK /\ WriterInv /\ TypeOK'
  BY TypeStep DEF IInv
<1>2. Intact(Capture) /\ Capture \in Image
  BY <1>1, IntactCapture, CaptureType
<1>3. ASSUME WriterInv', UNCHANGED <<durable, searcher, snapshot>>
      PROVE  IInv'
  BY <1>1, <1>3 DEF IInv
<1>4. ASSUME UNCHANGED <<writer, nodeCounter, op>>
      PROVE  WriterInv'
  BY <1>1, <1>4
     DEF WriterInv, WriterIntact, WriterNodesOf, Counters, OpNode, AddedTo,
         Reindexed, Adding, Reindexing
<1>5. CASE Open
  <2>1. PICK img \in Image :
          /\ Load(img) /\ img.nodes = durable.nodes /\ img.docs = durable.docs
          /\ img.torn = durable.torn /\ img.damaged = durable.damaged
    BY <1>1, <1>5, OpenLoads
  <2>2. Intact(img)
    BY <2>1 DEF IInv, Intact, Healthy, NodesOf
  <2> QED
    BY <1>1, <1>5, <2>1, <2>2, LoadInv DEF Open, IInv, TypeOK
<1>6. CASE Close
  BY <1>1, <1>2, <1>6, LoadInv DEF Close, IInv, TypeOK
<1>7. CASE Crash
  <2>1. durable \in Image /\ Intact(durable)
    BY <1>1 DEF TypeOK, IInv
  <2> QED
    BY <1>1, <1>7, <2>1, LoadInv DEF Crash
<1>8. CASE Refresh
  BY <1>1, <1>2, <1>4, <1>8 DEF Refresh, IInv
<1>9. ASSUME NEW s \in Sessions, SessionNext(s)
      PROVE  IInv'
  <2>1. ASSUME NEW u \in Uris, NEW t \in Trees, AddBegin(s, u, t)
        PROVE  IInv'
    BY <1>1, <1>3, <2>1, AddBeginInv DEF AddBegin
  <2>2. CASE AddNode(s)
    BY <1>1, <1>3, <2>2, AddNodeInv DEF AddNode
  <2>3. CASE AddEnd(s)
    BY <1>1, <1>3, <2>3, AddEndInv DEF AddEnd
  <2>4. CASE AddFail(s)
    BY <1>1, <1>3, <2>4, AddFailInv DEF AddFail
  <2>5. CASE AddError(s)
    BY <1>1, <1>3, <2>5, AddErrorInv DEF AddError
  <2>6. ASSUME NEW u \in Uris, RemoveDocument(s, u)
        PROVE  IInv'
    BY <1>1, <1>3, <2>6, RemoveDocumentInv DEF RemoveDocument
  <2>7. CASE ReindexBegin(s)
    <3>1. PICK n \in snapshot[s].nodes :
             \E b \in BaseUris(snapshot[s], n) : ReindexDelete(s, n, b)
      BY <2>7 DEF ReindexBegin
    <3>2. PICK b \in BaseUris(snapshot[s], n) : ReindexDelete(s, n, b)
      BY <3>1
    <3> QED
      BY <1>1, <1>3, <3>2, ReindexDeleteInv DEF ReindexDelete
  <2>8. CASE ReindexAdd(s)
    BY <1>1, <1>3, <2>8, ReindexAddInv DEF ReindexAdd
  <2>9. ASSUME NEW w \in BOOLEAN, Commit(s, w)
        PROVE  IInv'
    BY <1>1, <1>2, <1>4, <2>9 DEF Commit, IInv
  <2>10. CASE SwitchSearcher(s)
    BY <1>1, <1>2, <1>4, <2>10 DEF SwitchSearcher, IInv, TypeOK
  <2>11. CASE AquireSession(s)
    BY <1>1, <1>4, <2>11 DEF AquireSession, IInv, TypeOK
  <2> QED
    BY <1>9, <2>1, <2>2, <2>3, <2>4, <2>6, <2>7, <2>8, <2>9, <2>10, <2>11,
       <2>5 DEF SessionNext
<1>10. CASE UNCHANGED vars
  BY <1>1, <1>3, <1>4, <1>10 DEF vars
<1> QED
  BY <1>5, <1>6, <1>7, <1>8, <1>9, <1>10 DEF Next

(* The invariant holds in every reachable state.                           *)
THEOREM Invariant == Spec => []IInv
  BY InitInv, StepInv, PTL DEF Spec

-----------------------------------------------------------------------------
(* What follows from it.                                                   *)

(* Everything that can be seen is intact.                                  *)
LEMMA IntactImages ==
  ASSUME IInv, NEW img \in Images
  PROVE  Intact(img) /\ img \in Image
<1>1. TypeOK /\ WriterInv /\ Intact(Capture) /\ Capture \in Image
  BY IntactCapture, CaptureType DEF IInv
<1> QED
  BY <1>1 DEF Images, IInv, TypeOK

(* Whatever is seen or found after a restart, a document that no event of  *)
(* the history harmed is exactly the document that was added.              *)
THEOREM DocumentsIntact == Spec => []IntactDocuments
<1>1. IInv => IntactDocuments
  BY IntactImages DEF IntactDocuments
<1> QED
  BY <1>1, Invariant, PTL

(* The nodes of a tree have different left numbers.                        *)
LEMMA LeftInTree ==
  ASSUME NEW t \in Trees, NEW i \in 1 .. Len(t), NEW j \in 1 .. Len(t),
         t[i].left = t[j].left
  PROVE  i = j
<1>1. \A k, l \in 1 .. Len(t) : k < l => t[k].left < t[l].left
  BY TreesAssumption DEF Numbered
<1>2. t[i].left \in Nat /\ t[j].left \in Nat /\ Len(t) \in Nat
  BY TreeNode
<1>3. ~(i < j) /\ ~(j < i)
  BY <1>1, <1>2
<1> QED
  BY <1>2, <1>3

(* Two nodes of a version lie to each other as in its tree.                *)
LEMMA VersionNested ==
  ASSUME NEW u \in Uris, NEW d \in [ver : Nat, base : Nat, tree : Trees],
         NEW i \in 1 .. Len(d.tree), NEW j \in 1 .. Len(d.tree)
  PROVE  Nested(Node(u, d, j), Node(u, d, i))
<1>1. /\ d.tree \in Trees /\ d.base \in Nat /\ Len(d.tree) \in Nat
      /\ d.tree[i].left \in Nat /\ d.tree[i].right \in Nat /\ d.tree[i].parent \in Nat
      /\ d.tree[j].left \in Nat /\ d.tree[j].right \in Nat
  BY TreeNode
<1>2. /\ Node(u, d, i).left = d.base + d.tree[i].left
      /\ Node(u, d, j).left = d.base + d.tree[j].left
      /\ Node(u, d, i).right = d.base + d.tree[i].right
      /\ Node(u, d, j).right = d.base + d.tree[j].right
      /\ i # 1 => Node(u, d, i).parent = d.base + d.tree[i].parent
  BY DEF Node
<1>3. Node(u, d, j).left = Node(u, d, i).left => i = j
  <2>1. Node(u, d, j).left = Node(u, d, i).left => d.tree[i].left = d.tree[j].left
    BY ONLY <1>1, <1>2
  <2> QED
    BY <1>1, <2>1, LeftInTree
<1>4. \A k, l \in 1 .. Len(d.tree) :
        k < l => d.tree[k].left < d.tree[l].left /\ Nested(d.tree[k], d.tree[l])
  BY <1>1, TreesAssumption DEF Numbered
<1>5. ASSUME Node(u, d, j).left < Node(u, d, i).left
      PROVE  \/ Node(u, d, j).right < Node(u, d, i).left
             \/ /\ Node(u, d, i).right < Node(u, d, j).right
                /\ Node(u, d, j).left <= Node(u, d, i).parent
  <2>1. d.tree[j].left < d.tree[i].left
    BY ONLY <1>1, <1>2, <1>5
  <2>2. ~(i < j) /\ i # j
    BY <1>1, <1>4, <2>1
  <2>3. j < i /\ i # 1
    BY <2>2
  <2>4. \/ d.tree[j].right < d.tree[i].left
        \/ d.tree[i].right < d.tree[j].right /\ d.tree[j].left <= d.tree[i].parent
    BY <1>4, <2>1, <2>3 DEF Nested
  <2>5. CASE d.tree[j].right < d.tree[i].left
    <3>1. Node(u, d, j).right < Node(u, d, i).left
      BY ONLY <1>1, <1>2, <2>5
    <3> QED
      BY <3>1
  <2>6. CASE d.tree[i].right < d.tree[j].right /\ d.tree[j].left <= d.tree[i].parent
    <3>1. Node(u, d, i).right < Node(u, d, j).right
      BY ONLY <1>1, <1>2, <2>6
    <3>2. Node(u, d, j).left <= Node(u, d, i).parent
      BY ONLY <1>1, <1>2, <2>3, <2>6
    <3> QED
      BY <3>1, <3>2
  <2> QED
    BY <2>4, <2>5, <2>6
<1> QED
  BY <1>3, <1>5 DEF Nested

-----------------------------------------------------------------------------
(* Numbers.  The documents are kept apart by their numbers because every   *)
(* addition starts beyond all that is in the writer; only a document that  *)
(* a restart found ahead of the counter, or that a stale reindex wrote to, *)
(* is not.  The argument is about nodes and not about documents, so that   *)
(* it covers half-written documents, and those that lost nodes, as well.   *)

Placed(n) == n.docLeft <= n.left /\ n.left < n.right

(* Two nodes of one document lie to each other as in a tree; those of two  *)
(* documents have no number in common, and neither has what lies between   *)
(* the first number of the document and the node.                          *)
Compatible(m, n) ==
  IF m.uri = n.uri
    THEN Nested(m, n)
    ELSE m.right < n.docLeft \/ n.right < m.docLeft

Consistent(nodes, except) ==
  /\ \A n \in nodes : Placed(n)
  /\ \A m, n \in nodes :
       m.uri \notin except /\ n.uri \notin except => Compatible(m, n)

Below(nodes, except, c) == \A n \in nodes : n.uri \notin except => n.right < c

NumbersInImage(img) == Consistent(img.nodes, img.shared) /\ Recoverable(img)

(* In the writer the node that waits for the second write of a reindex     *)
(* counts as present (WriterNodes).  The document that is being added is   *)
(* not below the first number of its addition; all others are.             *)
Unfinished == IF Adding THEN {op.uri} ELSE {}
NextNumber == IF Adding THEN op.doc.base ELSE nodeCounter

WriterNumbers ==
  /\ Consistent(WriterNodes, writer.shared)
  /\ Below(WriterNodes, writer.ahead \cup writer.shared \cup Unfinished, writer.counter)
  /\ up => Below(WriterNodes, writer.shared \cup Unfinished, NextNumber)
  /\ Adding => up /\ NodesOf(writer, op.uri) \subseteq Prefix(op.uri, op.doc, op.added)

NumbersInv ==
  /\ WriterNumbers
  /\ NumbersInImage(durable)
  /\ NumbersInImage(searcher)
  /\ \A s \in Sessions : NumbersInImage(snapshot[s])

(* Fewer nodes, or more exceptions, are as consistent.                     *)
LEMMA ConsistentFewer ==
  ASSUME NEW M, NEW S, NEW N, NEW T, Consistent(M, S), \A n \in N : Placed(n),
         \A n \in N : n.uri \notin T => n \in M /\ n.uri \notin S
  PROVE  Consistent(N, T)
  BY DEF Consistent

(* And as much below a number.                                             *)
LEMMA BelowFewer ==
  ASSUME NEW M, NEW S, NEW N, NEW T, NEW c, Below(M, S, c),
         \A n \in N : n.uri \notin T => n \in M /\ n.uri \notin S
  PROVE  Below(N, T, c)
  BY DEF Below

(* Below one number is below a greater one.                                *)
LEMMA BelowGreater ==
  ASSUME NEW N, N \subseteq NodeRecord, NEW T, NEW c \in Nat, NEW d \in Nat,
         c <= d, Below(N, T, c)
  PROVE  Below(N, T, d)
<1> SUFFICES ASSUME NEW n \in N, n.uri \notin T PROVE n.right < d
  BY DEF Below
<1>1. n.right < c /\ n.right \in Nat
  BY DEF Below, NodeRecord
<1> QED
  BY ONLY <1>1, c \in Nat, d \in Nat, c <= d

(* The nodes of the writer, with the one that waits, are node records.     *)
LEMMA WriterNodesType ==
  ASSUME TypeOK
  PROVE  /\ WriterNodes \subseteq NodeRecord
         /\ writer.nodes \subseteq WriterNodes
         /\ ~Reindexing => WriterNodes = writer.nodes
  BY OpType DEF WriterNodes, TypeOK, Image

(* The first node of a tree has its first number.                          *)
LEMMA FirstLeftInTree ==
  ASSUME NEW t \in Trees
  PROVE  t[1].left = 0
  BY TreesAssumption DEF Numbered

(* A node of a prefix of the addition in progress lies from its base on,   *)
(* and below the counter.                                                  *)
LEMMA AddedNode ==
  ASSUME TypeOK, WriterInv, Adding, NEW k \in Nat, k <= Len(op.doc.tree),
         NEW n \in Prefix(op.uri, op.doc, k)
  PROVE  /\ n \in NodeRecord /\ n.uri = op.uri /\ Placed(n)
         /\ n.docLeft = op.doc.base /\ n.right < nodeCounter
<1>1. /\ op.uri \in Uris /\ op.doc \in [ver : Nat, base : Nat, tree : Trees]
      /\ nodeCounter = op.doc.base + Size(op.doc)
  BY OpType DEF WriterInv, Counters
<1>2. Len(op.doc.tree) \in Nat
  BY <1>1, TreeNotEmpty
<1>3. PICK i \in 1 .. Len(op.doc.tree) : n = Node(op.uri, op.doc, i)
  BY <1>2 DEF Prefix
<1>4. /\ n \in NodeRecord /\ n.uri = op.uri
      /\ op.doc.base <= n.left /\ n.left < n.right /\ n.right < op.doc.base + Size(op.doc)
  BY <1>1, <1>3, NodeFacts
<1>5. n.docLeft = op.doc.base + op.doc.tree[1].left
  BY <1>3 DEF Node
<1>6. op.doc.tree[1].left = 0 /\ op.doc.base \in Nat
  BY <1>1, FirstLeftInTree
<1>7. n.docLeft = op.doc.base
  BY ONLY <1>5, <1>6
<1> QED
  BY <1>1, <1>4, <1>7 DEF Placed

(* What a commit, a refresh or an orderly stop captures.                   *)
LEMMA NumbersCapture ==
  ASSUME TypeOK, WriterInv, WriterNumbers
  PROVE  NumbersInImage(Capture)
<1>1. /\ writer.nodes \subseteq WriterNodes
      /\ \A n \in writer.nodes : Placed(n)
  BY WriterNodesType DEF WriterNumbers, Consistent
<1>2. Consistent(Capture.nodes, Capture.shared)
  BY <1>1, CaptureType, ConsistentFewer DEF WriterNumbers
<1>3. \A n \in writer.nodes : n.uri \notin Capture.ahead \cup Capture.shared =>
        n \in WriterNodes /\ n.uri \notin writer.ahead \cup writer.shared \cup Unfinished
  <2> SUFFICES ASSUME NEW n \in writer.nodes, n.uri \notin Capture.ahead \cup Capture.shared
               PROVE  n.uri \notin writer.ahead \cup writer.shared \cup Unfinished
    BY <1>1
  <2>1. n.uri \notin writer.ahead \cup writer.shared
    BY CaptureType
  <2>2. ASSUME Adding, n.uri = op.uri
        PROVE  FALSE
    <3>1. op.added \in Nat
      BY <2>2, OpType
    <3>2. ~(0 < op.added)
      BY <2>2, CaptureType
    <3>3. op.added = 0
      BY ONLY <3>1, <3>2
    <3>4. n \in Prefix(op.uri, op.doc, 0)
      BY <2>2, <3>3 DEF WriterNumbers, NodesOf
    <3> QED
      BY <3>4, PrefixStep
  <2> QED
    BY <2>1, <2>2 DEF Unfinished
<1>4. Below(Capture.nodes, Capture.ahead \cup Capture.shared, Capture.counter)
  BY <1>3, CaptureType, BelowFewer DEF WriterNumbers
<1> QED
  BY <1>2, <1>4 DEF NumbersInImage, Recoverable, Below

(* An index that is not open, with what it stored.                         *)
LEMMA NumbersStopped ==
  ASSUME NEW img, NumbersInImage(img), Load(img), ~up'
  PROVE  WriterNumbers'
<1>1. /\ ~Adding' /\ ~Reindexing' /\ writer' = img
  BY DEF Load, Adding, Reindexing, NoOp
<1>2. WriterNodes' = img.nodes /\ Unfinished' = {}
  BY <1>1 DEF WriterNodes, Unfinished
<1>3. Consistent(img.nodes, img.shared) /\ Below(img.nodes, img.ahead \cup img.shared, img.counter)
  BY DEF NumbersInImage, Recoverable, Below
<1>4. Consistent(WriterNodes', writer'.shared)
  BY <1>1, <1>2, <1>3
<1>5. Below(WriterNodes', writer'.ahead \cup writer'.shared \cup Unfinished', writer'.counter)
  BY <1>1, <1>2, <1>3 DEF Below
<1> QED
  BY <1>1, <1>4, <1>5 DEF WriterNumbers, Consistent, Below, Compatible, Placed

(* A restart: what was ahead of the counter is shared from now on.         *)
LEMMA NumbersOpen ==
  ASSUME TypeOK, NumbersInv, Open
  PROVE  NumbersInv'
<1>1. PICK img \in Image :
        /\ Load(img) /\ img.nodes = durable.nodes
        /\ img.counter \in Nat /\ durable.counter \in Nat
        /\ durable.counter <= img.counter
        /\ img.ahead = {} /\ img.shared = durable.shared \cup durable.ahead
  BY OpenLoads
<1>2. durable.nodes \subseteq NodeRecord
  BY DEF TypeOK, Image
<1>3. /\ Consistent(durable.nodes, durable.shared)
      /\ Below(durable.nodes, durable.ahead \cup durable.shared, durable.counter)
  BY DEF NumbersInv, NumbersInImage, Recoverable, Below
<1>4. Consistent(img.nodes, img.shared)
  BY <1>1, <1>3 DEF Consistent
<1>5. Below(img.nodes, img.shared, img.counter)
  <2>1. Below(durable.nodes, durable.ahead \cup durable.shared, img.counter)
    BY <1>1, <1>2, <1>3, BelowGreater
  <2> QED
    BY <1>1, <2>1, BelowFewer
<1>6. NumbersInImage(img)
  BY <1>1, <1>4, <1>5 DEF NumbersInImage, Recoverable, Below
<1>7. /\ ~Adding' /\ ~Reindexing' /\ writer' = img /\ nodeCounter' = img.counter
      /\ durable' = img /\ searcher' = img /\ snapshot' = snapshot
  BY <1>1 DEF Load, Adding, Reindexing, NoOp, Open
<1>8. WriterNodes' = img.nodes /\ Unfinished' = {} /\ NextNumber' = img.counter
  BY <1>7 DEF WriterNodes, Unfinished, NextNumber
<1>9. Consistent(WriterNodes, writer.shared)'
  BY <1>4, <1>7, <1>8 DEF Consistent, Compatible, Placed
<1>10. Below(WriterNodes, writer.ahead \cup writer.shared \cup Unfinished, writer.counter)'
  BY <1>1, <1>5, <1>7, <1>8 DEF Below
<1>11. Below(WriterNodes, writer.shared \cup Unfinished, NextNumber)'
  BY <1>5, <1>7, <1>8 DEF Below
<1>12. WriterNumbers'
  BY <1>7, <1>9, <1>10, <1>11 DEF WriterNumbers
<1> QED
  BY <1>6, <1>7, <1>12 DEF NumbersInv

(* The start of an addition: it numbers from beyond all others.            *)
LEMMA AddBeginNumbers ==
  ASSUME TypeOK, WriterNumbers,
         NEW s \in Sessions, NEW u \in Uris, NEW t \in Trees, AddBegin(s, u, t)
  PROVE  WriterNumbers'
<1>1. /\ up /\ up' = up /\ ~Adding /\ ~Reindexing
      /\ op'.kind = "add" /\ op'.uri = u /\ op'.added = 0 /\ op'.doc.base = nodeCounter
      /\ writer' = Without(writer, u)
  BY OpType DEF AddBegin, Call
<1>2. Adding' /\ ~Reindexing'
  BY <1>1 DEF Adding, Reindexing
<1>3. /\ WriterNodes = writer.nodes /\ Unfinished = {} /\ NextNumber = nodeCounter
      /\ WriterNodes' = writer'.nodes /\ Unfinished' = {u} /\ NextNumber' = nodeCounter
  BY <1>1, <1>2 DEF WriterNodes, Unfinished, NextNumber
<1>4. /\ writer'.nodes = {n \in writer.nodes : n.uri # u}
      /\ writer'.counter = writer.counter
      /\ writer'.ahead = writer.ahead \ {u} /\ writer'.shared = writer.shared \ {u}
  BY <1>1, WriterType, WithoutType
<1>5. Consistent(WriterNodes', writer'.shared)
  BY <1>3, <1>4 DEF WriterNumbers, Consistent
<1>6. Below(WriterNodes', writer'.ahead \cup writer'.shared \cup Unfinished', writer'.counter)
  BY <1>3, <1>4 DEF WriterNumbers, Below
<1>7. Below(WriterNodes', writer'.shared \cup Unfinished', NextNumber')
  BY <1>1, <1>3, <1>4 DEF WriterNumbers, Below
<1>8. NodesOf(writer', op'.uri) = {}
  BY <1>1, <1>4 DEF NodesOf
<1> QED
  BY <1>1, <1>5, <1>6, <1>7, <1>8 DEF WriterNumbers

(* One more node: it lies beyond all other documents, and to the nodes of  *)
(* its own as in the tree.                                                 *)
LEMMA AddNodeNumbers ==
  ASSUME TypeOK, WriterInv, WriterNumbers, NEW s \in Sessions, AddNode(s)
  PROVE  WriterNumbers'
<1> DEFINE u == op.uri
           d == op.doc
           k == op.added
           new == Node(u, d, k + 1)
<1>1. /\ Adding /\ ~Reindexing /\ up /\ up' = up /\ u \in Uris /\ k \in Nat
      /\ d \in [ver : Nat, base : Nat, tree : Trees] /\ d.base \in Nat
      /\ k < Len(d.tree) /\ Len(d.tree) \in Nat
  BY OpType, TreeNotEmpty DEF AddNode, WriterNumbers
<1>2. /\ op'.kind = "add" /\ op'.uri = u /\ op'.doc = d /\ op'.added = k + 1
      /\ nodeCounter' = nodeCounter
  BY OpType DEF AddNode, AddOp
<1>3. Adding' /\ ~Reindexing'
  BY <1>2 DEF Adding, Reindexing
<1>4. /\ writer'.nodes = writer.nodes \cup {new}
      /\ writer'.counter = writer.counter
      /\ writer'.ahead = writer.ahead /\ writer'.shared = writer.shared
  BY AddNodeWriter
<1>5. /\ WriterNodes = writer.nodes /\ Unfinished = {u} /\ NextNumber = d.base
      /\ WriterNodes' = writer'.nodes /\ Unfinished' = {u} /\ NextNumber' = d.base
  BY <1>1, <1>2, <1>3 DEF WriterNodes, Unfinished, NextNumber
<1>6. Prefix(u, d, k + 1) = Prefix(u, d, k) \cup {new} /\ k + 1 \in 1 .. Len(d.tree)
  <2>1. Prefix(u, d, k + 1) = Prefix(u, d, k) \cup {new}
    BY <1>1, PrefixStep
  <2>2. k \in Nat /\ Len(d.tree) \in Nat /\ k < Len(d.tree)
    BY <1>1
  <2>3. k + 1 \in 1 .. Len(d.tree)
    BY ONLY <2>2
  <2> QED
    BY <2>1, <2>3
<1>7. new \in Prefix(u, d, k + 1) /\ k + 1 \in Nat /\ k + 1 <= Len(d.tree)
  BY <1>1, <1>6
<1>8. new.uri = u /\ Placed(new) /\ new.docLeft = d.base
  BY <1>1, <1>7, AddedNode
<1>9. ASSUME NEW n \in writer.nodes, n.uri \notin writer.shared, u \notin writer.shared
      PROVE  Compatible(n, new) /\ Compatible(new, n)
  <2>1. CASE n.uri = u
    <3>1. n \in Prefix(u, d, k)
      BY <1>1, <2>1 DEF WriterNumbers, NodesOf
    <3>2. PICK i \in 1 .. k : n = Node(u, d, i)
      BY <3>1 DEF Prefix
    <3>3. i \in 1 .. Len(d.tree)
      BY <1>1
    <3>4. Nested(n, new) /\ Nested(new, n)
      BY <1>1, <1>6, <3>2, <3>3, VersionNested
    <3> QED
      BY <1>8, <2>1, <3>4 DEF Compatible
  <2>2. CASE n.uri # u
    <3>1. n.right < d.base
      BY <1>1, <1>5, <1>9, <2>2 DEF WriterNumbers, Below
    <3> QED
      BY <1>8, <2>2, <3>1 DEF Compatible
  <2> QED
    BY <2>1, <2>2
<1>10. Compatible(new, new)
  BY <1>1, <1>6, VersionNested DEF Compatible
<1> HIDE DEF u, d, k, new
<1>11. Consistent(WriterNodes', writer'.shared)
  <2>1. \A n \in writer.nodes : Placed(n)
    BY <1>5 DEF WriterNumbers, Consistent
  <2>2. \A m, n \in writer.nodes : m.uri \notin writer.shared /\ n.uri \notin writer.shared
                                     => Compatible(m, n)
    BY <1>5 DEF WriterNumbers, Consistent
  <2> QED
    BY <1>4, <1>5, <1>8, <1>9, <1>10, <2>1, <2>2 DEF Consistent
<1>12. Below(WriterNodes', writer'.ahead \cup writer'.shared \cup Unfinished', writer'.counter)
  BY <1>4, <1>5, <1>8 DEF WriterNumbers, Below
<1>13. Below(WriterNodes', writer'.shared \cup Unfinished', NextNumber')
  BY <1>1, <1>4, <1>5, <1>8 DEF WriterNumbers, Below
<1>14. NodesOf(writer', op'.uri) \subseteq Prefix(op'.uri, op'.doc, op'.added)
  <2>1. NodesOf(writer, u) \subseteq Prefix(u, d, k)
    BY <1>1 DEF WriterNumbers, u, d, k
  <2>2. NodesOf(writer', u) \subseteq NodesOf(writer, u) \cup {new}
    BY <1>4 DEF NodesOf
  <2> QED
    BY <1>2, <1>6, <2>1, <2>2
<1> QED
  BY <1>1, <1>11, <1>12, <1>13, <1>14 DEF WriterNumbers

(* The numbers of a document whose addition ends, with those before it,    *)
(* are below a counter that is not behind the one of the addition.         *)
LEMMA AddedBelow ==
  ASSUME TypeOK, WriterInv, WriterNumbers, Adding, NEW c \in Nat, op.doc.base <= c,
         op.added > 0 => c = nodeCounter
  PROVE  Below(writer.nodes, writer.shared, c)
<1>1. /\ up /\ ~Reindexing /\ op.doc.base \in Nat /\ op.added \in Nat
      /\ op.added <= Len(op.doc.tree)
  BY OpType DEF WriterNumbers, WriterInv, Counters
<1>2. WriterNodes = writer.nodes /\ writer.nodes \subseteq NodeRecord
  BY <1>1, WriterNodesType
<1>3. Below(writer.nodes, writer.shared \cup {op.uri}, op.doc.base)
  BY <1>1, <1>2 DEF WriterNumbers, Unfinished, NextNumber
<1>4. Below(writer.nodes, writer.shared \cup {op.uri}, c)
  BY <1>1, <1>2, <1>3, BelowGreater
<1> SUFFICES ASSUME NEW n \in writer.nodes, n.uri \notin writer.shared PROVE n.right < c
  BY DEF Below
<1>5. CASE n.uri # op.uri
  BY <1>4, <1>5 DEF Below
<1>6. CASE n.uri = op.uri
  <2>1. n \in Prefix(op.uri, op.doc, op.added)
    BY <1>6 DEF WriterNumbers, NodesOf
  <2>2. n.right < nodeCounter
    BY <1>1, <2>1, AddedNode
  <2>3. op.added # 0
    BY <2>1, PrefixStep
  <2>4. op.added > 0
    BY ONLY <1>1, <2>3
  <2> QED
    BY <2>2, <2>4
<1> QED
  BY <1>5, <1>6

(* The end of an addition: the stored counter is beyond everything.        *)
LEMMA AddEndNumbers ==
  ASSUME TypeOK, WriterInv, WriterNumbers, NEW s \in Sessions, AddEnd(s)
  PROVE  WriterNumbers'
<1>1. /\ Adding /\ ~Reindexing /\ op' = NoOp /\ nodeCounter' = nodeCounter /\ up' = up
      /\ op.doc \in Version /\ nodeCounter = op.doc.base + Size(op.doc)
  BY OpType DEF AddEnd, WriterInv, Counters
<1>2. ~Adding' /\ ~Reindexing'
  BY <1>1 DEF Adding, Reindexing, NoOp
<1>3. /\ writer'.nodes = writer.nodes /\ writer'.counter = nodeCounter
      /\ writer'.ahead = {} /\ writer'.shared = writer.shared
  BY AddEndWriter
<1>4. /\ WriterNodes = writer.nodes
      /\ WriterNodes' = writer.nodes /\ Unfinished' = {} /\ NextNumber' = nodeCounter
  BY <1>1, <1>2, <1>3 DEF WriterNodes, Unfinished, NextNumber
<1>5. Below(writer.nodes, writer.shared, nodeCounter)
  <2>1. op.doc.base \in Nat /\ Size(op.doc) \in Nat /\ nodeCounter \in Nat
    BY <1>1, VersionSize, WriterType
  <2>2. op.doc.base <= nodeCounter
    BY ONLY <1>1, <2>1
  <2> QED
    BY <1>1, <2>1, <2>2, AddedBelow
<1>6. Consistent(WriterNodes', writer'.shared)
  BY <1>3, <1>4 DEF WriterNumbers
<1>7. Below(WriterNodes', writer'.ahead \cup writer'.shared \cup Unfinished', writer'.counter)
  BY <1>3, <1>4, <1>5 DEF Below
<1>8. Below(WriterNodes', writer'.shared \cup Unfinished', NextNumber')
  BY <1>3, <1>4, <1>5 DEF Below
<1> QED
  BY <1>2, <1>6, <1>7, <1>8 DEF WriterNumbers

(* A failed addition gives its numbers back, and removes its nodes.        *)
LEMMA AddFailNumbers ==
  ASSUME TypeOK, WriterInv, WriterNumbers, NEW s \in Sessions, AddFail(s)
  PROVE  WriterNumbers'
<1> DEFINE u == op.uri
<1>1. /\ Adding /\ ~Reindexing /\ up /\ up' = up /\ u \in Uris
      /\ op' = NoOp /\ nodeCounter' = op.doc.base
      /\ writer' = Without(writer, u)
  BY OpType DEF AddFail, WriterNumbers
<1>2. ~Adding' /\ ~Reindexing'
  BY <1>1 DEF Adding, Reindexing, NoOp
<1>3. /\ writer'.nodes = {n \in writer.nodes : n.uri # u}
      /\ writer'.counter = writer.counter
      /\ writer'.ahead = writer.ahead \ {u} /\ writer'.shared = writer.shared \ {u}
  BY <1>1, WriterType, WithoutType
<1>4. /\ WriterNodes = writer.nodes /\ Unfinished = {u} /\ NextNumber = op.doc.base
      /\ WriterNodes' = writer'.nodes /\ Unfinished' = {} /\ NextNumber' = op.doc.base
  BY <1>1, <1>2 DEF WriterNodes, Unfinished, NextNumber
<1> HIDE DEF u
<1>5. Consistent(WriterNodes', writer'.shared)
  BY <1>3, <1>4 DEF WriterNumbers, Consistent
<1>6. Below(WriterNodes', writer'.ahead \cup writer'.shared \cup Unfinished', writer'.counter)
  BY <1>3, <1>4 DEF WriterNumbers, Below
<1>7. Below(WriterNodes', writer'.shared \cup Unfinished', NextNumber')
  BY <1>1, <1>3, <1>4 DEF WriterNumbers, Below
<1> QED
  BY <1>2, <1>5, <1>6, <1>7 DEF WriterNumbers

(* An Error leaves the counter beyond the nodes that were added.           *)
LEMMA AddErrorNumbers ==
  ASSUME TypeOK, WriterInv, WriterNumbers, NEW s \in Sessions, AddError(s)
  PROVE  WriterNumbers'
<1>1. /\ Adding /\ ~Reindexing /\ op' = NoOp /\ writer' = Capture /\ up' = up
      /\ nodeCounter' \in (IF op.added = 0 THEN op.doc.base ELSE nodeCounter) .. nodeCounter
  BY OpType DEF AddError
<1>2. ~Adding' /\ ~Reindexing'
  BY <1>1 DEF Adding, Reindexing, NoOp
<1>3. /\ op.added \in Nat /\ op.doc.base \in Nat /\ nodeCounter \in Nat
      /\ op.doc \in Version /\ nodeCounter = op.doc.base + Size(op.doc)
  BY <1>1, OpType, WriterType DEF WriterInv, Counters
<1>4. nodeCounter' \in Nat /\ op.doc.base <= nodeCounter'
  <2>1. Size(op.doc) \in Nat
    BY <1>3, VersionSize
  <2>2. CASE op.added = 0
    <3>1. nodeCounter' \in op.doc.base .. nodeCounter
      BY <1>1, <2>2
    <3> QED
      BY ONLY <1>3, <3>1
  <2>3. CASE op.added # 0
    <3>1. nodeCounter' \in nodeCounter .. nodeCounter
      BY <1>1, <2>3
    <3> QED
      BY ONLY <1>3, <2>1, <3>1
  <2> QED
    BY <2>2, <2>3
<1>5. op.added > 0 => nodeCounter' = nodeCounter
  <2> SUFFICES ASSUME op.added > 0 PROVE nodeCounter' = nodeCounter
    OBVIOUS
  <2>1. op.added # 0
    BY ONLY <1>3, op.added > 0
  <2>2. nodeCounter' \in nodeCounter .. nodeCounter
    BY <1>1, <2>1
  <2> QED
    BY ONLY <1>3, <2>2
<1>6. /\ writer'.nodes = writer.nodes /\ writer'.counter = writer.counter
      /\ writer'.shared = writer.shared
  BY <1>1, CaptureType
<1>7. WriterNodes' = writer'.nodes /\ Unfinished' = {} /\ NextNumber' = nodeCounter'
  BY <1>2 DEF WriterNodes, Unfinished, NextNumber
<1>8. NumbersInImage(writer')
  BY <1>1, NumbersCapture
<1>9. Consistent(WriterNodes', writer'.shared)
  BY <1>7, <1>8 DEF NumbersInImage
<1>10. Below(WriterNodes', writer'.ahead \cup writer'.shared \cup Unfinished', writer'.counter)
  BY <1>7, <1>8 DEF NumbersInImage, Recoverable, Below
<1>11. Below(WriterNodes', writer'.shared \cup Unfinished', NextNumber')
  <2>1. Below(writer.nodes, writer.shared, nodeCounter')
    BY <1>1, <1>4, <1>5, AddedBelow
  <2> QED
    BY <1>6, <1>7, <2>1 DEF Below
<1> QED
  BY <1>2, <1>9, <1>10, <1>11 DEF WriterNumbers

(* A removal takes nodes away; the node that waits for the second write of *)
(* a reindex keeps its exceptions.                                         *)
LEMMA RemoveDocumentNumbers ==
  ASSUME TypeOK, WriterInv, WriterNumbers,
         NEW s \in Sessions, NEW u \in Uris, RemoveDocument(s, u)
  PROVE  WriterNumbers'
<1> DEFINE new == Without(writer, u)
<1>1. op' = op /\ nodeCounter' = nodeCounter /\ up' = up
  BY DEF RemoveDocument
<1>2. /\ Adding' = Adding /\ Reindexing' = Reindexing
      /\ Unfinished' = Unfinished /\ NextNumber' = NextNumber
  BY <1>1 DEF Adding, Reindexing, Unfinished, NextNumber
<1>3. /\ writer'.nodes = {n \in writer.nodes : n.uri # u}
      /\ writer'.counter = writer.counter
      /\ writer'.ahead = IF ComesBack(u) THEN writer.ahead ELSE writer.ahead \ {u}
      /\ writer'.shared = IF ComesBack(u) THEN writer.shared ELSE writer.shared \ {u}
  <2>1. /\ new.nodes = {n \in writer.nodes : n.uri # u}
        /\ new.counter = writer.counter
        /\ new.ahead = writer.ahead \ {u} /\ new.shared = writer.shared \ {u}
    BY WriterType, WithoutType
  <2>2. /\ writer'.nodes = new.nodes /\ writer'.counter = new.counter
        /\ writer'.ahead = IF ComesBack(u) THEN writer.ahead ELSE new.ahead
        /\ writer'.shared = IF ComesBack(u) THEN writer.shared ELSE new.shared
    BY RemovalWriter
  <2> HIDE DEF new
  <2> QED
    BY <2>1, <2>2
<1>4. WriterNodes' = writer'.nodes \cup (IF Reindexing THEN {op.node} ELSE {})
  BY <1>1, <1>2 DEF WriterNodes
<1>5. \A n \in WriterNodes' :
        /\ n \in WriterNodes
        /\ n.uri \notin writer'.shared => n.uri \notin writer.shared
        /\ n.uri \notin writer'.ahead => n.uri \notin writer.ahead
  <2> SUFFICES ASSUME NEW n \in WriterNodes'
               PROVE  /\ n \in WriterNodes
                      /\ n.uri # u \/ ComesBack(u)
    BY <1>3
  <2>1. CASE n \in writer'.nodes
    BY <1>3, <2>1 DEF WriterNodes
  <2>2. CASE n \notin writer'.nodes
    <3>1. Reindexing /\ n = op.node
      BY <1>4, <2>2
    <3>2. n.uri = op.uri
      BY <3>1 DEF WriterInv, OpNode
    <3> QED
      BY <3>1, <3>2 DEF WriterNodes, ComesBack
  <2> QED
    BY <2>1, <2>2
<1>6. Consistent(WriterNodes', writer'.shared)
  BY <1>5 DEF WriterNumbers, Consistent
<1>7. Below(WriterNodes', writer'.ahead \cup writer'.shared \cup Unfinished', writer'.counter)
  BY <1>2, <1>3, <1>5 DEF WriterNumbers, Below
<1>8. up' => Below(WriterNodes', writer'.shared \cup Unfinished', NextNumber')
  BY <1>1, <1>2, <1>5 DEF WriterNumbers, Below
<1>9. NodesOf(writer', op'.uri) \subseteq NodesOf(writer, op.uri)
  BY <1>1, <1>3 DEF NodesOf
<1> QED
  BY <1>1, <1>2, <1>6, <1>7, <1>8, <1>9 DEF WriterNumbers

(* The first write of a reindex: the node that waits was in the writer, or *)
(* its document is shared from now on.                                     *)
LEMMA ReindexDeleteNumbers ==
  ASSUME TypeOK, WriterNumbers, NEW s \in Sessions, NumbersInImage(snapshot[s]),
         NEW n \in snapshot[s].nodes, NEW b \in BaseUris(snapshot[s], n),
         ReindexDelete(s, n, b)
  PROVE  WriterNumbers'
<1> DEFINE new == [n EXCEPT !.uri = b]
<1>1. /\ ~Adding /\ ~Reindexing /\ up' = up /\ nodeCounter' = nodeCounter
      /\ op'.kind = "reindex" /\ op'.uri = b /\ op'.node = new
  BY OpType DEF ReindexDelete
<1>2. ~Adding' /\ Reindexing'
  BY <1>1 DEF Adding, Reindexing
<1>3. n \in NodeRecord /\ new.uri = b
  BY ReindexNodeType
<1>4. Placed(new)
  <2>1. Placed(n)
    BY DEF NumbersInImage, Consistent
  <2>2. new.left = n.left /\ new.right = n.right /\ new.docLeft = n.docLeft
    BY <1>3 DEF NodeRecord
  <2> QED
    BY <2>1, <2>2 DEF Placed
<1>5. /\ writer'.nodes = writer.nodes \ Hit(n)
      /\ writer'.counter = writer.counter
      /\ writer'.ahead = writer.ahead
      /\ writer'.shared = writer.shared \cup (IF new \in Hit(n) THEN {} ELSE {b})
  BY ReindexWriter
<1> HIDE DEF new
<1>6. /\ WriterNodes = writer.nodes /\ Unfinished = {} /\ NextNumber = nodeCounter
      /\ WriterNodes' = writer'.nodes \cup {new}
      /\ Unfinished' = {} /\ NextNumber' = nodeCounter
  BY <1>1, <1>2 DEF WriterNodes, Unfinished, NextNumber
<1>7. \A m \in WriterNodes' : m.uri \notin writer'.shared =>
        m \in writer.nodes /\ m.uri \notin writer.shared
  BY <1>3, <1>5, <1>6 DEF Hit
<1>8. \A m \in WriterNodes' : Placed(m)
  BY <1>4, <1>5, <1>6 DEF WriterNumbers, Consistent
<1>9. Consistent(WriterNodes', writer'.shared)
  BY <1>6, <1>7, <1>8, ConsistentFewer DEF WriterNumbers
<1>10. Below(WriterNodes', writer'.ahead \cup writer'.shared \cup Unfinished', writer'.counter)
  BY <1>5, <1>6, <1>7 DEF WriterNumbers, Below
<1>11. up' => Below(WriterNodes', writer'.shared \cup Unfinished', NextNumber')
  BY <1>1, <1>6, <1>7 DEF WriterNumbers, Below
<1> QED
  BY <1>2, <1>9, <1>10, <1>11 DEF WriterNumbers

(* The second write: the node that waited is in the writer again.          *)
LEMMA ReindexAddNumbers ==
  ASSUME TypeOK, WriterNumbers, NEW s \in Sessions, ReindexAdd(s)
  PROVE  WriterNumbers'
<1>1. /\ Reindexing /\ ~Adding /\ op' = NoOp /\ up' = up /\ nodeCounter' = nodeCounter
  BY OpType DEF ReindexAdd
<1>2. ~Adding' /\ ~Reindexing'
  BY <1>1 DEF Adding, Reindexing, NoOp
<1>3. /\ writer'.nodes = writer.nodes \cup {op.node}
      /\ writer'.counter = writer.counter
      /\ writer'.ahead = writer.ahead /\ writer'.shared = writer.shared
  BY WriterType DEF ReindexAdd, Image
<1>4. /\ WriterNodes' = WriterNodes /\ Unfinished' = Unfinished /\ NextNumber' = NextNumber
  BY <1>1, <1>2, <1>3 DEF WriterNodes, Unfinished, NextNumber
<1> QED
  BY <1>1, <1>2, <1>3, <1>4 DEF WriterNumbers

(* The empty directory satisfies the invariant.                            *)
LEMMA NumbersInit == Init => NumbersInv
<1> SUFFICES ASSUME Init PROVE NumbersInv
  OBVIOUS
<1>1. /\ durable = writer /\ searcher = writer /\ writer.nodes = {}
      /\ snapshot = [s \in Sessions |-> writer] /\ ~Adding /\ ~Reindexing
  BY DEF Init, Adding, Reindexing, NoOp
<1>2. WriterNodes = {}
  BY <1>1 DEF WriterNodes
<1>3. NumbersInImage(writer) /\ WriterNumbers
  BY <1>1, <1>2 DEF NumbersInImage, Recoverable, WriterNumbers, Consistent, Below
<1> QED
  BY <1>1, <1>3 DEF NumbersInv

(* Every step preserves it.                                                *)
LEMMA NumbersStep ==
  ASSUME IInv, NumbersInv, [Next]_vars
  PROVE  NumbersInv'
<1>1. TypeOK /\ WriterInv /\ WriterNumbers
  BY DEF IInv, NumbersInv
<1>2. NumbersInImage(Capture)
  BY <1>1, NumbersCapture
<1>3. ASSUME WriterNumbers', UNCHANGED <<durable, searcher, snapshot>>
      PROVE  NumbersInv'
  BY <1>3 DEF NumbersInv
<1>4. ASSUME UNCHANGED <<up, writer, nodeCounter, op>>
      PROVE  WriterNumbers'
  <2>1. /\ Adding' = Adding /\ WriterNodes' = WriterNodes
        /\ Unfinished' = Unfinished /\ NextNumber' = NextNumber
    BY <1>4 DEF Adding, Reindexing, WriterNodes, Unfinished, NextNumber
  <2> QED
    BY <1>1, <1>4, <2>1 DEF WriterNumbers
<1>5. ASSUME NEW img, NumbersInImage(img), Load(img), ~up',
             \A s \in Sessions : NumbersInImage(snapshot'[s])
      PROVE  NumbersInv'
  <2>1. WriterNumbers'
    BY <1>5, NumbersStopped
  <2> QED
    BY <1>5, <2>1 DEF Load, NumbersInv
<1>6. CASE Open
  BY <1>1, <1>6, NumbersOpen
<1>7. CASE Close
  <2>1. \A s \in Sessions : NumbersInImage(snapshot'[s])
    BY <1>7 DEF Close, NumbersInv
  <2> QED
    BY <1>2, <1>5, <1>7, <2>1 DEF Close
<1>8. CASE Crash
  <2>1. NumbersInImage(durable)
    BY DEF NumbersInv
  <2>2. \A s \in Sessions : NumbersInImage(snapshot'[s])
    BY <1>8, <2>1 DEF Crash
  <2> QED
    BY <1>5, <1>8, <2>1, <2>2 DEF Crash
<1>9. CASE Refresh
  BY <1>2, <1>4, <1>9 DEF Refresh, NumbersInv
<1>10. ASSUME NEW s \in Sessions, SessionNext(s)
       PROVE  NumbersInv'
  <2>1. ASSUME NEW u \in Uris, NEW t \in Trees, AddBegin(s, u, t)
        PROVE  NumbersInv'
    BY <1>1, <1>3, <2>1, AddBeginNumbers DEF AddBegin
  <2>2. CASE AddNode(s)
    BY <1>1, <1>3, <2>2, AddNodeNumbers DEF AddNode
  <2>3. CASE AddEnd(s)
    BY <1>1, <1>3, <2>3, AddEndNumbers DEF AddEnd
  <2>4. CASE AddFail(s)
    BY <1>1, <1>3, <2>4, AddFailNumbers DEF AddFail
  <2>5. CASE AddError(s)
    BY <1>1, <1>3, <2>5, AddErrorNumbers DEF AddError
  <2>6. ASSUME NEW u \in Uris, RemoveDocument(s, u)
        PROVE  NumbersInv'
    BY <1>1, <1>3, <2>6, RemoveDocumentNumbers DEF RemoveDocument
  <2>7. CASE ReindexBegin(s)
    <3>1. PICK n \in snapshot[s].nodes :
             \E b \in BaseUris(snapshot[s], n) : ReindexDelete(s, n, b)
      BY <2>7 DEF ReindexBegin
    <3>2. PICK b \in BaseUris(snapshot[s], n) : ReindexDelete(s, n, b)
      BY <3>1
    <3>3. NumbersInImage(snapshot[s])
      BY DEF NumbersInv
    <3>4. WriterNumbers'
      BY <1>1, <3>2, <3>3, ReindexDeleteNumbers
    <3> QED
      BY <1>3, <3>2, <3>4 DEF ReindexDelete
  <2>8. CASE ReindexAdd(s)
    BY <1>1, <1>3, <2>8, ReindexAddNumbers DEF ReindexAdd
  <2>9. ASSUME NEW w \in BOOLEAN, Commit(s, w)
        PROVE  NumbersInv'
    BY <1>2, <1>4, <2>9 DEF Commit, NumbersInv
  <2>10. CASE SwitchSearcher(s)
    <3>1. \A x \in Sessions : NumbersInImage(snapshot'[x])
      BY <1>1, <1>2, <2>10 DEF SwitchSearcher, NumbersInv, TypeOK
    <3> QED
      BY <1>2, <1>4, <2>10, <3>1 DEF SwitchSearcher, NumbersInv
  <2>11. CASE AquireSession(s)
    <3>1. \A x \in Sessions : NumbersInImage(snapshot'[x])
      BY <1>1, <2>11 DEF AquireSession, NumbersInv, TypeOK
    <3> QED
      BY <1>4, <2>11, <3>1 DEF AquireSession, NumbersInv
  <2> QED
    BY <1>10, <2>1, <2>2, <2>3, <2>4, <2>5, <2>6, <2>7, <2>8, <2>9, <2>10,
       <2>11 DEF SessionNext
<1>11. CASE UNCHANGED vars
  BY <1>1, <1>3, <1>4, <1>11 DEF vars
<1> QED
  BY <1>6, <1>7, <1>8, <1>9, <1>10, <1>11 DEF Next

(* Everything that can be seen has its numbers in order.                   *)
LEMMA NumbersImages ==
  ASSUME IInv, NumbersInv, NEW img \in Images
  PROVE  NumbersInImage(img) /\ img.nodes \subseteq NodeRecord
<1>1. NumbersInImage(Capture)
  BY NumbersCapture DEF IInv, NumbersInv
<1> QED
  BY <1>1, IntactImages DEF Images, NumbersInv, Image

(* The numbers are in order in every reachable state.                      *)
LEMMA NumbersAlways == Spec => [](IInv /\ NumbersInv)
<1>1. Init => NumbersInv
  BY NumbersInit
<1>2. IInv /\ NumbersInv /\ [Next]_vars => NumbersInv'
  BY NumbersStep
<1> QED
  BY <1>1, <1>2, Invariant, PTL DEF Spec

(* The counter found after a restart is beyond every number of the index,  *)
(* but for documents that were ahead of it when they were stored and those *)
(* that a stale reindex wrote to.                                          *)
THEOREM CounterRecoverable == Spec => []RecoverableCounter
<1>1. IInv /\ NumbersInv => RecoverableCounter
  BY NumbersImages DEF RecoverableCounter, NumbersInImage
<1> QED
  BY <1>1, NumbersAlways, PTL

(* Two nodes with one left number are one node, unless a document of       *)
(* theirs is shared.                                                       *)
LEMMA LeftKey ==
  ASSUME IInv, NumbersInv
  PROVE  LeftIsKey
<1> SUFFICES ASSUME NEW img \in Images, NEW m \in img.nodes, NEW n \in img.nodes,
                    m.left = n.left, m.uri \notin img.shared, n.uri \notin img.shared
             PROVE  m = n
  BY DEF LeftIsKey
<1>1. Compatible(m, n) /\ Placed(m) /\ Placed(n) /\ m \in NodeRecord /\ n \in NodeRecord
  BY NumbersImages DEF NumbersInImage, Consistent
<1>2. CASE m.uri = n.uri
  BY <1>1, <1>2 DEF Compatible, Nested
<1>3. CASE m.uri # n.uri
  <2>1. /\ m.left \in Nat /\ m.right \in Nat /\ m.docLeft \in Nat
        /\ n.left \in Nat /\ n.right \in Nat /\ n.docLeft \in Nat
    BY <1>1 DEF NodeRecord
  <2>2. /\ m.docLeft <= m.left /\ m.left < m.right
        /\ n.docLeft <= n.left /\ n.left < n.right
    BY <1>1 DEF Placed
  <2>3. m.right < n.docLeft \/ n.right < m.docLeft
    BY <1>1, <1>3 DEF Compatible
  <2>4. ~(m.right < n.docLeft)
    BY ONLY <2>1, <2>2, m.left = n.left
  <2>5. ~(n.right < m.docLeft)
    BY ONLY <2>1, <2>2, m.left = n.left
  <2> QED
    BY <2>3, <2>4, <2>5
<1> QED
  BY <1>2, <1>3

(* A left number identifies one node among all documents, half-written and *)
(* damaged ones included, that no restart found ahead of the counter and   *)
(* no stale reindex wrote to.                                              *)
THEOREM LeftNumberIsKey == Spec => []LeftIsKey
<1>1. IInv /\ NumbersInv => LeftIsKey
  BY LeftKey
<1> QED
  BY <1>1, NumbersAlways, PTL

(* The interval of a node holds whole subtrees of its own document, and    *)
(* otherwise only nodes of documents that a restart found ahead of the     *)
(* counter or that a stale reindex wrote to.                               *)
THEOREM DescendantsInDocument == Spec => []DescendantsStayInDocument
<1>1. IInv /\ NumbersInv => DescendantsStayInDocument
  <2> SUFFICES ASSUME IInv, NumbersInv,
                      NEW img \in Images, NEW m \in img.nodes, NEW n \in img.nodes,
                      m.uri \notin img.shared, n.uri \notin img.shared,
                      m.left < n.left, n.left < m.right
               PROVE  n.uri = m.uri /\ n.right < m.right /\ m.left <= n.parent
    BY DEF DescendantsStayInDocument
  <2>1. Compatible(m, n) /\ Placed(m) /\ Placed(n) /\ m \in NodeRecord /\ n \in NodeRecord
    BY NumbersImages DEF NumbersInImage, Consistent
  <2>2. /\ m.left \in Nat /\ m.right \in Nat /\ m.docLeft \in Nat
        /\ n.left \in Nat /\ n.right \in Nat /\ n.docLeft \in Nat
    BY <2>1 DEF NodeRecord
  <2>3. /\ m.docLeft <= m.left /\ m.left < m.right
        /\ n.docLeft <= n.left /\ n.left < n.right
    BY <2>1 DEF Placed
  <2>4. ~(m.right < n.docLeft)
    BY ONLY <2>2, <2>3, n.left < m.right
  <2>5. ~(n.right < m.docLeft)
    BY ONLY <2>2, <2>3, m.left < n.left
  <2>6. m.uri = n.uri /\ Nested(m, n)
    BY <2>1, <2>4, <2>5 DEF Compatible
  <2>7. ~(m.right < n.left)
    BY ONLY <2>2, n.left < m.right
  <2> QED
    BY <2>6, <2>7 DEF Nested
<1> QED
  BY <1>1, NumbersAlways, PTL

-----------------------------------------------------------------------------
(* Documents as trees, also those that were caught half-written.           *)

(* The nodes of an undamaged document are a tree: in an image, and in the  *)
(* writer, where the document that is being added is a prefix of its tree  *)
(* and the node of a reindex counts as present.                            *)
IsTree(nodes) ==
  \A n \in nodes :
    /\ n.parent # RootLeft => \E m \in nodes : IsParent(m, n)
    /\ \A m \in nodes : Nested(m, n)

TreesInImage(img) == \A u \in Uris \ img.damaged : IsTree(NodesOf(img, u))

WriterTreesOf(u) ==
  /\ ~AddedTo(u) /\ ~Reindexed(u) => IsTree(NodesOf(writer, u))
  /\ AddedTo(u) =>
       \/ NodesOf(writer, u) = Prefix(u, op.doc, op.added)
       \/ NodesOf(writer, u) = {} /\ op.added = Len(op.doc.tree)
  /\ Reindexed(u) => op.node.uri = u /\ IsTree(NodesOf(writer, u) \cup {op.node})

WriterTrees == \A u \in Uris \ writer.damaged : WriterTreesOf(u)

TreesInv ==
  /\ WriterTrees
  /\ TreesInImage(durable)
  /\ TreesInImage(searcher)
  /\ \A s \in Sessions : TreesInImage(snapshot[s])

(* indexNode adds a node after its parent: every prefix of a document is   *)
(* a tree.                                                                 *)
LEMMA PrefixTree ==
  ASSUME NEW u \in Uris, NEW d \in [ver : Nat, base : Nat, tree : Trees],
         NEW k \in Nat, k <= Len(d.tree)
  PROVE  IsTree(Prefix(u, d, k))
<1>1. d.tree \in Trees /\ Len(d.tree) \in Nat /\ d.base \in Nat
  BY TreeNotEmpty
<1>2. ASSUME NEW i \in 1 .. k, NEW j \in 1 .. k
      PROVE  Nested(Node(u, d, j), Node(u, d, i))
  <2>1. i \in 1 .. Len(d.tree) /\ j \in 1 .. Len(d.tree)
    BY <1>1
  <2> QED
    BY <2>1, VersionNested
<1>3. ASSUME NEW i \in 1 .. k, Node(u, d, i).parent # RootLeft
      PROVE  \E m \in Prefix(u, d, k) : IsParent(m, Node(u, d, i))
  <2>1. i # 1 /\ Node(u, d, i).parent = d.base + d.tree[i].parent
    BY <1>3 DEF Node
  <2>2. i \in 2 .. Len(d.tree)
    BY <1>1, <2>1
  <2>3. PICK j \in 1 .. i - 1 : IsParent(d.tree[j], d.tree[i])
    BY <1>1, <2>2, TreesAssumption DEF Numbered
  <2>4. j \in 1 .. k /\ j \in 1 .. Len(d.tree) /\ i \in 1 .. Len(d.tree)
    BY <1>1, <2>2
  <2>5. /\ d.tree[j].left \in Nat /\ d.tree[j].right \in Nat
        /\ d.tree[i].left \in Nat /\ d.tree[i].right \in Nat /\ d.tree[i].parent \in Nat
    BY <1>1, <2>4, TreeNode
  <2>6. /\ Node(u, d, j).left = d.base + d.tree[j].left
        /\ Node(u, d, j).right = d.base + d.tree[j].right
        /\ Node(u, d, i).left = d.base + d.tree[i].left
        /\ Node(u, d, i).right = d.base + d.tree[i].right
    BY DEF Node
  <2>7. /\ d.tree[j].left = d.tree[i].parent
        /\ d.tree[j].left < d.tree[i].left
        /\ d.tree[i].right < d.tree[j].right
    BY <2>3 DEF IsParent
  <2>8. /\ Node(u, d, j).left = Node(u, d, i).parent
        /\ Node(u, d, j).left < Node(u, d, i).left
        /\ Node(u, d, i).right < Node(u, d, j).right
    <3>1. Node(u, d, j).left = Node(u, d, i).parent
      BY <2>1, <2>6, <2>7
    <3>2. Node(u, d, j).left < Node(u, d, i).left
      BY ONLY <1>1, <2>5, <2>6, <2>7
    <3>3. Node(u, d, i).right < Node(u, d, j).right
      BY ONLY <1>1, <2>5, <2>6, <2>7
    <3> QED
      BY <3>1, <3>2, <3>3
  <2>9. IsParent(Node(u, d, j), Node(u, d, i))
    BY <2>8 DEF IsParent
  <2>10. Node(u, d, j) \in Prefix(u, d, k)
    BY <2>4 DEF Prefix
  <2> QED
    BY <2>9, <2>10
<1> QED
  BY <1>2, <1>3 DEF IsTree, Prefix

(* An empty set of nodes is one.                                           *)
LEMMA NoTree == IsTree({})
  BY DEF IsTree

(* What a commit, a refresh or an orderly stop captures is trees.          *)
LEMMA TreesCapture ==
  ASSUME TypeOK, WriterInv, WriterTrees
  PROVE  TreesInImage(Capture)
<1> SUFFICES ASSUME NEW u \in Uris \ Capture.damaged
             PROVE  IsTree(NodesOf(writer, u))
  BY CaptureType DEF TreesInImage, NodesOf
<1>1. u \notin writer.damaged /\ ~Reindexed(u)
  BY CaptureType DEF Reindexed
<1>2. WriterTreesOf(u)
  BY <1>1 DEF WriterTrees
<1>3. CASE AddedTo(u)
  <2>1. /\ op.added \in Nat /\ op.added <= Len(op.doc.tree)
        /\ op.doc \in [ver : Nat, base : Nat, tree : Trees]
    BY <1>3, OpType DEF AddedTo, WriterInv, Counters
  <2> QED
    BY <1>2, <1>3, <2>1, PrefixTree, NoTree DEF WriterTreesOf
<1>4. CASE ~AddedTo(u)
  BY <1>1, <1>2, <1>4 DEF WriterTreesOf
<1> QED
  BY <1>3, <1>4

(* A writer that holds no half-done operation.                             *)
LEMMA IdleTrees ==
  ASSUME NEW img, TreesInImage(img), writer' = img, op' = NoOp
  PROVE  WriterTrees'
<1>1. ~Adding' /\ ~Reindexing'
  BY DEF Adding, Reindexing, NoOp
<1>2. (\A u \in Uris \ writer.damaged : IsTree(NodesOf(writer, u)))'
  BY DEF TreesInImage, NodesOf
<1> QED
  BY <1>1, <1>2 DEF WriterTrees, WriterTreesOf, AddedTo, Reindexed

(* A removal empties one document, and leaves the others alone.            *)
LEMMA TreesWithout ==
  ASSUME NEW img \in Image, NEW u \in Uris
  PROVE  /\ NodesOf(Without(img, u), u) = {}
         /\ \A v \in Uris : v # u => NodesOf(Without(img, u), v) = NodesOf(img, v)
         /\ \A v \in Uris : v # u => (v \in Without(img, u).damaged <=> v \in img.damaged)
<1>1. Without(img, u).damaged = img.damaged \ {u}
  BY WithoutType
<1>2. NodesOf(Without(img, u), u) = {}
  BY WithoutNodes
<1>3. \A v \in Uris : v # u => NodesOf(Without(img, u), v) = NodesOf(img, v)
  BY WithoutNodes
<1> QED
  BY <1>1, <1>2, <1>3

(* The start of an addition.                                               *)
LEMMA AddBeginTrees ==
  ASSUME TypeOK, WriterTrees,
         NEW s \in Sessions, NEW u \in Uris, NEW t \in Trees, AddBegin(s, u, t)
  PROVE  WriterTrees'
<1>1. /\ ~Adding /\ ~Reindexing
      /\ op'.kind = "add" /\ op'.uri = u /\ op'.added = 0
      /\ writer' = Without(writer, u)
  BY OpType DEF AddBegin
<1>2. Adding' /\ ~Reindexing'
  BY <1>1 DEF Adding, Reindexing
<1> SUFFICES ASSUME NEW v \in Uris \ writer'.damaged
             PROVE  WriterTreesOf(v)'
  BY DEF WriterTrees
<1>3. CASE v = u
  <2>1. NodesOf(writer', v) = {} /\ Prefix(v, op'.doc, 0) = {}
    BY <1>1, <1>3, WriterType, TreesWithout, PrefixStep
  <2>2. NodesOf(writer', v) = Prefix(v, op'.doc, op'.added)
    BY <1>1, <2>1
  <2> QED
    BY <1>1, <1>2, <1>3, <2>2 DEF WriterTreesOf, AddedTo, Reindexed
<1>4. CASE v # u
  <2>1. v \notin writer.damaged /\ NodesOf(writer', v) = NodesOf(writer, v)
    BY <1>1, <1>4, WriterType, TreesWithout
  <2>2. IsTree(NodesOf(writer, v))
    BY <1>1, <2>1 DEF WriterTrees, WriterTreesOf, AddedTo, Reindexed
  <2>3. IsTree(NodesOf(writer', v))
    BY <2>1, <2>2
  <2> QED
    BY <1>1, <1>2, <1>4, <2>3 DEF WriterTreesOf, AddedTo, Reindexed
<1> QED
  BY <1>3, <1>4

(* One more node: the prefix grows.                                        *)
LEMMA AddNodeTrees ==
  ASSUME TypeOK, WriterTrees, NEW s \in Sessions, AddNode(s)
  PROVE  WriterTrees'
<1> DEFINE u == op.uri
           d == op.doc
           k == op.added
<1>1. /\ Adding /\ ~Reindexing /\ u \in Uris /\ k \in Nat
      /\ k < Len(d.tree) /\ Len(d.tree) \in Nat
  BY OpType, TreeNotEmpty DEF AddNode
<1>2. op'.kind = "add" /\ op'.uri = u /\ op'.doc = d /\ op'.added = k + 1
  BY OpType DEF AddNode, AddOp
<1>3. Adding' /\ ~Reindexing'
  BY <1>2 DEF Adding, Reindexing
<1>4. /\ writer'.nodes = writer.nodes \cup {Node(u, d, k + 1)}
      /\ writer'.damaged = writer.damaged
      /\ Node(u, d, k + 1).uri = u
  BY AddNodeWriter DEF Node
<1>5. \A v \in Uris \ writer.damaged : AddedTo(v) => v = u
  BY DEF AddedTo
<1> SUFFICES ASSUME NEW v \in Uris \ writer.damaged
             PROVE  WriterTreesOf(v)'
  BY <1>4 DEF WriterTrees
<1>6. CASE v = u
  <2>1. NodesOf(writer, u) = Prefix(u, d, k)
    <3>1. WriterTreesOf(v) /\ AddedTo(v)
      BY <1>1, <1>6 DEF WriterTrees, AddedTo
    <3>2. k # Len(d.tree)
      BY <1>1
    <3> QED
      BY <1>6, <3>1, <3>2 DEF WriterTreesOf
  <2> HIDE DEF u, d, k
  <2>2. NodesOf(writer', u) = NodesOf(writer, u) \cup {Node(u, d, k + 1)}
    BY <1>4 DEF NodesOf
  <2>3. NodesOf(writer', u) = Prefix(u, d, k + 1)
    BY <1>1, <2>1, <2>2, PrefixStep
  <2> QED
    BY <1>2, <1>3, <1>6, <2>3 DEF WriterTreesOf, AddedTo, Reindexed
<1>7. CASE v # u
  <2>1. IsTree(NodesOf(writer, v))
    BY <1>1, <1>7 DEF WriterTrees, WriterTreesOf, AddedTo, Reindexed
  <2> HIDE DEF u, d, k
  <2>2. NodesOf(writer', v) = NodesOf(writer, v)
    BY <1>4, <1>7 DEF NodesOf
  <2>3. IsTree(NodesOf(writer', v))
    BY <2>1, <2>2
  <2> QED
    BY <1>2, <1>3, <1>7, <2>3 DEF WriterTreesOf, AddedTo, Reindexed
<1> QED
  BY <1>6, <1>7

(* A removal: in the middle of an addition or of a reindex of the document *)
(* it is damage, before the first node or after the last it is not.        *)
LEMMA RemoveDocumentTrees ==
  ASSUME TypeOK, WriterInv, WriterTrees,
         NEW s \in Sessions, NEW u \in Uris, RemoveDocument(s, u)
  PROVE  WriterTrees'
<1> DEFINE new == Without(writer, u)
<1>1. op' = op
  BY DEF RemoveDocument
<1>2. /\ NodesOf(new, u) = {}
      /\ \A v \in Uris : v # u => /\ NodesOf(new, v) = NodesOf(writer, v)
                                  /\ v \in new.damaged <=> v \in writer.damaged
  BY WriterType, TreesWithout
<1> HIDE DEF new
<1>3. /\ \A v : NodesOf(writer', v) = NodesOf(new, v)
      /\ writer'.damaged = IF RemovalRaces(u) THEN new.damaged \cup {u} ELSE new.damaged
  BY RemovalWriter DEF NodesOf, new
<1>4. \A v \in Uris : AddedTo(v)' = AddedTo(v) /\ Reindexed(v)' = Reindexed(v)
  BY <1>1 DEF AddedTo, Reindexed, Adding, Reindexing
<1> SUFFICES ASSUME NEW v \in Uris \ writer'.damaged
             PROVE  WriterTreesOf(v)'
  BY DEF WriterTrees
<1>5. CASE v = u
  <2>1. NodesOf(writer', v) = {} /\ IsTree(NodesOf(writer', v))
    BY <1>2, <1>3, <1>5, NoTree
  <2>2. ~RemovalRaces(u)
    BY <1>3, <1>5
  <2>3. ~Reindexed(v)
    BY <1>5, <2>2 DEF RemovalRaces, ComesBack, Reindexed
  <2>4. CASE AddedTo(v)
    <3>1. /\ op.added \in Nat /\ Len(op.doc.tree) \in Nat /\ op.added <= Len(op.doc.tree)
      BY <2>4, OpType, TreeNotEmpty DEF AddedTo, WriterInv, Counters
    <3>2. op.added = 0 \/ op.added = Len(op.doc.tree)
      BY <1>5, <2>2, <2>4, <3>1 DEF RemovalRaces, AddedTo
    <3>3. Prefix(v, op.doc, 0) = {}
      BY PrefixStep
    <3> QED
      BY <1>1, <1>4, <2>1, <2>3, <2>4, <3>2, <3>3 DEF WriterTreesOf
  <2>5. CASE ~AddedTo(v)
    BY <1>4, <2>1, <2>3, <2>5 DEF WriterTreesOf
  <2> QED
    BY <2>4, <2>5
<1>6. CASE v # u
  <2>1. v \notin writer.damaged
    BY <1>2, <1>3, <1>6
  <2>2. NodesOf(writer', v) = NodesOf(writer, v)
    BY <1>2, <1>3, <1>6
  <2>3. WriterTreesOf(v)
    BY <2>1 DEF WriterTrees
  <2>4. IsTree(NodesOf(writer, v)) => IsTree(NodesOf(writer', v))
    BY <2>2
  <2>5. IsTree(NodesOf(writer, v) \cup {op.node})
          => IsTree(NodesOf(writer', v) \cup {op'.node})
    BY <1>1, <2>2
  <2> QED
    BY <1>1, <1>4, <2>2, <2>3, <2>4, <2>5 DEF WriterTreesOf
<1> QED
  BY <1>5, <1>6

(* The first write of a reindex: an undamaged document loses at most the   *)
(* node that is about to be written again.                                 *)
LEMMA ReindexDeleteTrees ==
  ASSUME TypeOK, WriterTrees, NEW s \in Sessions,
         NEW n \in snapshot[s].nodes, NEW b \in BaseUris(snapshot[s], n),
         ReindexDelete(s, n, b)
  PROVE  WriterTrees'
<1> DEFINE new == [n EXCEPT !.uri = b]
<1>1. /\ ~Adding /\ ~Reindexing
      /\ op'.kind = "reindex" /\ op'.uri = b /\ op'.node = new
  BY OpType DEF ReindexDelete
<1>2. ~Adding' /\ Reindexing'
  BY <1>1 DEF Adding, Reindexing
<1>3. b \in Uris /\ new.uri = b
  BY ReindexNodeType
<1>4. /\ writer'.nodes = writer.nodes \ Hit(n)
      /\ writer'.damaged = writer.damaged \cup {m.uri : m \in Hit(n) \ {new}}
                             \cup (IF new \in Hit(n) THEN {} ELSE {b})
  BY ReindexWriter
<1> HIDE DEF new
<1> SUFFICES ASSUME NEW v \in Uris \ writer'.damaged
             PROVE  WriterTreesOf(v)'
  BY DEF WriterTrees
<1>5. /\ v \notin writer.damaged
      /\ \A m \in Hit(n) : m.uri = v => m = new
      /\ v = b => new \in Hit(n)
  BY <1>4
<1>6. IsTree(NodesOf(writer, v))
  BY <1>1, <1>5 DEF WriterTrees, WriterTreesOf, AddedTo, Reindexed
<1>7. CASE v = b
  <2>1. NodesOf(writer', v) \cup {new} = NodesOf(writer, v)
    BY <1>3, <1>4, <1>5, <1>7 DEF NodesOf, Hit
  <2>2. IsTree(NodesOf(writer', v) \cup {op'.node})
    BY <1>1, <1>6, <2>1
  <2> QED
    BY <1>1, <1>2, <1>3, <1>7, <2>2 DEF WriterTreesOf, AddedTo, Reindexed
<1>8. CASE v # b
  <2>1. NodesOf(writer', v) = NodesOf(writer, v)
    BY <1>3, <1>4, <1>5, <1>8 DEF NodesOf
  <2>2. IsTree(NodesOf(writer', v))
    BY <1>6, <2>1
  <2> QED
    BY <1>1, <1>2, <1>8, <2>2 DEF WriterTreesOf, AddedTo, Reindexed
<1> QED
  BY <1>7, <1>8

(* The second write of a reindex puts the node back.                       *)
LEMMA ReindexAddTrees ==
  ASSUME TypeOK, WriterInv, WriterTrees, NEW s \in Sessions, ReindexAdd(s)
  PROVE  WriterTrees'
<1>1. Reindexing /\ ~Adding /\ op.node.uri = op.uri
  BY OpType DEF ReindexAdd, WriterInv, OpNode
<1>2. ~Adding' /\ ~Reindexing'
  BY DEF ReindexAdd, Adding, Reindexing, NoOp
<1>3. writer'.nodes = writer.nodes \cup {op.node} /\ writer'.damaged = writer.damaged
  BY WriterType DEF ReindexAdd, Image
<1> SUFFICES ASSUME NEW v \in Uris \ writer.damaged
             PROVE  IsTree(NodesOf(writer', v))
  BY <1>2, <1>3 DEF WriterTrees, WriterTreesOf, AddedTo, Reindexed
<1>4. WriterTreesOf(v)
  BY DEF WriterTrees
<1>5. CASE v = op.uri
  <2>1. NodesOf(writer', v) = NodesOf(writer, v) \cup {op.node}
    BY <1>1, <1>3, <1>5 DEF NodesOf
  <2> QED
    BY <1>1, <1>4, <1>5, <2>1 DEF WriterTreesOf, Reindexed
<1>6. CASE v # op.uri
  <2>1. NodesOf(writer', v) = NodesOf(writer, v)
    BY <1>1, <1>3, <1>6 DEF NodesOf
  <2> QED
    BY <1>1, <1>4, <1>6, <2>1 DEF WriterTreesOf, AddedTo, Reindexed
<1> QED
  BY <1>5, <1>6

(* Every step of the node store preserves the trees.                       *)
LEMMA TreesStep ==
  ASSUME IInv, TreesInv, [Next]_vars
  PROVE  TreesInv'
<1>1. TypeOK /\ WriterInv /\ WriterTrees
  BY DEF IInv, TreesInv
<1>2. TreesInImage(Capture)
  BY <1>1, TreesCapture
<1>3. ASSUME WriterTrees', UNCHANGED <<durable, searcher, snapshot>>
      PROVE  TreesInv'
  BY <1>3 DEF TreesInv
<1>4. ASSUME UNCHANGED <<writer, op>>
      PROVE  WriterTrees'
  BY <1>1, <1>4
     DEF WriterTrees, WriterTreesOf, AddedTo, Reindexed, Adding, Reindexing
<1>5. ASSUME NEW img, TreesInImage(img), Load(img),
             \A s \in Sessions : TreesInImage(snapshot'[s])
      PROVE  TreesInv'
  <2>1. WriterTrees'
    BY <1>5, IdleTrees DEF Load
  <2> QED
    BY <1>5, <2>1 DEF Load, TreesInv
<1>6. CASE Open
  <2>1. PICK img \in Image :
          Load(img) /\ img.nodes = durable.nodes /\ img.damaged = durable.damaged
    BY <1>1, <1>6, OpenLoads
  <2>2. TreesInImage(img)
    BY <2>1 DEF TreesInv, TreesInImage, NodesOf
  <2>3. \A s \in Sessions : TreesInImage(snapshot'[s])
    BY <1>6 DEF Open, TreesInv
  <2> QED
    BY <1>5, <2>1, <2>2, <2>3
<1>7. CASE Close
  <2>1. \A s \in Sessions : TreesInImage(snapshot'[s])
    BY <1>7 DEF Close, TreesInv
  <2> QED
    BY <1>2, <1>5, <1>7, <2>1 DEF Close
<1>8. CASE Crash
  <2>1. TreesInImage(durable)
    BY DEF TreesInv
  <2>2. \A s \in Sessions : TreesInImage(snapshot'[s])
    BY <1>8, <2>1 DEF Crash
  <2> QED
    BY <1>5, <1>8, <2>1, <2>2 DEF Crash
<1>9. CASE Refresh
  BY <1>2, <1>4, <1>9 DEF Refresh, TreesInv
<1>10. ASSUME NEW s \in Sessions, SessionNext(s)
       PROVE  TreesInv'
  <2>1. ASSUME NEW u \in Uris, NEW t \in Trees, AddBegin(s, u, t)
        PROVE  TreesInv'
    BY <1>1, <1>3, <2>1, AddBeginTrees DEF AddBegin
  <2>2. CASE AddNode(s)
    BY <1>1, <1>3, <2>2, AddNodeTrees DEF AddNode
  <2>3. CASE AddEnd(s)
    <3>1. writer'.nodes = writer.nodes /\ writer'.damaged = writer.damaged
      BY <1>1, <2>3, AddEndWriter
    <3>2. Capture.nodes = writer.nodes /\ Capture.damaged = writer.damaged
      BY <1>1, <2>3, CaptureType, OpType DEF AddEnd
    <3>3. TreesInImage(writer')
      BY <1>2, <3>1, <3>2 DEF TreesInImage, NodesOf
    <3>4. WriterTrees'
      BY <2>3, <3>3, IdleTrees DEF AddEnd
    <3> QED
      BY <1>3, <2>3, <3>4 DEF AddEnd
  <2>4. CASE AddFail(s)
    <3>1. /\ op.uri \in Uris /\ Adding /\ ~Reindexing
      BY <1>1, <2>4, OpType DEF AddFail
    <3>2. writer' = Without(writer, op.uri) /\ op' = NoOp
      BY <2>4 DEF AddFail
    <3>3. TreesInImage(Without(writer, op.uri))
      <4> SUFFICES ASSUME NEW v \in Uris \ Without(writer, op.uri).damaged
                   PROVE  IsTree(NodesOf(Without(writer, op.uri), v))
        BY DEF TreesInImage
      <4>1. CASE v = op.uri
        BY <1>1, <3>1, <4>1, WriterType, TreesWithout, NoTree
      <4>2. CASE v # op.uri
        <5>1. v \notin writer.damaged
              /\ NodesOf(Without(writer, op.uri), v) = NodesOf(writer, v)
          BY <1>1, <3>1, <4>2, WriterType, TreesWithout
        <5>2. IsTree(NodesOf(writer, v))
          BY <1>1, <3>1, <4>2, <5>1
             DEF WriterTrees, WriterTreesOf, AddedTo, Reindexed
        <5> QED
          BY <5>1, <5>2
      <4> QED
        BY <4>1, <4>2
    <3>4. WriterTrees'
      BY <3>2, <3>3, IdleTrees
    <3> QED
      BY <1>3, <2>4, <3>4 DEF AddFail
  <2>5. CASE AddError(s)
    BY <1>2, <1>3, <2>5, IdleTrees DEF AddError
  <2>6. ASSUME NEW u \in Uris, RemoveDocument(s, u)
        PROVE  TreesInv'
    BY <1>1, <1>3, <2>6, RemoveDocumentTrees DEF RemoveDocument
  <2>7. CASE ReindexBegin(s)
    <3>1. PICK n \in snapshot[s].nodes :
             \E b \in BaseUris(snapshot[s], n) : ReindexDelete(s, n, b)
      BY <2>7 DEF ReindexBegin
    <3>2. PICK b \in BaseUris(snapshot[s], n) : ReindexDelete(s, n, b)
      BY <3>1
    <3> QED
      BY <1>1, <1>3, <3>2, ReindexDeleteTrees DEF ReindexDelete
  <2>8. CASE ReindexAdd(s)
    BY <1>1, <1>3, <2>8, ReindexAddTrees DEF ReindexAdd
  <2>9. ASSUME NEW w \in BOOLEAN, Commit(s, w)
        PROVE  TreesInv'
    BY <1>2, <1>4, <2>9 DEF Commit, TreesInv
  <2>10. CASE SwitchSearcher(s)
    BY <1>1, <1>2, <1>4, <2>10 DEF SwitchSearcher, TreesInv, TypeOK
  <2>11. CASE AquireSession(s)
    BY <1>1, <1>4, <2>11 DEF AquireSession, TreesInv, TypeOK
  <2> QED
    BY <1>10, <2>1, <2>2, <2>3, <2>4, <2>5, <2>6, <2>7, <2>8, <2>9, <2>10,
       <2>11 DEF SessionNext
<1>11. CASE UNCHANGED vars
  BY <1>3, <1>4, <1>11 DEF vars
<1> QED
  BY <1>6, <1>7, <1>8, <1>9, <1>10, <1>11 DEF Next

(* The first state has no nodes.                                           *)
LEMMA TreesInit == Init => TreesInv
<1> SUFFICES ASSUME Init PROVE TreesInv
  OBVIOUS
<1>1. /\ writer.nodes = {} /\ durable.nodes = {} /\ searcher.nodes = {}
      /\ \A s \in Sessions : snapshot[s].nodes = {}
      /\ ~Adding /\ ~Reindexing
  BY DEF Init, Adding, Reindexing, NoOp
<1> QED
  BY <1>1 DEF TreesInv, TreesInImage, IsTree, NodesOf, WriterTrees,
              WriterTreesOf, AddedTo, Reindexed

(* The nodes of a document are a tree, in what a commit or refresh caught  *)
(* half-written too, in what a restart finds of it, and after an Error     *)
(* left it so: the parent axis never leads out of it.                      *)
THEOREM DocumentsStayTrees == Spec => []DocumentsAreTrees
<1>1. IInv /\ TreesInv => DocumentsAreTrees
  <2> SUFFICES ASSUME IInv, TreesInv, NEW img \in Images, NEW n \in img.nodes,
                      n.uri \notin img.damaged
               PROVE  /\ n.parent # RootLeft =>
                           \E m \in NodesOf(img, n.uri) : IsParent(m, n)
                      /\ \A m \in NodesOf(img, n.uri) : Nested(m, n)
    BY DEF DocumentsAreTrees
  <2>1. TreesInImage(Capture)
    BY TreesCapture DEF IInv, TreesInv
  <2>2. TreesInImage(img)
    BY <2>1 DEF Images, TreesInv
  <2>3. n.uri \in Uris
    BY IntactImages DEF Image, NodeRecord
  <2>4. n \in NodesOf(img, n.uri) /\ IsTree(NodesOf(img, n.uri))
    BY <2>2, <2>3 DEF TreesInImage, NodesOf
  <2> QED
    BY <2>4 DEF IsTree
<1> QED
  BY <1>1, Invariant, TreesInit, TreesStep, PTL DEF Spec

-----------------------------------------------------------------------------
(* Whole and partial documents.                                            *)

(* indexNode adds a node per step: the nodes added so far are as many as   *)
(* the steps, since their left numbers differ.                             *)
LEMMA PrefixSize ==
  ASSUME NEW u \in Uris, NEW d \in [ver : Nat, base : Nat, tree : Trees],
         NEW k \in Nat, k <= Len(d.tree)
  PROVE  Cardinality(Prefix(u, d, k)) = k
<1>1. d.tree \in Trees /\ d.base \in Nat /\ Len(d.tree) \in Nat
  BY TreeNotEmpty
<1>2. 1 .. k \subseteq 1 .. Len(d.tree)
  BY <1>1
<1> DEFINE f == [i \in 1 .. k |-> Node(u, d, i)]
<1>3. f \in [1 .. k -> Prefix(u, d, k)]
  BY DEF Prefix
<1>4. \A n \in Prefix(u, d, k) : \E i \in 1 .. k : f[i] = n
  BY DEF Prefix
<1>5. ASSUME NEW i \in 1 .. k, NEW j \in 1 .. k, f[i] = f[j]
      PROVE  i = j
  <2>1. d.base + d.tree[i].left = d.base + d.tree[j].left
    BY <1>5 DEF Node
  <2>2. d.tree[i].left \in Nat /\ d.tree[j].left \in Nat
    BY <1>1, <1>2, TreeNode
  <2>3. \A a, x, y \in Nat : a + x = a + y => x = y
    OBVIOUS
  <2>4. d.tree[i].left = d.tree[j].left
    BY ONLY <1>1, <2>1, <2>2, <2>3
  <2> QED
    BY <1>1, <1>2, <2>4, LeftInTree
<1> HIDE DEF f
<1>6. f \in Bijection(1 .. k, Prefix(u, d, k))
  BY <1>3, <1>4, <1>5 DEF Bijection, Injection, Surjection, IsInjective
<1>7. ExistsBijection(1 .. k, Prefix(u, d, k))
  BY <1>6 DEF ExistsBijection
<1> QED
  BY <1>7, FS_CountingElements

(* The first node of a document: its parent is the root of the index, and  *)
(* its interval has two numbers for each node.                             *)
LEMMA RootNode ==
  ASSUME NEW u \in Uris, NEW d \in [ver : Nat, base : Nat, tree : Trees]
  PROVE  /\ 1 \in 1 .. Len(d.tree)
         /\ Node(u, d, 1).parent = RootLeft
         /\ Node(u, d, 1).left = d.base
         /\ Node(u, d, 1).right - Node(u, d, 1).left + 1 = 2 * Len(d.tree)
         /\ \A i \in 1 .. Len(d.tree) : Node(u, d, i).docLeft = d.base
<1>1. d.tree \in Trees /\ d.base \in Nat /\ Len(d.tree) \in Nat /\ Len(d.tree) > 0
  BY TreeNotEmpty
<1>2. d.tree[1].left = 0 /\ d.tree[1].right = 2 * Len(d.tree) - 1
  BY <1>1, TreesAssumption DEF Numbered
<1>3. 1 \in 1 .. Len(d.tree)
  BY <1>1
<1>4. /\ Node(u, d, 1).parent = RootLeft
      /\ Node(u, d, 1).left = d.base + 0
      /\ Node(u, d, 1).right = d.base + (2 * Len(d.tree) - 1)
      /\ \A i \in 1 .. Len(d.tree) : Node(u, d, i).docLeft = d.base + 0
  BY <1>2 DEF Node
<1> QED
  BY <1>1, <1>3, <1>4

(* A complete document is whole.                                           *)
LEMMA CompleteIsWhole ==
  ASSUME NEW u \in Uris, NEW d \in [ver : Nat, base : Nat, tree : Trees]
  PROVE  /\ Whole(DocNodes(u, d))
         /\ \A n \in DocNodes(u, d) : n.ver = d.ver
         /\ DocNodes(u, d) # {}
<1>1. Len(d.tree) \in Nat
  BY TreeNotEmpty
<1>2. Cardinality(DocNodes(u, d)) = Len(d.tree)
  BY <1>1, PrefixSize DEF DocNodes
<1>3. \A n \in DocNodes(u, d) : n.ver = d.ver
  BY DEF DocNodes, Prefix, Node
<1>4. Node(u, d, 1) \in DocNodes(u, d)
  BY RootNode DEF DocNodes, Prefix
<1> QED
  BY <1>2, <1>3, <1>4, RootNode DEF Whole

(* Half a document is not: its only node below the root of the index is    *)
(* the document element, whose interval promises more nodes.               *)
LEMMA PrefixIsPartial ==
  ASSUME NEW u \in Uris, NEW d \in [ver : Nat, base : Nat, tree : Trees],
         d.base >= FirstLeft, NEW k \in Nat, k < Len(d.tree)
  PROVE  ~Whole(Prefix(u, d, k))
<1> SUFFICES ASSUME NEW n \in Prefix(u, d, k), n.parent = RootLeft,
                    n.right - n.left + 1 = 2 * Cardinality(Prefix(u, d, k))
             PROVE  FALSE
  BY DEF Whole
<1>1. d.tree \in Trees /\ d.base \in Nat /\ Len(d.tree) \in Nat
  BY TreeNotEmpty
<1>2. PICK i \in 1 .. k : n = Node(u, d, i)
  BY DEF Prefix
<1>3. i \in 1 .. Len(d.tree)
  BY <1>1
<1>4. i = 1
  <2> SUFFICES ASSUME i # 1 PROVE FALSE
    OBVIOUS
  <2>1. n.parent = d.base + d.tree[i].parent
    BY <1>2 DEF Node
  <2>2. d.tree[i].parent \in Nat
    BY <1>1, <1>3, TreeNode
  <2> QED
    BY <1>1, <2>1, <2>2 DEF RootLeft, FirstLeft
<1>5. n.right - n.left + 1 = 2 * Len(d.tree)
  BY <1>2, <1>4, RootNode
<1>6. Cardinality(Prefix(u, d, k)) = k
  BY <1>1, PrefixSize
<1> QED
  BY <1>1, <1>5, <1>6

(* No node at all is no whole document.                                    *)
LEMMA NothingIsNotWhole == ~Whole({})
  BY DEF Whole

(* The number of the call that added a document, read off its nodes.       *)
LEMMA VersionOfNodes ==
  ASSUME NEW u \in Uris, NEW d \in Version, d.tree = << >> => d = NoDoc,
         NEW N, N = DocNodes(u, d)
  PROVE  /\ N # {} => Whole(N)
         /\ (IF Whole(N) THEN (CHOOSE n \in N : TRUE).ver ELSE 0) = d.ver
<1>1. CASE d.tree = << >>
  <2>1. N = {} /\ d.ver = 0
    BY <1>1, NoDocFacts DEF NoDoc
  <2> QED
    BY <2>1, NothingIsNotWhole
<1>2. CASE d.tree # << >>
  <2>1. d \in [ver : Nat, base : Nat, tree : Trees]
    BY <1>2, VersionSize
  <2>2. Whole(N) /\ N # {} /\ \A n \in N : n.ver = d.ver
    BY <2>1, CompleteIsWhole
  <2>3. (CHOOSE n \in N : TRUE) \in N
    BY <2>2
  <2> QED
    BY <2>2, <2>3
<1> QED
  BY <1>1, <1>2

-----------------------------------------------------------------------------
(* The store under callers that take turns (SerialNodeStore).              *)

(* The documents of the history are numbered by the calls that added them. *)
VersionsBy(img, c) ==
  \A u \in Uris : /\ img.docs[u].ver <= c
                  /\ img.docs[u].tree = << >> => img.docs[u] = NoDoc

(* What the discipline adds to the invariant of NodeStore: no document is  *)
(* torn, damaged, ahead of the counter or shared, an index that is not     *)
(* open holds what was committed, its counter is past the numbers of the   *)
(* root nodes, and a document that is being added is newer than all that   *)
(* is stored.                                                              *)
Unharmed(img) ==
  img.torn = {} /\ img.damaged = {} /\ img.ahead = {} /\ img.shared = {}

SerialInv ==
  /\ Unharmed(writer) /\ Unharmed(durable)
  /\ ~up => op = NoOp /\ writer = durable
  /\ up => durable.counter >= FirstLeft /\ writer.counter >= FirstLeft
  /\ durable.counter # 0 => durable.counter >= FirstLeft
  /\ VersionsBy(writer, calls) /\ VersionsBy(durable, calls)
  /\ Adding => op.doc.ver <= calls
  /\ Adding /\ op.added < Len(op.doc.tree) =>
       \A u \in Uris :
         writer.docs[u].ver < op.doc.ver /\ durable.docs[u].ver < op.doc.ver

(* In an unharmed image every document is healthy.                         *)
LEMMA UnharmedHealthy ==
  ASSUME NEW img, Unharmed(img)
  PROVE  Healthy(img) = Uris
  BY DEF Unharmed, Healthy

(* Calls only count up.                                                    *)
LEMMA VersionsLater ==
  ASSUME NEW img \in Image, NEW c \in Nat, VersionsBy(img, c)
  PROVE  VersionsBy(img, c + 1) /\ \A u \in Uris : img.docs[u].ver < c + 1
<1>1. \A u \in Uris : img.docs[u].ver \in Nat
  BY DEF Image, Version
<1> QED
  BY <1>1 DEF VersionsBy

(* A removal forgets a version and harms nothing.                          *)
LEMMA VersionsWithout ==
  ASSUME NEW img \in Image, NEW u \in Uris, NEW c \in Nat,
         VersionsBy(img, c), Unharmed(img)
  PROVE  VersionsBy(Without(img, u), c) /\ Unharmed(Without(img, u))
<1>1. NoDoc.ver = 0 /\ 0 <= c
  BY DEF NoDoc
<1>2. VersionsBy(Without(img, u), c)
  <2> SUFFICES ASSUME NEW v \in Uris
               PROVE  /\ Without(img, u).docs[v].ver <= c
                      /\ Without(img, u).docs[v].tree = << >>
                           => Without(img, u).docs[v] = NoDoc
    BY DEF VersionsBy
  <2>1. CASE v = u
    BY <1>1, <2>1, WithoutNodes
  <2>2. CASE v # u
    BY <2>2, WithoutNodes DEF VersionsBy
  <2> QED
    BY <2>1, <2>2
<1>3. Unharmed(Without(img, u))
  <2>1. /\ Without(img, u).torn = img.torn \ {u}
        /\ Without(img, u).damaged = img.damaged \ {u}
        /\ Without(img, u).ahead = img.ahead \ {u}
        /\ Without(img, u).shared = img.shared \ {u}
    BY WithoutType
  <2> QED
    BY <2>1 DEF Unharmed
<1> QED
  BY <1>2, <1>3

(* A node that is reindexed while it is current: the write that deletes it *)
(* finds it and nothing else, under the base URI that was looked up.       *)
LEMMA CurrentReindex ==
  ASSUME IInv, NumbersInv, Unharmed(writer), op = NoOp, NEW s \in Sessions,
         NEW n \in snapshot[s].nodes, NEW b \in BaseUris(snapshot[s], n),
         snapshot[s].nodes = writer.nodes
  PROVE  [n EXCEPT !.uri = b] = n /\ Hit(n) = {n}
<1>1. /\ TypeOK /\ ~Adding /\ ~Reindexing
      /\ n \in writer.nodes /\ n \in NodeRecord
  BY OpType, ReindexNodeType DEF IInv
<1>2. /\ Capture \in Images /\ Capture.nodes = writer.nodes
      /\ Healthy(Capture) = Uris /\ Capture.shared = {}
  BY <1>1, CaptureType DEF Images, Unharmed, Healthy
<1>3. \A p, q \in writer.nodes : p.left = q.left => p = q
  BY <1>2, LeftKey DEF LeftIsKey
<1>4. Hit(n) = {n}
  BY <1>1, <1>3 DEF Hit
<1>5. PICK e \in writer.nodes : e.left = n.docLeft /\ e.parent = RootLeft /\ b = e.uri
  BY DEF BaseUris
<1> DEFINE u == n.uri
           d == Capture.docs[u]
<1>6. u \in Uris
  BY <1>1 DEF NodeRecord
<1>7. Intact(Capture) /\ Capture \in Image
  BY <1>2, IntactImages
<1>8. DocNodes(u, d) = NodesOf(Capture, u) /\ d \in Version
  BY <1>2, <1>6, <1>7 DEF Intact, Image
<1>9. /\ d \in [ver : Nat, base : Nat, tree : Trees]
      /\ \E i \in 1 .. Len(d.tree) : n = Node(u, d, i)
  <2>1. n \in DocNodes(u, d)
    BY <1>1, <1>2, <1>8 DEF NodesOf
  <2>2. PICK i \in 1 .. Len(d.tree) : n = Node(u, d, i)
    BY <2>1 DEF DocNodes, Prefix
  <2>3. d.tree # << >>
    <3>1. d.tree = << >> => Len(d.tree) = 0
      OBVIOUS
    <3> QED
      BY <2>2, <3>1
  <2> QED
    BY <1>8, <2>2, <2>3, VersionSize
<1> HIDE DEF u, d
<1>10. n.docLeft = d.base /\ Node(u, d, 1).left = d.base /\ Node(u, d, 1) \in DocNodes(u, d)
  BY <1>6, <1>9, RootNode DEF DocNodes, Prefix
<1>11. Node(u, d, 1) \in writer.nodes /\ Node(u, d, 1).uri = u
  BY <1>2, <1>8, <1>10 DEF NodesOf
<1>12. e = Node(u, d, 1)
  BY <1>3, <1>5, <1>10, <1>11
<1>13. b = n.uri
  BY <1>5, <1>11, <1>12 DEF u
<1> QED
  BY <1>1, <1>4, <1>13 DEF NodeRecord

(* A commit between calls captures an unharmed writer.                     *)
LEMMA IdleCapture ==
  ASSUME TypeOK, op = NoOp
  PROVE  Capture = writer
<1>1. ~Adding /\ ~Reindexing
  BY OpType
<1> QED
  BY <1>1 DEF Capture, TypeOK, Image

(* The steps that write, one lemma each.                                   *)

(* The start of an addition, which is the newest call.                     *)
LEMMA AddBeginSerial ==
  ASSUME TypeOK, SerialInv,
         NEW s \in Sessions, NEW u \in Uris, NEW t \in Trees, AddBegin(s, u, t)
  PROVE  SerialInv'
<1>1. /\ up /\ up' = up /\ calls' = calls + 1 /\ durable' = durable
      /\ writer' = Without(writer, u)
      /\ op'.kind = "add" /\ op'.added = 0 /\ op'.doc.ver = calls + 1
  BY DEF AddBegin, Call
<1>2. writer \in Image /\ durable \in Image /\ calls \in Nat /\ writer' \in Image
  BY <1>1, WithoutType DEF TypeOK
<1>3. writer'.counter = writer.counter
  BY <1>1, <1>2, WithoutType
<1>4. VersionsBy(writer', calls) /\ Unharmed(writer')
  BY <1>1, <1>2, VersionsWithout DEF SerialInv
<1>5. /\ VersionsBy(writer', calls + 1) /\ VersionsBy(durable, calls + 1)
      /\ \A v \in Uris : writer'.docs[v].ver < calls + 1 /\ durable.docs[v].ver < calls + 1
  BY <1>2, <1>4, VersionsLater DEF SerialInv
<1>6. Adding'
  BY <1>1 DEF Adding
<1> QED
  BY <1>1, <1>2, <1>3, <1>4, <1>5, <1>6 DEF SerialInv, Unharmed, VersionsBy

(* One more node; with the last one the new version is in the writer.      *)
LEMMA AddNodeSerial ==
  ASSUME TypeOK, SerialInv, NEW s \in Sessions, AddNode(s)
  PROVE  SerialInv'
<1> DEFINE u == op.uri
           d == op.doc
           k == op.added
<1>1. /\ Adding /\ u \in Uris /\ k \in Nat /\ up
      /\ d \in [ver : Nat, base : Nat, tree : Trees]
      /\ k < Len(d.tree) /\ Len(d.tree) \in Nat /\ Len(d.tree) > 0
  BY OpType, TreeNotEmpty DEF AddNode, SerialInv, Adding, NoOp
<1>2. /\ op'.kind = "add" /\ op'.doc = d /\ op'.added = k + 1
      /\ UNCHANGED <<up, durable, calls>>
  BY OpType DEF AddNode, AddOp
<1>3. /\ writer'.counter = writer.counter
      /\ writer'.docs = [writer.docs EXCEPT ![u] = IF k + 1 = Len(d.tree) THEN d ELSE @]
      /\ Unharmed(writer')
  BY AddNodeWriter DEF SerialInv, Unharmed
<1>4. d.tree # << >> /\ d.ver <= calls
  <2>1. Len(<< >>) = 0
    OBVIOUS
  <2> QED
    BY <1>1, <2>1 DEF SerialInv
<1> HIDE DEF u, d, k
<1>5. VersionsBy(writer', calls)
  <2> SUFFICES ASSUME NEW v \in Uris
               PROVE  /\ writer'.docs[v].ver <= calls
                      /\ writer'.docs[v].tree = << >> => writer'.docs[v] = NoDoc
    BY DEF VersionsBy
  <2>1. writer'.docs[v] = d \/ writer'.docs[v] = writer.docs[v]
    BY <1>1, <1>3, WriterType
  <2>2. CASE writer'.docs[v] = d
    BY <1>4, <2>2
  <2>3. CASE writer'.docs[v] = writer.docs[v]
    BY <2>3 DEF SerialInv, VersionsBy
  <2> QED
    BY <2>1, <2>2, <2>3
<1>6. ASSUME k + 1 < Len(d.tree), NEW v \in Uris
      PROVE  writer'.docs[v].ver < d.ver /\ durable.docs[v].ver < d.ver
  <2>1. writer'.docs[v] = writer.docs[v]
    BY <1>1, <1>3, <1>6, WriterType
  <2> QED
    BY <1>1, <1>2, <2>1 DEF SerialInv, u, d, k
<1>7. Adding' /\ op' # NoOp /\ up
  BY <1>1, <1>2 DEF Adding, NoOp
<1>8. /\ Unharmed(writer)' /\ Unharmed(durable)'
      /\ durable'.counter >= FirstLeft /\ writer'.counter >= FirstLeft
      /\ VersionsBy(durable, calls)'
      /\ op'.doc.ver <= calls'
  BY <1>1, <1>2, <1>3, <1>4 DEF SerialInv, Unharmed, VersionsBy
<1>9. VersionsBy(writer, calls)'
  BY <1>2, <1>5 DEF VersionsBy
<1>10. (Adding /\ op.added < Len(op.doc.tree) =>
         \A v \in Uris :
           writer.docs[v].ver < op.doc.ver /\ durable.docs[v].ver < op.doc.ver)'
  BY <1>2, <1>6
<1> QED
  BY <1>2, <1>7, <1>8, <1>9, <1>10 DEF SerialInv

(* The steps that leave no operation in progress: it is enough that the    *)
(* writer and the commit are as the invariant says.                        *)
LEMMA IdleSerial ==
  ASSUME TypeOK, SerialInv, ~Adding', UNCHANGED <<up, durable, calls>>, up,
         Unharmed(writer'), VersionsBy(writer', calls),
         writer'.counter >= FirstLeft
  PROVE  SerialInv'
<1>1. /\ Unharmed(writer)' /\ VersionsBy(writer, calls)'
      /\ Unharmed(durable)' /\ VersionsBy(durable, calls)'
  BY DEF Unharmed, VersionsBy, SerialInv
<1> QED
  BY <1>1 DEF SerialInv

(* Every step under the discipline preserves the invariant.                *)
LEMMA SerialStep ==
  ASSUME IInv, NumbersInv, SerialInv, [SerialNext]_vars
  PROVE  SerialInv'
<1>1. TypeOK /\ TypeOK' /\ WriterInv
  <2>1. [Next]_vars
    BY DEF SerialNext
  <2> QED
    BY <2>1, TypeStep DEF IInv
<1>2. /\ writer \in Image /\ durable \in Image /\ calls \in Nat
      /\ writer.counter \in Nat /\ durable.counter \in Nat /\ nodeCounter \in Nat
  BY <1>1 DEF TypeOK, Image
<1>3. Unharmed(writer) /\ VersionsBy(writer, calls)
  BY DEF SerialInv
<1>4. Unharmed(durable) /\ VersionsBy(durable, calls)
  BY DEF SerialInv
<1>5. ASSUME NEW img, Load(img), Unharmed(img), VersionsBy(img, calls),
             img.counter >= FirstLeft \/ (~up' /\ img.counter = 0)
      PROVE  SerialInv'
  <2>1. /\ writer' = img /\ durable' = img /\ op' = NoOp /\ calls' = calls /\ ~Adding'
    BY <1>5 DEF Load, Adding, NoOp
  <2>2. /\ Unharmed(writer)' /\ Unharmed(durable)'
        /\ VersionsBy(writer, calls)' /\ VersionsBy(durable, calls)'
    BY <1>5, <2>1 DEF Unharmed, VersionsBy
  <2> QED
    BY <1>5, <2>1, <2>2 DEF SerialInv
<1>6. CASE Open /\ Discipline
  <2>1. PICK img \in Image :
          /\ Load(img) /\ img.docs = durable.docs
          /\ img.torn = durable.torn /\ img.damaged = durable.damaged
          /\ img.ahead = {} /\ img.shared = durable.shared \cup durable.ahead
          /\ img.counter = IF durable.counter = 0 THEN FirstLeft ELSE durable.counter
    BY <1>1, <1>6, OpenLoads
  <2>2. Unharmed(img) /\ VersionsBy(img, calls)
    BY <1>4, <2>1 DEF Unharmed, VersionsBy
  <2>3. img.counter >= FirstLeft
    BY <2>1 DEF SerialInv, FirstLeft
  <2> QED
    BY <1>5, <2>1, <2>2, <2>3
<1>7. CASE Close /\ Discipline
  <2>1. writer.counter >= FirstLeft /\ durable.counter >= FirstLeft
    BY <1>7 DEF Close, SerialInv
  <2>2. CASE op = NoOp
    <3>1. Capture = writer
      BY <1>1, <2>2, IdleCapture
    <3> QED
      BY <1>3, <1>5, <1>7, <2>1, <3>1 DEF Close
  <2>3. CASE op # NoOp
    <3>1. Capture = durable
      BY <1>7, <2>3 DEF Close, Load, Discipline
    <3> QED
      BY <1>4, <1>5, <1>7, <2>1, <3>1 DEF Close
  <2> QED
    BY <2>2, <2>3
<1>8. CASE Crash /\ Discipline
  <2>1. durable.counter >= FirstLeft
    BY <1>8 DEF Crash, SerialInv
  <2> QED
    BY <1>4, <1>5, <1>8, <2>1 DEF Crash
<1>9. ASSUME UNCHANGED <<up, durable, writer, op, calls>>
      PROVE  SerialInv'
  BY <1>9 DEF SerialInv, Unharmed, VersionsBy, Adding
<1>10. ASSUME UNCHANGED <<up, writer, op>>, durable' \in {durable, writer},
             op = NoOp, calls' = calls + 1, up
      PROVE  SerialInv'
  <2>1. VersionsBy(writer, calls + 1) /\ VersionsBy(durable, calls + 1)
    BY <1>2, <1>3, <1>4, VersionsLater
  <2>2. /\ Unharmed(writer)' /\ Unharmed(durable)'
        /\ VersionsBy(writer, calls)' /\ VersionsBy(durable, calls)'
    BY <1>3, <1>4, <1>10, <2>1 DEF Unharmed, VersionsBy
  <2>3. ~Adding'
    BY <1>10 DEF Adding, NoOp
  <2>4. durable'.counter >= FirstLeft /\ writer'.counter >= FirstLeft /\ up'
    BY <1>10 DEF SerialInv
  <2> QED
    BY <2>2, <2>3, <2>4 DEF SerialInv
<1>11. CASE Refresh
  BY <1>9, <1>11 DEF Refresh
<1>12. ASSUME NEW s \in Sessions, SessionNext(s), Discipline
       PROVE  SerialInv'
  <2>1. ASSUME Call(s)
        PROVE  op = NoOp /\ calls' = calls + 1 /\ up
    BY <1>2, <1>12, <2>1 DEF Call, Discipline
  <2>2. ASSUME NEW u \in Uris, NEW t \in Trees, AddBegin(s, u, t)
        PROVE  SerialInv'
    BY <1>1, <2>2, AddBeginSerial
  <2>3. CASE AddNode(s)
    BY <1>1, <2>3, AddNodeSerial
  <2>4. CASE AddEnd(s)
    <3>1. Adding /\ up /\ writer.counter >= FirstLeft /\ writer.counter <= nodeCounter
      BY <1>1, <2>4 DEF AddEnd, SerialInv, Adding, NoOp, WriterInv, Counters
    <3>2. /\ writer'.counter = nodeCounter /\ writer'.torn = writer.torn
          /\ writer'.damaged = writer.damaged /\ writer'.docs = writer.docs
          /\ writer'.ahead = {} /\ writer'.shared = writer.shared
      BY <1>1, <2>4, AddEndWriter
    <3>3. ~Adding'
      BY <2>4 DEF AddEnd, Adding, NoOp
    <3>4. writer'.counter >= FirstLeft
      BY <1>2, <3>1, <3>2 DEF FirstLeft
    <3>5. Unharmed(writer') /\ VersionsBy(writer', calls)
      BY <1>3, <3>2 DEF Unharmed, VersionsBy
    <3> QED
      BY <1>1, <2>4, <3>1, <3>3, <3>4, <3>5, IdleSerial DEF AddEnd
  <2>5. CASE AddFail(s)
    <3>1. Adding /\ up /\ op.uri \in Uris
      BY <1>1, <2>5, OpType DEF AddFail, SerialInv, Adding, NoOp
    <3>2. writer' = Without(writer, op.uri) /\ ~Adding'
      BY <2>5 DEF AddFail, Adding, NoOp
    <3>3. Unharmed(writer') /\ VersionsBy(writer', calls)
      BY <1>2, <1>3, <3>1, <3>2, VersionsWithout
    <3>4. writer'.counter >= FirstLeft
      BY <1>2, <3>1, <3>2, WithoutType DEF SerialInv
    <3> QED
      BY <1>1, <2>5, <3>1, <3>2, <3>3, <3>4, IdleSerial DEF AddFail
  <2>6. CASE AddError(s)
    <3>1. Adding /\ up /\ ~Reindexing /\ ~Adding' /\ writer' = Capture
      BY <1>1, <2>6, OpType DEF AddError, SerialInv, Adding, NoOp
    <3>2. /\ Capture.counter = writer.counter /\ Capture.docs = writer.docs
          /\ Capture.damaged = writer.damaged /\ Capture.shared = writer.shared
      BY <1>1, <3>1, CaptureType
    <3>3. Capture.torn = {} /\ op.added < Len(op.doc.tree)
      BY <1>12, <2>6, <3>1 DEF Discipline, AddError
    <3>4. ~(0 < op.added)
      BY <1>1, <3>1, <3>3, CaptureType
    <3>5. Capture.ahead = writer.ahead
      BY <1>1, <3>4, CaptureType
    <3>6. Unharmed(writer')
      BY <1>3, <3>1, <3>2, <3>3, <3>5 DEF Unharmed
    <3>7. VersionsBy(writer', calls)
      BY <1>3, <3>1, <3>2 DEF VersionsBy
    <3>8. writer'.counter >= FirstLeft
      BY <3>1, <3>2 DEF SerialInv
    <3> QED
      BY <1>1, <2>6, <3>1, <3>6, <3>7, <3>8, IdleSerial DEF AddError
  <2>7. ASSUME NEW u \in Uris, RemoveDocument(s, u)
        PROVE  SerialInv'
    <3> DEFINE new == Without(writer, u)
    <3>1. op = NoOp /\ calls' = calls + 1 /\ up
      BY <2>1, <2>7 DEF RemoveDocument
    <3>2. ~RemovalRaces(u)
      BY <1>1, <3>1, OpType DEF RemovalRaces, ComesBack
    <3>3. new \in Image /\ new.counter = writer.counter
      BY <1>2, WithoutType
    <3>4. Unharmed(new) /\ VersionsBy(new, calls)
      BY <1>2, <1>3, VersionsWithout
    <3>5. ~ComesBack(u)
      BY <3>2 DEF RemovalRaces
    <3>6. /\ writer'.counter = new.counter /\ writer'.docs = new.docs
          /\ writer'.torn = new.torn /\ writer'.damaged = new.damaged
          /\ writer'.ahead = new.ahead /\ writer'.shared = new.shared
      BY <1>1, <2>7, <3>2, <3>5, RemovalWriter
    <3> HIDE DEF new
    <3>7. VersionsBy(new, calls + 1) /\ VersionsBy(durable, calls + 1)
      BY <1>2, <1>4, <3>3, <3>4, VersionsLater
    <3>8. UNCHANGED <<up, op, durable>>
      BY <2>7 DEF RemoveDocument
    <3>9. /\ Unharmed(writer)' /\ Unharmed(durable)'
          /\ VersionsBy(writer, calls)' /\ VersionsBy(durable, calls)'
      BY <1>4, <3>1, <3>4, <3>6, <3>7, <3>8 DEF Unharmed, VersionsBy
    <3>10. ~Adding'
      BY <3>1, <3>8 DEF Adding, NoOp
    <3>11. durable'.counter >= FirstLeft /\ writer'.counter >= FirstLeft /\ up'
      BY <3>1, <3>3, <3>6, <3>8 DEF SerialInv
    <3> QED
      BY <3>9, <3>10, <3>11 DEF SerialInv
  <2>8. CASE ReindexBegin(s)
    <3>1. PICK n \in snapshot[s].nodes :
             \E b \in BaseUris(snapshot[s], n) : ReindexDelete(s, n, b)
      BY <2>8 DEF ReindexBegin
    <3>2. PICK b \in BaseUris(snapshot[s], n) : ReindexDelete(s, n, b)
      BY <3>1
    <3>3. op = NoOp /\ calls' = calls + 1 /\ up
      BY <2>1, <3>2 DEF ReindexDelete
    <3>4. op'.kind = "reindex" /\ op'.session = s /\ UNCHANGED <<up, durable>>
      BY <3>2 DEF ReindexDelete
    <3>5. snapshot[s].nodes = writer.nodes
      BY <1>12, <3>3, <3>4 DEF Discipline
    <3> DEFINE new == [n EXCEPT !.uri = b]
    <3>6. new = n /\ Hit(n) = {n}
      BY <1>3, <3>3, <3>5, CurrentReindex
    <3>7. /\ writer'.counter = writer.counter
          /\ writer'.docs = writer.docs
          /\ writer'.torn = writer.torn
          /\ writer'.ahead = writer.ahead
          /\ writer'.shared = writer.shared \cup (IF new \in Hit(n) THEN {} ELSE {b})
          /\ writer'.damaged = writer.damaged \cup {m.uri : m \in Hit(n) \ {new}}
                                 \cup (IF new \in Hit(n) THEN {} ELSE {b})
      BY <1>1, <3>2, ReindexWriter
    <3> HIDE DEF new
    <3>8. writer'.damaged = writer.damaged /\ writer'.shared = writer.shared
      BY <3>6, <3>7
    <3>9. VersionsBy(writer, calls + 1) /\ VersionsBy(durable, calls + 1)
      BY <1>2, <1>3, <1>4, VersionsLater
    <3>10. /\ Unharmed(writer)' /\ Unharmed(durable)'
           /\ VersionsBy(writer, calls)' /\ VersionsBy(durable, calls)'
      BY <1>3, <1>4, <3>3, <3>4, <3>7, <3>8, <3>9 DEF Unharmed, VersionsBy
    <3>11. ~Adding'
      BY <3>4 DEF Adding
    <3>12. durable'.counter >= FirstLeft /\ writer'.counter >= FirstLeft /\ up'
      BY <3>3, <3>4, <3>7 DEF SerialInv
    <3> QED
      BY <3>10, <3>11, <3>12 DEF SerialInv
  <2>9. CASE ReindexAdd(s)
    <3>1. up /\ ~Adding'
      BY <2>9 DEF ReindexAdd, Reindexing, SerialInv, Adding, NoOp
    <3>2. /\ writer'.counter = writer.counter /\ writer'.torn = writer.torn
          /\ writer'.damaged = writer.damaged /\ writer'.docs = writer.docs
          /\ writer'.ahead = writer.ahead /\ writer'.shared = writer.shared
      BY <1>2, <2>9 DEF ReindexAdd, Image
    <3>3. Unharmed(writer') /\ VersionsBy(writer', calls)
      BY <1>3, <3>2 DEF Unharmed, VersionsBy
    <3>4. writer'.counter >= FirstLeft
      BY <3>1, <3>2 DEF SerialInv
    <3> QED
      BY <1>1, <2>9, <3>1, <3>3, <3>4, IdleSerial DEF ReindexAdd
  <2>10. ASSUME NEW w \in BOOLEAN, Commit(s, w)
        PROVE  SerialInv'
    <3>1. op = NoOp /\ calls' = calls + 1 /\ up
      BY <2>1, <2>10 DEF Commit
    <3>2. durable' = writer
      BY <1>1, <2>10, <3>1, IdleCapture DEF Commit
    <3> QED
      BY <1>10, <2>10, <3>1, <3>2 DEF Commit
  <2>11. CASE SwitchSearcher(s)
    BY <1>9, <2>11 DEF SwitchSearcher
  <2>12. CASE AquireSession(s)
    <3>1. op = NoOp /\ calls' = calls + 1 /\ up
      BY <2>1, <2>12 DEF AquireSession
    <3> QED
      BY <1>10, <2>12, <3>1 DEF AquireSession
  <2> QED
    BY <1>12, <2>2, <2>3, <2>4, <2>5, <2>6, <2>7, <2>8, <2>9, <2>10, <2>11,
       <2>12 DEF SessionNext
<1>13. CASE UNCHANGED vars
  BY <1>9, <1>13 DEF vars
<1> QED
  BY <1>6, <1>7, <1>8, <1>11, <1>12, <1>13 DEF SerialNext, Next

(* The fresh directory satisfies it.                                       *)
LEMMA SerialInit == Init => SerialInv
<1> SUFFICES ASSUME Init PROVE SerialInv
  OBVIOUS
<1>1. /\ durable = writer /\ writer.torn = {} /\ writer.damaged = {}
      /\ writer.ahead = {} /\ writer.shared = {}
      /\ writer.counter = 0 /\ op = NoOp /\ up = FALSE /\ calls = 0
      /\ \A u \in Uris : writer.docs[u] = NoDoc
  BY DEF Init
<1>2. VersionsBy(writer, calls)
  BY <1>1 DEF VersionsBy, NoDoc
<1> QED
  BY <1>1, <1>2 DEF SerialInv, Unharmed, Adding, NoOp

-----------------------------------------------------------------------------
(* The refinement of DocStore.                                             *)

(* The invariant of the disciplined store.                                 *)
SerialIInv == IInv /\ NumbersInv /\ SerialInv

(* It holds in every reachable state.                                      *)
THEOREM SerialInvariant == SerialSpec => []SerialIInv
<1>1. Init => SerialIInv
  BY InitInv, NumbersInit, SerialInit DEF SerialIInv
<1>2. SerialIInv /\ [SerialNext]_vars => SerialIInv'
  <2>1. [SerialNext]_vars => [Next]_vars
    BY DEF SerialNext
  <2> QED
    BY <2>1, StepInv, NumbersStep, SerialStep DEF SerialIInv
<1> QED
  BY <1>1, <1>2, PTL DEF SerialSpec

(* What is committed: the nodes of each document are those of its version. *)
LEMMA CommittedNodes ==
  ASSUME SerialIInv, NEW u \in Uris
  PROVE  /\ durable.docs[u] \in Version
         /\ durable.docs[u].tree = << >> => durable.docs[u] = NoDoc
         /\ NodesOf(durable, u) = DocNodes(u, durable.docs[u])
<1>1. durable \in Image /\ Intact(durable) /\ Healthy(durable) = Uris
  BY UnharmedHealthy DEF SerialIInv, IInv, TypeOK, SerialInv
<1> QED
  BY <1>1 DEF Intact, Image, SerialIInv, SerialInv, VersionsBy

(* What the writer holds between calls: the same.                          *)
LEMMA IdleNodes ==
  ASSUME SerialIInv, op = NoOp, NEW u \in Uris
  PROVE  /\ writer.docs[u] \in Version
         /\ writer.docs[u].tree = << >> => writer.docs[u] = NoDoc
         /\ NodesOf(writer, u) = DocNodes(u, writer.docs[u])
<1>1. TypeOK /\ WriterInv /\ Healthy(writer) = Uris /\ ~Adding /\ ~Reindexing
  BY UnharmedHealthy, OpType DEF SerialIInv, IInv, SerialInv
<1>2. WriterNodesOf(u)
  BY <1>1 DEF WriterInv, WriterIntact
<1> QED
  BY <1>1, <1>2, WriterType
     DEF WriterNodesOf, AddedTo, Reindexed, SerialIInv, SerialInv, VersionsBy

(* Under callers that take turns, no crash, failed addition or restart     *)
(* leaves part of a document in a commit, or in the writer between calls.  *)
THEOREM NothingPartial == SerialSpec => []NoPartialDocument
<1>1. SerialIInv => NoPartialDocument
  <2> SUFFICES ASSUME SerialIInv, NEW u \in Uris
               PROVE  /\ ~Partial(durable, u)
                      /\ op = NoOp => ~Partial(writer, u)
    BY DEF NoPartialDocument
  <2>1. ~Partial(durable, u)
    BY CommittedNodes, VersionOfNodes DEF Partial
  <2>2. op = NoOp => ~Partial(writer, u)
    BY IdleNodes, VersionOfNodes DEF Partial
  <2> QED
    BY <2>1, <2>2
<1> QED
  BY <1>1, SerialInvariant, PTL

(* The document of u, as Documents reads it off nodes.                     *)
VersionIn(nodes, u) ==
  LET N == {n \in nodes : n.uri = u}
  IN  IF Whole(N) THEN (CHOOSE n \in N : TRUE).ver ELSE 0

(* The abstract documents are those of the history: a document that is     *)
(* being added is absent up to its last node, and the node between the two *)
(* writes of a reindex does not count as missing.                          *)
LEMMA AbstractDocs ==
  ASSUME SerialIInv
  PROVE  /\ Documents(WriterNodes) = [u \in Uris |-> writer.docs[u].ver]
         /\ Documents(durable.nodes) = [u \in Uris |-> durable.docs[u].ver]
<1>1. /\ TypeOK /\ WriterInv /\ Healthy(writer) = Uris
  BY UnharmedHealthy DEF SerialIInv, IInv, SerialInv
<1>2. ASSUME NEW u \in Uris
      PROVE  VersionIn(durable.nodes, u) = durable.docs[u].ver
  <2>1. {n \in durable.nodes : n.uri = u} = DocNodes(u, durable.docs[u])
    BY CommittedNodes DEF NodesOf
  <2> QED
    BY <2>1, CommittedNodes, VersionOfNodes DEF VersionIn
<1>3. ASSUME NEW u \in Uris
      PROVE  VersionIn(WriterNodes, u) = writer.docs[u].ver
  <2>1. /\ writer.docs[u] \in Version
        /\ writer.docs[u].tree = << >> => writer.docs[u] = NoDoc
        /\ WriterNodesOf(u)
    BY <1>1, WriterType DEF WriterInv, WriterIntact, SerialIInv, SerialInv, VersionsBy
  <2> DEFINE N == {n \in WriterNodes : n.uri = u}
  <2>2. ASSUME N = DocNodes(u, writer.docs[u])
        PROVE  VersionIn(WriterNodes, u) = writer.docs[u].ver
    BY <2>1, <2>2, VersionOfNodes DEF VersionIn
  <2>3. ~Reindexed(u) => N = NodesOf(writer, u)
    BY <1>1 DEF WriterNodes, NodesOf, Reindexed, WriterInv, OpNode
  <2>4. Reindexed(u) => N = NodesOf(writer, u) \cup {op.node}
    BY <1>1 DEF WriterNodes, NodesOf, Reindexed, WriterInv, OpNode
  <2> HIDE DEF N
  <2>5. CASE Reindexed(u)
    <3>1. N = DocNodes(u, writer.docs[u])
      BY <2>1, <2>4, <2>5 DEF WriterNodesOf
    <3> QED
      BY <2>2, <3>1
  <2>6. CASE AddedTo(u) /\ op.added < Len(op.doc.tree)
    <3>1. /\ ~Reindexed(u) /\ op.added \in Nat
          /\ op.doc \in [ver : Nat, base : Nat, tree : Trees]
      BY <1>1, <2>6, OpType DEF AddedTo, Reindexed
    <3>2. N = Prefix(u, op.doc, op.added) /\ writer.docs[u] = NoDoc
      BY <2>1, <2>3, <2>6, <3>1 DEF WriterNodesOf
    <3>3. op.doc.base >= FirstLeft
      <4>1. op # NoOp /\ writer.counter <= op.doc.base
        BY <1>1, <2>6 DEF AddedTo, Adding, NoOp, WriterInv, Counters
      <4>2. writer.counter >= FirstLeft
        BY <4>1 DEF SerialIInv, SerialInv
      <4> QED
        BY <1>1, <3>1, <4>1, <4>2, WriterType DEF FirstLeft
    <3>4. ~Whole(N)
      BY <2>6, <3>1, <3>2, <3>3, PrefixIsPartial
    <3> QED
      BY <3>2, <3>4 DEF VersionIn, N, NoDoc
  <2>7. CASE ~Reindexed(u) /\ ~(AddedTo(u) /\ op.added < Len(op.doc.tree))
    <3>1. N = DocNodes(u, writer.docs[u])
      <4>1. CASE AddedTo(u)
        <5>1. /\ op.added \in Nat /\ op.added <= Len(op.doc.tree)
              /\ Len(op.doc.tree) \in Nat
          BY <1>1, <4>1, OpType, TreeNotEmpty DEF AddedTo, WriterInv, Counters
        <5>2. op.added = Len(op.doc.tree)
          BY <2>7, <4>1, <5>1
        <5> QED
          BY <2>1, <2>3, <2>7, <4>1, <5>2 DEF WriterNodesOf
      <4>2. CASE ~AddedTo(u)
        BY <2>1, <2>3, <2>7, <4>2 DEF WriterNodesOf
      <4> QED
        BY <4>1, <4>2
    <3> QED
      BY <2>2, <3>1
  <2> QED
    BY <2>5, <2>6, <2>7
<1>4. /\ Documents(WriterNodes) = [u \in Uris |-> VersionIn(WriterNodes, u)]
      /\ Documents(durable.nodes) = [u \in Uris |-> VersionIn(durable.nodes, u)]
  BY DEF Documents, VersionIn
<1> QED
  BY <1>2, <1>3, <1>4

(* The first state is the first state of DocStore.                         *)
LEMMA RefineInit ==
  ASSUME Init
  PROVE  Abstract!Init
<1>1. SerialIInv
  BY InitInv, NumbersInit, SerialInit DEF SerialIInv
<1>2. /\ \A u \in Uris : writer.docs[u].ver = 0 /\ durable.docs[u].ver = 0
      /\ up = FALSE /\ calls = 0
  BY DEF Init, NoDoc
<1> QED
  BY <1>1, <1>2, AbstractDocs DEF Abstract!Init

(* The refinement mapping in the terms of the history: step by step it is  *)
(* easier to follow than the documents read off the nodes.                 *)
WriterVersions  == [u \in Uris |-> writer.docs[u].ver]
DurableVersions == [u \in Uris |-> durable.docs[u].ver]

History == INSTANCE DocStore WITH
  docs <- WriterVersions, committed <- DurableVersions

(* A removal takes one version away.                                       *)
LEMMA VersionsOfWithout ==
  ASSUME NEW img \in Image, NEW u \in Uris
  PROVE  [v \in Uris |-> Without(img, u).docs[v].ver]
           = [[v \in Uris |-> img.docs[v].ver] EXCEPT ![u] = 0]
<1>1. \A v \in Uris : Without(img, u).docs[v].ver = IF v = u THEN 0 ELSE img.docs[v].ver
  BY WithoutNodes DEF NoDoc
<1> QED
  BY <1>1

(* A step that leaves the versions, the calls and the index as they are.   *)
LEMMA StutterStep ==
  ASSUME UNCHANGED <<up, calls>>, writer'.docs = writer.docs, durable'.docs = durable.docs
  PROVE  UNCHANGED History!vars
<1>1. WriterVersions' = WriterVersions /\ DurableVersions' = DurableVersions
  BY DEF WriterVersions, DurableVersions
<1> QED
  BY <1>1 DEF History!vars

(* A call that commits, or that leaves the versions as they are.           *)
LEMMA CallStep ==
  ASSUME up, up' = up, calls' = calls + 1, writer'.docs = writer.docs,
         durable'.docs \in {durable.docs, writer.docs}
  PROVE  History!Call
<1>1. WriterVersions' = WriterVersions
  BY DEF WriterVersions
<1>2. DurableVersions' = DurableVersions \/ DurableVersions' = WriterVersions
  BY DEF WriterVersions, DurableVersions
<1> QED
  BY <1>1, <1>2 DEF History!Call

(* The start of an addition, or a removal.                                 *)
LEMMA RemovalStep ==
  ASSUME writer \in Image, NEW u \in Uris, up, up' = up, calls' = calls + 1,
         writer'.docs = Without(writer, u).docs, durable' = durable
  PROVE  History!Call
<1>1. WriterVersions' = [WriterVersions EXCEPT ![u] = 0]
  BY VersionsOfWithout DEF WriterVersions
<1>2. DurableVersions' = DurableVersions
  BY DEF DurableVersions
<1> QED
  BY <1>1, <1>2 DEF History!Call

(* The last node of an addition makes its document appear, whole; any      *)
(* other is not seen.                                                      *)
LEMMA AddNodeStep ==
  ASSUME SerialIInv, NEW s \in Sessions, AddNode(s)
  PROVE  (\E u \in Uris : \E v \in 1 .. calls : History!Appear(u, v))
           \/ UNCHANGED History!vars
<1> DEFINE u == op.uri
           d == op.doc
           k == op.added
<1>1. TypeOK /\ SerialInv /\ WriterInv /\ Healthy(writer) = Uris
  BY UnharmedHealthy DEF SerialIInv, IInv, SerialInv
<1>2. /\ Adding /\ ~Reindexing /\ u \in Uris /\ k \in Nat /\ up
      /\ d \in [ver : Nat, base : Nat, tree : Trees] /\ d.ver \in Nat
      /\ k < Len(d.tree) /\ calls \in Nat
  BY <1>1, OpType DEF AddNode, SerialInv, Adding, NoOp, TypeOK
<1>3. /\ writer'.docs = [writer.docs EXCEPT ![u] = IF k + 1 = Len(d.tree) THEN d ELSE @]
      /\ UNCHANGED <<up, durable, calls>>
  BY <1>1, AddNodeWriter DEF AddNode
<1>4. writer.docs[u] = NoDoc
  BY <1>1, <1>2 DEF WriterInv, WriterIntact, WriterNodesOf, AddedTo
<1>5. \A w \in Uris : /\ writer.docs[w].ver < d.ver /\ durable.docs[w].ver < d.ver
                      /\ writer.docs[w].ver \in Nat
  BY <1>1, <1>2, WriterType DEF SerialInv, Version
<1>6. d.ver <= calls
  BY <1>1, <1>2 DEF SerialInv
<1>7. writer.docs \in [Uris -> Version]
  BY <1>1, WriterType
<1> HIDE DEF u, d, k
<1>8. CASE k + 1 = Len(d.tree)
  <2>1. \A w \in Uris : writer'.docs[w] = IF w = u THEN d ELSE writer.docs[w]
    BY <1>2, <1>3, <1>7, <1>8
  <2>2. WriterVersions' = [WriterVersions EXCEPT ![u] = d.ver]
    BY <2>1 DEF WriterVersions
  <2>3. DurableVersions' = DurableVersions
    BY <1>3 DEF DurableVersions
  <2>4. WriterVersions[u] = 0
    BY <1>2, <1>4 DEF WriterVersions, NoDoc
  <2>5. \A w \in Uris : WriterVersions[w] < d.ver /\ DurableVersions[w] < d.ver
    BY <1>5 DEF WriterVersions, DurableVersions
  <2>6. d.ver \in 1 .. calls
    <3>1. writer.docs[u].ver = 0 /\ writer.docs[u].ver < d.ver
      BY <1>2, <1>4, <1>5 DEF NoDoc
    <3> QED
      BY <1>2, <1>6, <3>1
  <2>7. History!Appear(u, d.ver)
    BY <1>2, <1>3, <1>6, <2>2, <2>3, <2>4, <2>5 DEF History!Appear
  <2> QED
    BY <1>2, <2>6, <2>7
<1>9. CASE k + 1 # Len(d.tree)
  <2>1. writer'.docs = writer.docs
    BY <1>2, <1>3, <1>7, <1>9
  <2> QED
    BY <1>3, <2>1, StutterStep
<1> QED
  BY <1>8, <1>9

(* Every step of the disciplined store is a step of DocStore, or is not    *)
(* seen: one case per action.                                              *)
LEMMA RefineStep ==
  ASSUME SerialIInv, [SerialNext]_vars
  PROVE  [History!Next]_(History!vars)
<1>1. /\ TypeOK /\ SerialInv /\ WriterInv /\ Healthy(writer) = Uris
      /\ writer \in Image /\ durable \in Image /\ calls \in Nat
  BY UnharmedHealthy DEF SerialIInv, IInv, SerialInv, TypeOK
<1>2. Capture.docs = writer.docs
  BY <1>1, CaptureType
<1>3. CASE Open /\ Discipline
  <2>1. ~up /\ up' = TRUE /\ calls' = calls /\ writer = durable
    BY <1>1, <1>3 DEF Open, Load, SerialInv
  <2>2. PICK img \in Image : Load(img) /\ img.docs = durable.docs
    BY <1>1, <1>3, OpenLoads DEF SerialIInv, IInv
  <2>3. writer'.docs = durable.docs /\ durable'.docs = durable.docs
    BY <2>2 DEF Load
  <2>4. WriterVersions' = WriterVersions /\ DurableVersions' = DurableVersions
    BY <2>1, <2>3 DEF WriterVersions, DurableVersions
  <2>5. History!Start
    BY <2>1, <2>4 DEF History!Start
  <2> QED
    BY <2>5 DEF History!Next
<1>4. ASSUME up, up' = FALSE, calls' = calls, writer' = durable',
             durable'.docs \in {durable.docs, writer.docs}
      PROVE  History!Stop
  <2>1. DurableVersions' \in {DurableVersions, WriterVersions}
    BY <1>4 DEF WriterVersions, DurableVersions
  <2>2. WriterVersions' = DurableVersions'
    BY <1>4 DEF WriterVersions, DurableVersions
  <2> QED
    BY <1>4, <2>1, <2>2 DEF History!Stop
<1>5. CASE Close /\ Discipline
  <2>1. History!Stop
    BY <1>2, <1>4, <1>5 DEF Close, Load
  <2> QED
    BY <2>1 DEF History!Next
<1>6. CASE Crash /\ Discipline
  <2>1. History!Stop
    BY <1>4, <1>6 DEF Crash, Load
  <2> QED
    BY <2>1 DEF History!Next
<1>7. CASE Refresh
  BY <1>7, StutterStep DEF Refresh
<1>8. ASSUME NEW s \in Sessions, SessionNext(s), Discipline
      PROVE  [History!Next]_(History!vars)
  <2>1. ASSUME History!Call
        PROVE  [History!Next]_(History!vars)
    BY <2>1 DEF History!Next
  <2>2. ASSUME NEW u \in Uris, NEW t \in Trees, AddBegin(s, u, t)
        PROVE  [History!Next]_(History!vars)
    <3>1. /\ up /\ up' = up /\ calls' = calls + 1 /\ durable' = durable
          /\ writer'.docs = Without(writer, u).docs
      BY <2>2 DEF AddBegin, Call
    <3> QED
      BY <1>1, <2>1, <3>1, RemovalStep
  <2>3. CASE AddNode(s)
    BY <2>3, AddNodeStep DEF History!Next
  <2>4. CASE AddEnd(s)
    <3>1. writer'.docs = writer.docs
      BY <1>1, <2>4 DEF AddEnd, Image
    <3> QED
      BY <2>4, <3>1, StutterStep DEF AddEnd
  <2>5. CASE AddFail(s)
    <3>1. /\ Adding /\ op.uri \in Uris /\ op.added < Len(op.doc.tree)
          /\ writer' = Without(writer, op.uri) /\ UNCHANGED <<up, calls, durable>>
      BY <1>1, <2>5, OpType DEF AddFail
    <3>2. writer.docs[op.uri] = NoDoc
      BY <1>1, <3>1 DEF WriterInv, WriterIntact, WriterNodesOf, AddedTo
    <3>3. Without(writer, op.uri).docs = writer.docs
      BY <1>1, <3>1, <3>2, WithoutType, WriterType
    <3> QED
      BY <3>1, <3>3, StutterStep
  <2>6. CASE AddError(s)
    BY <1>2, <2>6, StutterStep DEF AddError
  <2>7. ASSUME NEW u \in Uris, RemoveDocument(s, u)
        PROVE  [History!Next]_(History!vars)
    <3>1. up /\ up' = up /\ calls' = calls + 1 /\ durable' = durable
      BY <2>7 DEF RemoveDocument, Call
    <3>2. Without(writer, u) \in Image
      BY <1>1, WithoutType
    <3>3. writer'.docs = Without(writer, u).docs
      BY <2>7, <3>2 DEF RemoveDocument, Image
    <3> QED
      BY <1>1, <2>1, <3>1, <3>3, RemovalStep
  <2>8. CASE ReindexBegin(s)
    <3>1. PICK n \in snapshot[s].nodes :
             \E b \in BaseUris(snapshot[s], n) : ReindexDelete(s, n, b)
      BY <2>8 DEF ReindexBegin
    <3>2. PICK b \in BaseUris(snapshot[s], n) : ReindexDelete(s, n, b)
      BY <3>1
    <3>3. writer'.docs = writer.docs
      BY <1>1, <3>2, ReindexWriter
    <3>4. up /\ up' = up /\ calls' = calls + 1 /\ durable' = durable
      BY <3>2 DEF ReindexDelete, Call
    <3> QED
      BY <2>1, <3>3, <3>4, CallStep
  <2>9. CASE ReindexAdd(s)
    <3>1. writer'.docs = writer.docs
      BY <1>1, <2>9 DEF ReindexAdd, Image
    <3> QED
      BY <2>9, <3>1, StutterStep DEF ReindexAdd
  <2>10. ASSUME NEW w \in BOOLEAN, Commit(s, w)
        PROVE  [History!Next]_(History!vars)
    <3>1. /\ up /\ up' = up /\ calls' = calls + 1 /\ writer' = writer
          /\ durable'.docs = writer.docs
      BY <1>2, <2>10 DEF Commit, Call
    <3> QED
      BY <2>1, <3>1, CallStep
  <2>11. CASE SwitchSearcher(s)
    BY <2>11, StutterStep DEF SwitchSearcher
  <2>12. CASE AquireSession(s)
    <3>1. up /\ up' = up /\ calls' = calls + 1 /\ writer' = writer /\ durable' = durable
      BY <2>12 DEF AquireSession, Call
    <3> QED
      BY <2>1, <3>1, CallStep
  <2> QED
    BY <1>8, <2>2, <2>3, <2>4, <2>5, <2>6, <2>7, <2>8, <2>9, <2>10, <2>11,
       <2>12 DEF SessionNext
<1>9. CASE UNCHANGED vars
  BY <1>9, StutterStep DEF vars
<1> QED
  BY <1>3, <1>5, <1>6, <1>7, <1>8, <1>9 DEF SerialNext, Next

(* The history agrees with what is read off the nodes.                     *)
AsRead ==
  /\ Documents(WriterNodes) = WriterVersions
  /\ Documents(durable.nodes) = DurableVersions

(* Under callers that take turns the node store is a map from URIs to      *)
(* whole documents, whatever crashes, fails or refreshes in between: every *)
(* step of addDocument, removeDocument, reindexNode, commit, close and     *)
(* recovery is a step of DocStore, or changes nothing a caller can tell.   *)
THEOREM StoreImplementsDocStore == SerialSpec => ImplementsDocStore
<1>1. Init => Abstract!Init
  BY RefineInit
<1>2. SerialIInv => AsRead
  BY AbstractDocs DEF AsRead, WriterVersions, DurableVersions
<1>3. SerialIInv' => AsRead'
  BY <1>2, PTL
<1>4. ASSUME SerialIInv, AsRead, AsRead', [SerialNext]_vars
      PROVE  [Abstract!Next]_(Abstract!vars)
  <2>1. /\ Documents(WriterNodes) = WriterVersions
        /\ Documents(durable.nodes) = DurableVersions
    BY <1>4 DEF AsRead
  <2>2. /\ Documents(WriterNodes)' = WriterVersions'
        /\ Documents(durable.nodes)' = DurableVersions'
    BY <1>4 DEF AsRead
  <2>3. [History!Next]_(History!vars)
    BY <1>4, RefineStep
  <2> QED
    BY <2>1, <2>2, <2>3
       DEF History!Next, History!Call, History!Appear, History!Start, History!Stop,
           History!vars, Abstract!Next, Abstract!Call, Abstract!Appear, Abstract!Start,
           Abstract!Stop, Abstract!vars
<1> QED
  BY <1>1, <1>2, <1>3, <1>4, SerialInvariant, PTL
     DEF SerialSpec, ImplementsDocStore, Abstract!Spec
=============================================================================
