----------------------------- MODULE NodeStore -----------------------------
(***************************************************************************)
(* The node store of one index: NodeStore.java with the indexing half of   *)
(* DocumentIndexer.java, and the searcher handling of Session.java.        *)
(*                                                                         *)
(* Every XML node is one Lucene document.  A node is written with a left   *)
(* and a right number taken from nodeCounter; the query axes are range     *)
(* queries on these numbers, so that the index is only meaningful while a  *)
(* left identifies one node.  Four things are kept about the same nodes:   *)
(*                                                                         *)
(*   writer     what the IndexWriter holds: the next commit or refresh     *)
(*              captures it                                                *)
(*   durable    the last Lucene commit: what a restart finds               *)
(*   searcher   the current near-real-time searcher                        *)
(*   snapshot   for each session, the searcher it acquired                 *)
(*                                                                         *)
(* The monitor of documentIndexer serialises addDocument and reindexNode.  *)
(* removeDocument, commit, the NRT reopen thread and close do not take it, *)
(* so each of them can fall between two writes of an addition.             *)
(*                                                                         *)
(* Abstractions.  A document is a member of Trees: the numbering that      *)
(* numberNode gives it, relative to the counter (module NodeNumbering is   *)
(* about numberNode itself).  Of a node's fields only the ones that place  *)
(* it are kept.  A failed I/O of Lucene itself is not modelled.            *)
(***************************************************************************)
EXTENDS IndexTree, FiniteSets

CONSTANTS
  Uris,       \* base URIs of documents
  Sessions,   \* sessions, each used by one thread at a time
  Trees,      \* the numbered documents (see IndexTree) that may be added
  MaxCalls    \* bound on the calls of the sessions

ASSUME TreesAssumption == \A t \in Trees : Numbered(t)
ASSUME MaxCallsAssumption == MaxCalls \in Nat

-----------------------------------------------------------------------------
(* One addition of a document: its number, the value of nodeCounter when   *)
(* it started, and the tree.                                               *)
Version == [ver : Nat, base : Nat, tree : Trees \cup {<< >>}]
NoDoc   == [ver |-> 0, base |-> 0, tree |-> << >>]
Size(d) == 2 * Len(d.tree)

NodeRecord == [uri : Uris, ver : Nat, left : Nat, right : Nat,
               parent : Nat, docLeft : Nat]

(* Slip: docLeft is not taken from the document element's own number.      *)
Node_docLeftUnset(u, d, i) ==
  [uri     |-> u,
   ver     |-> d.ver,
   left    |-> d.base + d.tree[i].left,
   right   |-> d.base + d.tree[i].right,
   parent  |-> IF i = 1 THEN RootLeft ELSE d.base + d.tree[i].parent,
   docLeft |-> -1]

(* The Lucene document of the i-th node of version d of document u.  The   *)
(* version stands for the content of the node.                             *)
Node(u, d, i) ==
  [uri     |-> u,
   ver     |-> d.ver,
   left    |-> d.base + d.tree[i].left,
   right   |-> d.base + d.tree[i].right,
   parent  |-> IF i = 1 THEN RootLeft ELSE d.base + d.tree[i].parent,
   docLeft |-> d.base + d.tree[1].left]

Prefix(u, d, k) == {Node(u, d, i) : i \in 1 .. k}
DocNodes(u, d)  == Prefix(u, d, Len(d.tree))

(***************************************************************************)
(* An image of the index: its nodes and the node counter stored in it.     *)
(* The rest is history, set by the event that does the harm and never by   *)
(* looking at the nodes:                                                   *)
(*                                                                         *)
(*   docs      the version of each document that the calls made so far     *)
(*             should have left                                            *)
(*   torn      documents caught, or left, with some of their nodes only    *)
(*   damaged   documents that lost a node to a race or to a reindex, or    *)
(*             got one back from a stale reindex                           *)
(*   ahead     documents with numbers that the counter in the image does   *)
(*             not cover: their addition has not stored it yet             *)
(*   shared    documents with numbers that others may have got too: a      *)
(*             restart read a counter that was behind them, or a stale     *)
(*             reindex brought a deleted node back                         *)
(***************************************************************************)
Image == [nodes : SUBSET NodeRecord, counter : Nat, docs : [Uris -> Version],
          torn : SUBSET Uris, damaged : SUBSET Uris,
          ahead : SUBSET Uris, shared : SUBSET Uris]

NodesOf(img, u) == {n \in img.nodes : n.uri = u}
Healthy(img)    == Uris \ (img.torn \cup img.damaged)

VARIABLES
  up,           \* the index is open
  durable,      \* the last commit of the IndexWriter
  writer,       \* the content of the IndexWriter
  searcher,     \* the current searcher of indexSearcherManager
  snapshot,     \* the indexSearcher of each session
  nodeCounter,  \* DocumentIndexer.nodeCounter
  op,           \* what the holder of the documentIndexer monitor is doing
  refreshing,   \* sessions inside commit(true), after the Lucene commit
  calls         \* calls made by the sessions so far

vars == <<up, durable, writer, searcher, snapshot, nodeCounter, op,
          refreshing, calls>>

NoOp == [kind |-> "none"]

AddOp == [kind : {"add"}, session : Sessions, uri : Uris,
          doc : [ver : Nat, base : Nat, tree : Trees], added : Nat]
ReindexOp == [kind : {"reindex"}, session : Sessions, uri : Uris,
              node : NodeRecord]

Adding     == op.kind = "add"
Reindexing == op.kind = "reindex"

(* What a commit or a refresh makes of the writer's content, at this       *)
(* point of the operation that holds the monitor.  After the last node a   *)
(* document is complete, but still ahead of the stored counter.            *)
Capture ==
  [writer EXCEPT
     !.torn = IF Adding /\ 0 < op.added /\ op.added < Len(op.doc.tree)
                THEN @ \cup {op.uri} ELSE @,
     !.ahead = IF Adding /\ 0 < op.added THEN @ \cup {op.uri} ELSE @,
     !.damaged = IF Reindexing THEN @ \cup {op.uri} ELSE @]

(* A call by a session whose thread is not inside another one.             *)
Call(s) ==
  /\ up
  /\ s \notin refreshing
  /\ (Adding \/ Reindexing) => op.session # s
  /\ calls < MaxCalls
  /\ calls' = calls + 1

-----------------------------------------------------------------------------
(* All but what the sessions hold, when the content of the index is img    *)
(* and no call is in progress.                                             *)
Load(img) ==
  /\ durable' = img
  /\ writer' = img
  /\ searcher' = img
  /\ nodeCounter' = img.counter
  /\ op' = NoOp
  /\ refreshing' = {}
  /\ UNCHANGED calls

(* The counter is read back: what was ahead of it is numbered once more.   *)
Restarted(img) == [img EXCEPT !.shared = @ \cup img.ahead, !.ahead = {}]

(* Slip: numbering starts over instead of at the stored counter.           *)
Open_numbersAfresh ==
  /\ ~up
  /\ up' = TRUE
  /\ Load([Restarted(durable) EXCEPT !.counter = FirstLeft])
  /\ UNCHANGED snapshot

(* createRootNode writes and commits the counter and the two root nodes,   *)
(* in a store that has none; then the counter is read back.                *)
Open ==
  /\ ~up
  /\ up' = TRUE
  /\ Load(IF durable.counter = 0
            THEN [Restarted(durable) EXCEPT !.counter = FirstLeft]
            ELSE Restarted(durable))
  /\ UNCHANGED snapshot

(* IndexWriter.close commits (setCommitOnClose) whatever is buffered, also *)
(* half an addition; a call that was in progress fails at its next write.  *)
(* A session that is not returned keeps its searcher, also over an Open.   *)
Close ==
  /\ up
  /\ up' = FALSE
  /\ Load(Capture)
  /\ UNCHANGED snapshot

(* The process dies: only the last commit survives.                        *)
Crash ==
  /\ up
  /\ up' = FALSE
  /\ Load(durable)
  /\ snapshot' = [s \in Sessions |-> durable]

(* Slip: delete by the uri field, which only document elements have.       *)
Without_byUriField(img, u) ==
  [img EXCEPT !.nodes = {n \in @ : n.uri # u \/ n.parent # RootLeft},
              !.docs[u] = NoDoc, !.torn = @ \ {u}, !.damaged = @ \ {u},
              !.ahead = @ \ {u}, !.shared = @ \ {u}]

(* deleteDocuments(baseuri = u)                                            *)
Without(img, u) ==
  [img EXCEPT !.nodes = {n \in @ : n.uri # u}, !.docs[u] = NoDoc,
              !.torn = @ \ {u}, !.damaged = @ \ {u},
              !.ahead = @ \ {u}, !.shared = @ \ {u}]

(* Slip: one number per node instead of two.                               *)
AddBegin_oneNumberPerNode(s, u, t) ==
  /\ Call(s)
  /\ op = NoOp
  /\ op' = [kind |-> "add", session |-> s, uri |-> u, added |-> 0,
            doc |-> [ver |-> calls + 1, base |-> nodeCounter, tree |-> t]]
  /\ nodeCounter' = nodeCounter + Len(t)
  /\ writer' = Without(writer, u)
  /\ UNCHANGED <<up, durable, searcher, snapshot, refreshing>>

(* addDocument takes the monitor, remembers the counter, removes the old   *)
(* document and numbers the new one.                                       *)
AddBegin(s, u, t) ==
  /\ Call(s)
  /\ op = NoOp
  /\ op' = [kind |-> "add", session |-> s, uri |-> u, added |-> 0,
            doc |-> [ver |-> calls + 1, base |-> nodeCounter, tree |-> t]]
  /\ nodeCounter' = nodeCounter + 2 * Len(t)
  /\ writer' = Without(writer, u)
  /\ UNCHANGED <<up, durable, searcher, snapshot, refreshing>>

(* Slip: the recursion adds the children before the node.                  *)
AddNode_childrenFirst(s) ==
  /\ Adding
  /\ op.session = s
  /\ op.added < Len(op.doc.tree)
  /\ op' = [op EXCEPT !.added = @ + 1]
  /\ writer' = [writer EXCEPT
       !.nodes = @ \cup {Node(op.uri, op.doc, Len(op.doc.tree) - op.added)},
       !.docs[op.uri] = IF op.added + 1 = Len(op.doc.tree) THEN op.doc ELSE @]
  /\ UNCHANGED <<up, durable, searcher, snapshot, nodeCounter, refreshing, calls>>

(* indexNode adds the next node in document order.                         *)
AddNode(s) ==
  /\ Adding
  /\ op.session = s
  /\ op.added < Len(op.doc.tree)
  /\ op' = [op EXCEPT !.added = @ + 1]
  /\ writer' = [writer EXCEPT
       !.nodes = @ \cup {Node(op.uri, op.doc, op.added + 1)},
       !.docs[op.uri] = IF op.added + 1 = Len(op.doc.tree) THEN op.doc ELSE @]
  /\ UNCHANGED <<up, durable, searcher, snapshot, nodeCounter, refreshing, calls>>

(* Slip: the counter is stored as it was before the addition.              *)
AddEnd_storesOldCounter(s) ==
  /\ Adding
  /\ op.session = s
  /\ op.added = Len(op.doc.tree)
  /\ writer' = [writer EXCEPT !.counter = op.doc.base, !.ahead = {}]
  /\ op' = NoOp
  /\ UNCHANGED <<up, durable, searcher, snapshot, nodeCounter, refreshing, calls>>

(* storeNodeCounter, and the monitor is released.                          *)
AddEnd(s) ==
  /\ Adding
  /\ op.session = s
  /\ op.added = Len(op.doc.tree)
  /\ writer' = [writer EXCEPT !.counter = nodeCounter, !.ahead = {}]
  /\ op' = NoOp
  /\ UNCHANGED <<up, durable, searcher, snapshot, nodeCounter, refreshing, calls>>

(* Slip: the handler sets the counter back and forgets the nodes.          *)
AddFail_keepsNodes(s) ==
  /\ Adding
  /\ op.session = s
  /\ op.added < Len(op.doc.tree)
  /\ nodeCounter' = op.doc.base
  /\ op' = NoOp
  /\ UNCHANGED <<up, durable, writer, searcher, snapshot, refreshing, calls>>

(* An exception while parsing or while indexing a node: the document is    *)
(* removed once more and the counter set back.                             *)
AddFail(s) ==
  /\ Adding
  /\ op.session = s
  /\ op.added < Len(op.doc.tree)
  /\ writer' = Without(writer, op.uri)
  /\ nodeCounter' = op.doc.base
  /\ op' = NoOp
  /\ UNCHANGED <<up, durable, searcher, snapshot, refreshing, calls>>

(* An Error, which the handler does not catch (indexNode recurses once per *)
(* level of the document): the nodes added so far stay, and so does the    *)
(* counter, as far as numberNode had come.                                 *)
AddError(s) ==
  /\ Adding
  /\ op.session = s
  /\ op.added < Len(op.doc.tree)
  /\ nodeCounter' \in (IF op.added = 0 THEN op.doc.base ELSE nodeCounter) .. nodeCounter
  /\ writer' = Capture
  /\ op' = NoOp
  /\ UNCHANGED <<up, durable, searcher, snapshot, refreshing, calls>>

(* The removal cuts an addition of u in two, or falls between the delete   *)
(* and the add of a reindexed node of u: then that node comes back.        *)
ComesBack(u) == Reindexing /\ op.uri = u

RemovalRaces(u) ==
  \/ Adding /\ op.uri = u /\ op.added \in 1 .. Len(op.doc.tree) - 1
  \/ ComesBack(u)

RemoveDocument(s, u) ==
  /\ Call(s)
  /\ writer' = [Without(writer, u) EXCEPT
       !.damaged = IF RemovalRaces(u) THEN @ \cup {u} ELSE @,
       !.ahead   = IF ComesBack(u) THEN writer.ahead ELSE @,
       !.shared  = IF ComesBack(u) THEN writer.shared ELSE @]
  /\ UNCHANGED <<up, durable, searcher, snapshot, nodeCounter, op, refreshing>>

(* The base URIs that getDocumentURI may answer for node n: the document   *)
(* element is looked up by its left in the snapshot of the session.        *)
BaseUris(img, n) ==
  {m.uri : m \in {e \in img.nodes : e.left = n.docLeft /\ e.parent = RootLeft}}

(* reindexNode, first write: delete whatever has the left number of n.  n  *)
(* comes from the snapshot of the session, which may be old: then the node *)
(* is not one of the writer's and what is deleted belongs to others.       *)
ReindexDelete(s, n, b) ==
  LET new == [n EXCEPT !.uri = b]
      hit == {m \in writer.nodes : m.left = n.left}
  IN  /\ Call(s)
      /\ op = NoOp
      /\ op' = [kind |-> "reindex", session |-> s, uri |-> b, node |-> new]
      /\ writer' = [writer EXCEPT
           !.nodes = @ \ hit,
           !.damaged = @ \cup {m.uri : m \in hit \ {new}}
                         \cup (IF new \in hit THEN {} ELSE {b}),
           !.shared = @ \cup (IF new \in hit THEN {} ELSE {b})]
      /\ UNCHANGED <<up, durable, searcher, snapshot, nodeCounter, refreshing>>

(* Slip: the new Lucene document is not added.                             *)
ReindexAdd_lost(s) ==
  /\ Reindexing
  /\ op.session = s
  /\ op' = NoOp
  /\ UNCHANGED <<up, durable, writer, searcher, snapshot, nodeCounter, refreshing, calls>>

(* reindexNode, second write: add the node again; the monitor is released. *)
ReindexAdd(s) ==
  /\ Reindexing
  /\ op.session = s
  /\ writer' = [writer EXCEPT !.nodes = @ \cup {op.node}]
  /\ op' = NoOp
  /\ UNCHANGED <<up, durable, searcher, snapshot, nodeCounter, refreshing, calls>>

(* commit: IndexWriter.commit, without the monitor.  A commit that waits   *)
(* goes on to Session.SwitchSearcher; the refresh that another commit only *)
(* tries is Refresh.                                                       *)
Commit(s, waitSearcher) ==
  /\ Call(s)
  /\ durable' = Capture
  /\ refreshing' = IF waitSearcher THEN refreshing \cup {s} ELSE refreshing
  /\ UNCHANGED <<up, writer, searcher, snapshot, nodeCounter, op>>

(* maybeRefreshBlocking, then the session takes the new searcher.          *)
SwitchSearcher(s) ==
  /\ s \in refreshing
  /\ searcher' = Capture
  /\ snapshot' = [snapshot EXCEPT ![s] = Capture]
  /\ refreshing' = refreshing \ {s}
  /\ UNCHANGED <<up, durable, writer, nodeCounter, op, calls>>

(* Slip: the searcher is opened on the directory, not on the writer.       *)
Refresh_ofDirectory ==
  /\ up
  /\ searcher' = durable
  /\ UNCHANGED <<up, durable, writer, snapshot, nodeCounter, op, refreshing, calls>>

(* The NRT reopen thread, or the maybeRefresh of a commit.                 *)
Refresh ==
  /\ up
  /\ searcher' = Capture
  /\ UNCHANGED <<up, durable, writer, snapshot, nodeCounter, op, refreshing, calls>>

(* A session is returned to the pool and acquired again.                   *)
AquireSession(s) ==
  /\ Call(s)
  /\ snapshot' = [snapshot EXCEPT ![s] = searcher]
  /\ UNCHANGED <<up, durable, writer, searcher, nodeCounter, op, refreshing>>

-----------------------------------------------------------------------------
(* A fresh directory: no root node, so no stored counter.                  *)
Init ==
  LET img == [nodes |-> {}, counter |-> 0, docs |-> [u \in Uris |-> NoDoc],
              torn |-> {}, damaged |-> {}, ahead |-> {}, shared |-> {}]
  IN  /\ up = FALSE
      /\ durable = img
      /\ writer = img
      /\ searcher = img
      /\ snapshot = [s \in Sessions |-> img]
      /\ nodeCounter = 0
      /\ op = NoOp
      /\ refreshing = {}
      /\ calls = 0

(* What the holder of the monitor does next.                               *)
Progress(s) ==
  AddNode(s) \/ AddEnd(s) \/ AddFail(s) \/ AddError(s) \/ ReindexAdd(s)

ReindexBegin(s) ==
  \E n \in snapshot[s].nodes :
    \E b \in BaseUris(snapshot[s], n) : ReindexDelete(s, n, b)

SessionNext(s) ==
  \/ \E u \in Uris, t \in Trees : AddBegin(s, u, t)
  \/ AddNode(s)
  \/ AddEnd(s)
  \/ AddFail(s)
  \/ AddError(s)
  \/ \E u \in Uris : RemoveDocument(s, u)
  \/ ReindexBegin(s)
  \/ ReindexAdd(s)
  \/ \E waitSearcher \in BOOLEAN : Commit(s, waitSearcher)
  \/ SwitchSearcher(s)
  \/ AquireSession(s)

Next ==
  \/ Open
  \/ Close
  \/ Crash
  \/ Refresh
  \/ \E s \in Sessions : SessionNext(s)

Spec == Init /\ [][Next]_vars

(* The thread inside a call is scheduled, and the reopen thread wakes up   *)
(* at least every MAX_STALE_SEC.                                           *)
FairSpec ==
  /\ Spec
  /\ WF_vars(Refresh)
  /\ \A s \in Sessions : WF_vars(Progress(s)) /\ WF_vars(SwitchSearcher(s))

-----------------------------------------------------------------------------
(* The state is well typed.                                                *)
TypeOK ==
  /\ up \in BOOLEAN
  /\ durable \in Image
  /\ writer \in Image
  /\ searcher \in Image
  /\ snapshot \in [Sessions -> Image]
  /\ nodeCounter \in Nat
  /\ op \in {NoOp} \cup AddOp \cup ReindexOp
  /\ refreshing \in SUBSET Sessions
  /\ calls \in Nat

(* Everything a reader or a restart can be given, now or at the next       *)
(* commit or refresh.                                                      *)
Images == {durable, searcher, Capture} \cup {snapshot[s] : s \in Sessions}

(* A healthy document has exactly the nodes of its last addition.          *)
Intact(img) == \A u \in Healthy(img) : NodesOf(img, u) = DocNodes(u, img.docs[u])

(* The stored counter is beyond every number but those of documents that   *)
(* are ahead of it, or were when the index was opened.                     *)
Recoverable(img) ==
  \A n \in img.nodes :
    n.uri \notin img.ahead \cup img.shared => n.right < img.counter

(* Whatever the interleaving of additions, removals, reindexing, commits,  *)
(* refreshes, crashes and restarts: in what a session or a restart sees, a *)
(* document that no commit or refresh caught half-written, no removal cut  *)
(* in two and no stale reindex touched is complete, and of one version.    *)
(* That includes the document of which all nodes are written and only the  *)
(* counter is not stored yet.                                              *)
IntactDocuments == \A img \in Images : Intact(img)

(* The counter a restart reads is beyond every number in the index, also   *)
(* those of half-written documents, with two exceptions.  A document that  *)
(* a commit, a close or an Error catches between its first node and        *)
(* storeNodeCounter (NodeStore.addDocument) is ahead of the counter until  *)
(* the next addition completes: a restart before that hands its numbers    *)
(* out again, also when all its nodes were written.  And a node that a     *)
(* stale reindex writes again may have any number.                         *)
RecoverableCounter == \A img \in Images : Recoverable(img)

(* The left number is a key: reindexNode deletes by it and the axes follow *)
(* parent = left.  Two nodes share one only if one of their documents was  *)
(* ahead of the counter at a restart, or a stale reindex brought one of    *)
(* its nodes back; half-written documents of a running process, and those  *)
(* that lost nodes, share none.                                            *)
LeftIsKey ==
  \A img \in Images : \A m, n \in img.nodes :
    m.left = n.left /\ m.uri \notin img.shared /\ n.uri \notin img.shared
      => m = n

(* The range query of the descendant axis, from a node of any document but *)
(* the shared ones, finds whole subtrees of that document: a node with the *)
(* whole of its interval, and with its parent.  What else it finds is of a *)
(* shared document: one that was caught ahead of the counter, by a commit  *)
(* or a close in its addition, before a restart which then gave the same   *)
(* numbers to the document of m, or one that a stale reindex gave a        *)
(* deleted node back.                                                      *)
DescendantsStayInDocument ==
  \A img \in Images : \A m, n \in img.nodes :
    m.uri \notin img.shared /\ m.left < n.left /\ n.left < m.right
    => \/ n.uri = m.uri /\ n.right < m.right /\ m.left <= n.parent
       \/ n.uri \in img.shared

(* Even a document that was caught half-written, by a refresh in the       *)
(* middle of its addition or by a commit before a crash, is a tree: the    *)
(* parent axis leads to a node of the document, around the one it starts   *)
(* from, and any two of its nodes are apart or nested.                     *)
DocumentsAreTrees ==
  \A img \in Images : \A n \in img.nodes : n.uri \notin img.damaged =>
    LET document == NodesOf(img, n.uri)
    IN  /\ n.parent # RootLeft => \E m \in document : IsParent(m, n)
        /\ \A m \in document : Nested(m, n)

(* A document, judged by its nodes alone: one version, with a document     *)
(* element whose interval is exactly filled.                               *)
Whole(nodes) ==
  \E root \in nodes :
    /\ root.parent = RootLeft
    /\ root.right - root.left + 1 = 2 * Cardinality(nodes)
    /\ \A n \in nodes : n.ver = root.ver

Partial(img, u) == NodesOf(img, u) # {} /\ ~Whole(NodesOf(img, u))

(* A document that stays complete in the writer becomes searchable for new *)
(* sessions within the reopen interval, without anybody committing.        *)
EventuallySearchable ==
  \A u \in Uris, d \in 1 .. MaxCalls :
    LET Current == up /\ writer.docs[u].ver = d /\ u \in Healthy(writer)
    IN  Current ~> (~Current \/ (searcher.docs[u].ver = d /\ u \in Healthy(searcher)))

(* Half a document is in the searcher only for a while: the addition that  *)
(* is in progress completes or is rolled back, and the next refresh shows  *)
(* it.  Only what a restart or a race left in the writer itself remains.   *)
PartialViewIsTemporary ==
  \A u \in Uris :
    LET Passing == up /\ Partial(searcher, u) /\ u \in Healthy(writer)
    IN  Passing ~> ~Passing
=============================================================================
