-------------------------- MODULE SerialNodeStore --------------------------
(***************************************************************************)
(* The node store under callers that take turns.  NodeStore allows every   *)
(* interleaving the code allows, and shows which ones harm a document.     *)
(* This module keeps the crashes, failures and refreshes of NodeStore at   *)
(* every point, but no session makes a call while another one is inside    *)
(* addDocument or reindexNode, the index is not closed there either, no    *)
(* Error leaves indexNode, and a session reindexes only what is still      *)
(* current.  Under that discipline the store implements DocStore.          *)
(***************************************************************************)
EXTENDS NodeStore

Discipline ==
  /\ op # NoOp => calls' = calls /\ durable' = durable
  /\ op = NoOp /\ op'.kind = "reindex"
       => snapshot[op'.session].nodes = writer.nodes
  /\ writer'.torn = {}

SerialNext == Next /\ Discipline
SerialSpec == Init /\ [][SerialNext]_vars

-----------------------------------------------------------------------------
(* The documents of a set of nodes, read off the nodes.                    *)
Documents(nodes) ==
  [u \in Uris |->
     LET N == {n \in nodes : n.uri = u}
     IN  IF Whole(N) THEN (CHOOSE n \in N : TRUE).ver ELSE 0]

(* The node between the two writes of reindexNode still counts.            *)
WriterNodes == writer.nodes \cup (IF Reindexing THEN {op.node} ELSE {})

Abstract == INSTANCE DocStore WITH
  docs <- Documents(WriterNodes), committed <- Documents(durable.nodes)

(* addDocument, removeDocument, reindexNode, commit, close and recovery    *)
(* together behave like a map of whole documents.                          *)
ImplementsDocStore == Abstract!Spec

(* No crash, failed addition or restart leaves part of a document behind:  *)
(* neither in a commit nor in the writer once the call has returned.       *)
NoPartialDocument ==
  \A u \in Uris :
    /\ ~Partial(durable, u)
    /\ op = NoOp => ~Partial(writer, u)
=============================================================================
