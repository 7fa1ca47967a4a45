------------------------------ MODULE DocStore ------------------------------
(***************************************************************************)
(* What an index promises to a caller that makes one call at a time: a map *)
(* from URIs to whole documents.  Adding a document removes the old one at *)
(* the start of the call, and the new one appears at once, whole; nothing  *)
(* else makes a document appear, change or disappear.  A stop loses what   *)
(* was not committed.                                                      *)
(*                                                                         *)
(* A document is the number of the call that added it, 0 for none.         *)
(***************************************************************************)
EXTENDS Integers

CONSTANT Uris

VARIABLES up, docs, committed, calls

vars == <<up, docs, committed, calls>>

Init ==
  /\ up = FALSE
  /\ docs = [u \in Uris |-> 0]
  /\ committed = docs
  /\ calls = 0

(* A call: an addition or a removal takes the document away, a commit      *)
(* makes the present documents durable, any other changes nothing.         *)
Call ==
  /\ up
  /\ calls' = calls + 1
  /\ \/ /\ \E u \in Uris : docs' = [docs EXCEPT ![u] = 0]
        /\ UNCHANGED committed
     \/ committed' = docs /\ UNCHANGED docs
     \/ UNCHANGED <<docs, committed>>
  /\ UNCHANGED up

(* The document of a call made before appears; it is newer than all that   *)
(* was ever stored.                                                        *)
Appear(u, v) ==
  /\ up
  /\ docs[u] = 0
  /\ \A w \in Uris : docs[w] < v /\ committed[w] < v
  /\ v <= calls
  /\ docs' = [docs EXCEPT ![u] = v]
  /\ UNCHANGED <<up, committed, calls>>

Start == ~up /\ up' = TRUE /\ UNCHANGED <<docs, committed, calls>>

(* An orderly stop commits first, a crash does not.                        *)
Stop ==
  /\ up
  /\ up' = FALSE
  /\ committed' \in {committed, docs}
  /\ docs' = committed'
  /\ UNCHANGED calls

Next ==
  \/ Call
  \/ \E u \in Uris : \E v \in 1 .. calls : Appear(u, v)
  \/ Start
  \/ Stop

Spec == Init /\ [][Next]_vars
=============================================================================
