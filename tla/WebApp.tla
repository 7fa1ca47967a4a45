------------------------------- MODULE WebApp -------------------------------
(***************************************************************************)
(* The servlets and the context they share.  A request of an index looks   *)
(* it up in the table of the context, which opens it the first time,       *)
(* borrows a session, is served and gives the session back.  The container *)
(* closes the context at the end; a request may still be running then, or  *)
(* begin, since nothing but the container keeps it away.                   *)
(*                                                                         *)
(* What opening, closing, lending and returning do inside an index is the  *)
(* matter of SessionPool; here an index is open or not, and holds the      *)
(* write lock of its directory or not.  The compiled RESTXQ module of an   *)
(* index is made under the monitor of the servlet, which is always taken   *)
(* before that of the context and is left out.                             *)
(***************************************************************************)
EXTENDS Integers, Sequences, FiniteSets

CONSTANTS
  Requests,
  Names,      \* the directories of indexes
  None,
  MaxArrivals \* bound on the number of requests

ASSUME WebAppAssumption == MaxArrivals \in Nat /\ None \notin Names \cup Requests

VARIABLES
  table,     \* the number of the index of each name, 0 if there is none
  indexes,   \* the XMLIndex objects made so far
  locked,    \* the names whose write.lock file is locked
  monitor,   \* the request that is in getIndex
  req,       \* what each request is doing
  lent,      \* the indexes and requests of the sessions that are out
  closer,    \* "running", "closing" or "closed"
  todo,      \* the indexes the loop of close has still to visit
  arrived,   \* the number of requests so far
  broken,    \* history: the names whose lock a failed open has kept
  unlucky,   \* history: indexes that were not closed after one failed to, or
             \* that were closed while a session was out
  early      \* history: the indexes in the table when close began

vars == <<table, indexes, locked, monitor, req, lent, closer, todo, arrived,
          broken, unlucky, early>>

Idle == [at |-> "idle", name |-> None, index |-> 0]
Index(i) == indexes[i]
InTable == {table[n] : n \in Names} \ {0}

-----------------------------------------------------------------------------
Arrive(r, n) ==
  /\ req[r] = Idle /\ arrived < MaxArrivals
  /\ arrived' = arrived + 1
  /\ req' = [req EXCEPT ![r] = [Idle EXCEPT !.at = "lookup", !.name = n]]
  /\ UNCHANGED <<table, indexes, locked, monitor, lent, closer, todo, broken,
                 unlucky, early>>

(* getIndex, synchronized: a known index is returned as it is, be it open  *)
(* or closed; the context is not asked whether it is open.                 *)
Looks(r, free) ==
  LET i == table[req[r].name] IN
  /\ req[r].at = "lookup"
  /\ free
  /\ IF i # 0
     THEN /\ req' = [req EXCEPT ![r].at = "acquire", ![r].index = i]
          /\ UNCHANGED <<indexes, monitor>>
     ELSE /\ indexes' = Append(indexes, [name |-> req[r].name, open |-> FALSE])
          /\ monitor' = r
          /\ req' = [req EXCEPT ![r].at = "open", ![r].index = Len(indexes) + 1]
  /\ UNCHANGED <<table, locked, lent, closer, todo, arrived, broken, unlucky,
                 early>>

Look_unsynchronized(r) == Looks(r, TRUE)  \* Slip: no monitor

Look(r) == Looks(r, monitor = None)

(* XMLIndex.open takes the lock of the directory; if the name store fails  *)
(* after that, the lock stays taken and the index is not put in the table. *)
OpenFails(r) ==
  /\ req[r].at = "open"
  /\ \/ UNCHANGED <<locked, broken>>
     \/ /\ req[r].name \notin locked
        /\ locked' = locked \cup {req[r].name}
        /\ broken' = broken \cup {req[r].name}
  /\ monitor' = None
  /\ req' = [req EXCEPT ![r] = Idle]
  /\ UNCHANGED <<table, indexes, lent, closer, todo, arrived, unlucky, early>>

Open(r) ==
  LET n == req[r].name
      i == req[r].index
  IN /\ req[r].at = "open"
     /\ n \notin locked
     /\ locked' = locked \cup {n}
     /\ indexes' = [indexes EXCEPT ![i].open = TRUE]
     /\ table' = [table EXCEPT ![n] = i]
     /\ monitor' = None
     /\ req' = [req EXCEPT ![r].at = "acquire"]
     /\ UNCHANGED <<lent, closer, todo, arrived, broken, unlucky, early>>

(* aquireSession throws if the index is closed, which no servlet catches.  *)
Acquire(r) ==
  LET i == req[r].index IN
  /\ req[r].at = "acquire"
  /\ IF Index(i).open
     THEN /\ lent' = lent \cup {<<i, r>>}
          /\ req' = [req EXCEPT ![r].at = "serve"]
     ELSE req' = [req EXCEPT ![r] = Idle] /\ UNCHANGED lent
  /\ UNCHANGED <<table, indexes, locked, monitor, closer, todo, arrived, broken,
                 unlucky, early>>

(* doService, which may throw; returnSession is in the finally block, and  *)
(* throws itself if the index was closed.                                  *)
Leaves(r, returns) ==
  LET i == req[r].index IN
  /\ req[r].at = "serve"
  /\ lent' = IF returns /\ Index(i).open THEN lent \ {<<i, r>>} ELSE lent
  /\ unlucky' = IF Index(i).open THEN unlucky ELSE unlucky \cup {i}
  /\ req' = [req EXCEPT ![r] = Idle]
  /\ UNCHANGED <<table, indexes, locked, monitor, closer, todo, arrived, broken,
                 early>>

Serve_noFinally(r) ==  \* Slip: the session is not returned on an error
  Leaves(r, TRUE) \/ Leaves(r, FALSE)

Serve(r) == Leaves(r, TRUE)

-----------------------------------------------------------------------------
(* WebContext.close: the values of a ConcurrentHashMap are visited as they *)
(* come; one that is put meanwhile may be seen or not.                     *)
CloseBegin ==
  /\ closer = "running"
  /\ closer' = "closing"
  /\ todo' = InTable
  /\ early' = InTable
  /\ UNCHANGED <<table, indexes, locked, monitor, req, lent, arrived, broken,
                 unlucky>>

CloseSees(i) ==
  /\ closer = "closing" /\ i \in InTable \ (early \cup todo)
  /\ Index(i).open
  /\ todo' = todo \cup {i}
  /\ UNCHANGED <<table, indexes, locked, monitor, req, lent, closer, arrived,
                 broken, unlucky, early>>

ClosesNow(i) ==
  /\ indexes' = [indexes EXCEPT ![i].open = FALSE]
  /\ locked' = IF Index(i).open THEN locked \ {Index(i).name} ELSE locked

Closes(i, now) ==
  /\ closer = "closing" /\ i \in todo
  /\ todo' = todo \ {i}
  /\ IF now THEN ClosesNow(i) ELSE UNCHANGED <<indexes, locked>>
  /\ UNCHANGED <<table, monitor, req, lent, closer, arrived, broken, unlucky,
                 early>>

Close_ifUnused(i) ==  \* Slip: an index with sessions is left alone
  Closes(i, \A l \in lent : l[1] # i)

Close(i) == Closes(i, TRUE)

(* An index that fails to close ends the loop.                             *)
CloseFails ==
  /\ closer = "closing" /\ \E i \in todo : Index(i).open
  /\ unlucky' = unlucky \cup todo
  /\ todo' = {}
  /\ closer' = "closed"
  /\ UNCHANGED <<table, indexes, locked, monitor, req, lent, arrived, broken,
                 early>>

CloseEnd ==
  /\ closer = "closing" /\ todo = {}
  /\ closer' = "closed"
  /\ UNCHANGED <<table, indexes, locked, monitor, req, lent, todo, arrived,
                 broken, unlucky, early>>

-----------------------------------------------------------------------------
Init ==
  /\ table = [n \in Names |-> 0] /\ indexes = <<>>
  /\ locked = {} /\ monitor = None
  /\ req = [r \in Requests |-> Idle] /\ lent = {}
  /\ closer = "running" /\ todo = {}
  /\ arrived = 0 /\ broken = {} /\ unlucky = {} /\ early = {}

Step(r) == Look(r) \/ OpenFails(r) \/ Open(r) \/ Acquire(r) \/ Serve(r)

Next ==
  \/ \E r \in Requests : Step(r) \/ \E n \in Names : Arrive(r, n)
  \/ \E i \in 1 .. Len(indexes) : CloseSees(i) \/ Close(i)
  \/ CloseBegin \/ CloseFails \/ CloseEnd

Spec == Init /\ [][Next]_vars

-----------------------------------------------------------------------------
(* A request that is about to open an index finds its directory unlocked,  *)
(* unless an earlier open has failed half-way: no index of this process is *)
(* open, or waits in the table to be opened again, for a name that getIndex*)
(* makes an index for.                                                     *)
OpensFindNoLock ==
  \A r \in Requests :
    req[r].at = "open" /\ req[r].name \in locked => req[r].name \in broken

(* A session that is out belongs to a request that is being served, unless *)
(* its index was closed before the request was done: then it is lost.      *)
SessionsComeBack ==
  \A l \in lent :
    \/ req[l[2]].at = "serve" /\ req[l[2]].index = l[1]
    \/ l[1] \in unlucky

(* After close the indexes that were in the table when it began are closed,*)
(* unless one of them failed to.  An index that was looked up later may be *)
(* open, and keeps its lock.                                               *)
ClosedAfterClose ==
  closer = "closed" => \A i \in early \ unlucky : ~Index(i).open
=============================================================================
