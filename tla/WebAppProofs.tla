---------------------------- MODULE WebAppProofs ----------------------------
(***************************************************************************)
(* Proofs about WebApp, for any number of requests, indexes and arrivals.  *)
(***************************************************************************)
EXTENDS WebApp, TLAPS

-----------------------------------------------------------------------------
XMLIndex == [name : Names, open : BOOLEAN]
Stages == {"idle", "lookup", "open", "acquire", "serve"}
Req == [at : Stages, name : Names \cup {None}, index : Nat]

TypeOK ==
  /\ indexes \in Seq(XMLIndex)
  /\ table \in [Names -> 0 .. Len(indexes)]
  /\ req \in [Requests -> Req]
  /\ lent \subseteq Nat \X Requests
  /\ early \subseteq 1 .. Len(indexes)
  /\ closer \in {"running", "closing", "closed"}
  /\ \A r \in Requests : req[r].at \in {"lookup", "open"} => req[r].name \in Names

(* The request that opens an index is alone in the monitor, and its index  *)
(* is known to nobody.                                                     *)
OneOpens ==
  \A r \in Requests : req[r].at = "open" =>
    /\ monitor = r
    /\ table[req[r].name] = 0
    /\ req[r].index \in 1 .. Len(indexes)
    /\ req[r].index \notin early
    /\ \A n \in Names : table[n] # req[r].index

(* A lock belongs to an index in the table or to a failed open.            *)
LocksAreKnown ==
  \A n \in locked : n \in broken \/ (n \in Names /\ table[n] # 0)

(* Of the indexes that were there when close began, those it is done with  *)
(* are closed.                                                             *)
EarlyAreClosed ==
  /\ closer # "running" =>
       \A i \in early : i \in todo \cup unlucky \/ ~indexes[i].open
  /\ closer = "closed" => todo = {}

IInv == TypeOK /\ OneOpens /\ LocksAreKnown /\ EarlyAreClosed /\ SessionsComeBack

-----------------------------------------------------------------------------
(* The invariant holds at first.                                           *)
LEMMA InitInv == Init => IInv
<1> SUFFICES ASSUME Init PROVE IInv
  OBVIOUS
<1>1. TypeOK
  BY DEF Init, TypeOK, Req, Stages, Idle
<1> QED
  BY <1>1 DEF Init, IInv, OneOpens, LocksAreKnown, EarlyAreClosed,
     SessionsComeBack, Idle

(* What a step makes of the fields of a request.                           *)
Moved(q, at, i) == [[q EXCEPT !.at = at] EXCEPT !.index = i]

(* A request that moves keeps its name.                                    *)
LEMMA FieldFacts ==
  ASSUME NEW q \in Req, NEW at \in Stages,
         NEW i \in Nat
  PROVE  /\ Moved(q, at, i) \in Req
         /\ Moved(q, at, i).at = at
         /\ Moved(q, at, i).name = q.name
         /\ Moved(q, at, i).index = i
  BY DEF Req, Moved

(* A step of a request changes what that request does and no other one.    *)
LEMMA ReqFacts ==
  ASSUME TypeOK, NEW r \in Requests, NEW q \in Req, req' = [req EXCEPT ![r] = q]
  PROVE  /\ req' \in [Requests -> Req] /\ req'[r] = q
         /\ \A u \in Requests : u # r => req'[u] = req[u]
  BY DEF TypeOK

(* A request that arrives has no session.                                  *)
LEMMA NextArrive ==
  ASSUME IInv, NEW r \in Requests, NEW n \in Names, Arrive(r, n)
  PROVE  IInv'
<1> DEFINE q == [Idle EXCEPT !.at = "lookup", !.name = n]
<1>1. TypeOK /\ req[r] = Idle /\ req' = [req EXCEPT ![r] = q]
      /\ UNCHANGED <<table, indexes, locked, monitor, lent, closer, todo,
                     broken, unlucky, early>>
  BY DEF IInv, Arrive
<1>2. q \in Req /\ q.at = "lookup" /\ q.name = n
  BY DEF Idle, Req, Stages
<1> HIDE DEF q
<1>3. /\ req' \in [Requests -> Req] /\ req'[r] = q
      /\ \A u \in Requests : u # r => req'[u] = req[u]
  BY <1>1, <1>2, ReqFacts
<1>4. TypeOK'
  BY <1>1, <1>2, <1>3 DEF TypeOK
<1>5. OneOpens' /\ LocksAreKnown' /\ EarlyAreClosed'
  BY <1>1, <1>2, <1>3 DEF IInv, TypeOK, OneOpens, LocksAreKnown, EarlyAreClosed
<1>6. SessionsComeBack'
  BY <1>1, <1>2, <1>3 DEF IInv, TypeOK, SessionsComeBack, Idle
<1> QED
  BY <1>4, <1>5, <1>6 DEF IInv

(* The lookup: the monitor is free, so that nobody opens an index; the new *)
(* index has a number that neither the table nor early has.                *)
LEMMA NextLook ==
  ASSUME IInv, NEW r \in Requests, Look(r)
  PROVE  IInv'
<1> DEFINE n == req[r].name
           i == table[n]
<1>1. /\ TypeOK /\ req[r] \in Req /\ req[r].at = "lookup" /\ monitor = None
      /\ UNCHANGED <<table, locked, lent, closer, todo, broken, unlucky, early>>
  BY DEF IInv, Look, Looks, TypeOK
<1>2. n \in Names /\ i \in 0 .. Len(indexes) /\ Len(indexes) \in Nat
  BY <1>1 DEF TypeOK
<1>3. \A u \in Requests : req[u].at # "open"
  BY <1>1, WebAppAssumption DEF IInv, OneOpens
<1>4. CASE i # 0
  <2> DEFINE q == Moved(req[r], "acquire", i)
  <2>1. req' = [req EXCEPT ![r] = q] /\ UNCHANGED <<indexes, monitor>>
    BY <1>1, <1>4 DEF Look, Looks, TypeOK, Moved, Req
  <2>2. q \in Req /\ q.at = "acquire"
    <3>1. req[r] \in Req /\ i \in Nat /\ "acquire" \in Stages
      BY <1>1, <1>2 DEF Stages
    <3> HIDE DEF i
    <3> QED
      BY <3>1, FieldFacts
  <2> HIDE DEF q
  <2>3. /\ req' \in [Requests -> Req] /\ req'[r] = q
        /\ \A u \in Requests : u # r => req'[u] = req[u]
    BY <1>1, <2>1, <2>2, ReqFacts
  <2>4. TypeOK'
    BY <1>1, <2>1, <2>2, <2>3 DEF TypeOK
  <2>5. OneOpens' /\ LocksAreKnown' /\ EarlyAreClosed'
    BY <1>1, <1>3, <2>1, <2>2, <2>3
       DEF IInv, OneOpens, LocksAreKnown, EarlyAreClosed
  <2>6. SessionsComeBack'
    BY <1>1, <2>2, <2>3 DEF IInv, TypeOK, SessionsComeBack
  <2> QED
    BY <2>4, <2>5, <2>6 DEF IInv
<1>5. CASE i = 0
  <2> DEFINE q == Moved(req[r], "open", Len(indexes) + 1)
             x == [name |-> n, open |-> FALSE]
  <2>1. req' = [req EXCEPT ![r] = q] /\ indexes' = Append(indexes, x)
        /\ monitor' = r
    BY <1>1, <1>5 DEF Look, Looks, TypeOK, Moved, Req
  <2>2. /\ q \in Req /\ q.at = "open" /\ q.name = n
        /\ q.index = Len(indexes) + 1 /\ x \in XMLIndex
    <3>1. req[r] \in Req /\ Len(indexes) + 1 \in Nat /\ "open" \in Stages
      BY <1>1, <1>2 DEF Stages
    <3>2. /\ q \in Req /\ q.at = "open" /\ q.name = n
          /\ q.index = Len(indexes) + 1
      BY <3>1, FieldFacts
    <3> QED
      BY <1>2, <3>2 DEF XMLIndex
  <2> HIDE DEF q, x
  <2>3. /\ req' \in [Requests -> Req] /\ req'[r] = q
        /\ \A u \in Requests : u # r => req'[u] = req[u]
    BY <1>1, <2>1, <2>2, ReqFacts
  <2>4. /\ indexes' \in Seq(XMLIndex) /\ Len(indexes') = Len(indexes) + 1
        /\ \A j \in 1 .. Len(indexes) : indexes'[j] = indexes[j]
    BY <1>1, <2>1, <2>2 DEF TypeOK
  <2>5. TypeOK'
    <3>1. /\ table' \in [Names -> 0 .. Len(indexes')]
          /\ early' \subseteq 1 .. Len(indexes')
      BY <1>1, <1>2, <2>4 DEF TypeOK
    <3>2. \A u \in Requests :
            req'[u].at \in {"lookup", "open"} => req'[u].name \in Names
      BY <1>1, <1>2, <2>2, <2>3 DEF TypeOK
    <3> QED
      BY <1>1, <2>3, <2>4, <3>1, <3>2 DEF TypeOK
  <2>6. OneOpens'
    <3> SUFFICES ASSUME NEW u \in Requests, req'[u].at = "open"
                 PROVE  (/\ monitor = u
                         /\ table[req[u].name] = 0
                         /\ req[u].index \in 1 .. Len(indexes)
                         /\ req[u].index \notin early
                         /\ \A m \in Names : table[m] # req[u].index)'
      BY DEF OneOpens
    <3>1. u = r
      BY <1>3, <2>3
    <3>2. \A m \in Names : table[m] <= Len(indexes)
      BY <1>1, <1>2 DEF TypeOK
    <3> QED
      BY <1>1, <1>2, <1>5, <2>1, <2>2, <2>3, <2>4, <3>1, <3>2 DEF TypeOK
  <2>7. LocksAreKnown' /\ EarlyAreClosed'
    BY <1>1, <2>4 DEF IInv, TypeOK, LocksAreKnown, EarlyAreClosed
  <2>8. SessionsComeBack'
    BY <1>1, <2>2, <2>3 DEF IInv, TypeOK, SessionsComeBack
  <2> QED
    BY <2>5, <2>6, <2>7, <2>8 DEF IInv
<1> QED
  BY <1>4, <1>5

(* A failed open leaves the table as it was.                               *)
LEMMA NextOpenFails ==
  ASSUME IInv, NEW r \in Requests, OpenFails(r)
  PROVE  IInv'
<1>1. /\ TypeOK /\ req[r].at = "open" /\ req' = [req EXCEPT ![r] = Idle]
      /\ locked' \subseteq locked \cup broken' /\ broken \subseteq broken'
      /\ UNCHANGED <<table, indexes, lent, closer, todo, unlucky, early>>
  BY DEF IInv, OpenFails
<1>2. Idle \in Req /\ Idle.at = "idle"
  BY DEF Idle, Req, Stages
<1>3. /\ req' \in [Requests -> Req] /\ req'[r] = Idle
      /\ \A u \in Requests : u # r => req'[u] = req[u]
  BY <1>1, <1>2, ReqFacts
<1>4. \A u \in Requests : req'[u].at # "open"
  BY <1>1, <1>2, <1>3 DEF IInv, OneOpens
<1>5. TypeOK'
  BY <1>1, <1>2, <1>3 DEF TypeOK
<1>6. OneOpens'
  BY <1>4 DEF OneOpens
<1>7. LocksAreKnown' /\ EarlyAreClosed'
  BY <1>1 DEF IInv, LocksAreKnown, EarlyAreClosed
<1>8. SessionsComeBack'
  BY <1>1, <1>2, <1>3 DEF IInv, TypeOK, SessionsComeBack
<1> QED
  BY <1>5, <1>6, <1>7, <1>8 DEF IInv

(* An index that has been opened was in nobody's way: it is new, and its   *)
(* lock was free.                                                          *)
LEMMA NextOpen ==
  ASSUME IInv, NEW r \in Requests, Open(r)
  PROVE  IInv'
<1> DEFINE n == req[r].name
           i == req[r].index
           q == Moved(req[r], "acquire", i)
<1>1. /\ TypeOK /\ req[r] \in Req /\ req[r].at = "open" /\ n \in Names
      /\ locked' = locked \cup {n}
      /\ indexes' = [indexes EXCEPT ![i].open = TRUE]
      /\ table' = [table EXCEPT ![n] = i]
      /\ req' = [req EXCEPT ![r].at = "acquire"]
      /\ UNCHANGED <<lent, closer, todo, broken, unlucky, early>>
  BY DEF IInv, Open, TypeOK
<1>2. /\ i \in 1 .. Len(indexes) /\ i \notin early /\ Len(indexes) \in Nat
      /\ \A u \in Requests : req[u].at = "open" => u = r
  BY <1>1 DEF IInv, OneOpens, TypeOK
<1>3. /\ q \in Req /\ q.at = "acquire" /\ req' = [req EXCEPT ![r] = q]
  <2>1. i \in Nat /\ "acquire" \in Stages
    BY <1>1 DEF Req, Stages
  <2>2. q = [req[r] EXCEPT !.at = "acquire"]
    BY <1>1 DEF Req, Moved
  <2>3. q \in Req /\ q.at = "acquire"
    BY <1>1, <2>1, FieldFacts
  <2> QED
    BY <1>1, <2>2, <2>3
<1> HIDE DEF q
<1>4. /\ req' \in [Requests -> Req] /\ req'[r] = q
      /\ \A u \in Requests : u # r => req'[u] = req[u]
  BY <1>1, <1>3, ReqFacts
<1>5. /\ indexes' \in Seq(XMLIndex) /\ Len(indexes') = Len(indexes)
      /\ \A j \in 1 .. Len(indexes) : j # i => indexes'[j] = indexes[j]
  <2>1. indexes[i] \in XMLIndex
    BY <1>1, <1>2 DEF TypeOK
  <2>2. [indexes[i] EXCEPT !.open = TRUE] \in XMLIndex
    BY <2>1 DEF XMLIndex
  <2>3. indexes' = [indexes EXCEPT ![i] = [indexes[i] EXCEPT !.open = TRUE]]
    BY <1>1
  <2> QED
    BY <1>1, <1>2, <2>2, <2>3 DEF TypeOK
<1>6. /\ table' \in [Names -> 0 .. Len(indexes')] /\ table'[n] = i
      /\ \A m \in Names : m # n => table'[m] = table[m]
  BY <1>1, <1>2, <1>5 DEF TypeOK
<1> HIDE DEF n, i
<1>7. TypeOK'
  BY <1>1, <1>3, <1>4, <1>5, <1>6 DEF TypeOK
<1>8. OneOpens'
  BY <1>2, <1>3, <1>4 DEF OneOpens
<1>9. LocksAreKnown'
  BY <1>1, <1>2, <1>6 DEF IInv, LocksAreKnown
<1>10. EarlyAreClosed'
  <2>1. \A j \in early : j \in 1 .. Len(indexes) /\ j # i
    BY <1>1, <1>2 DEF TypeOK
  <2> QED
    BY <1>1, <1>5, <2>1 DEF IInv, EarlyAreClosed
<1>11. SessionsComeBack'
  BY <1>1, <1>3, <1>4 DEF IInv, TypeOK, SessionsComeBack
<1> QED
  BY <1>7, <1>8, <1>9, <1>10, <1>11 DEF IInv

(* A session is lent to a request that is served from then on.             *)
LEMMA NextAcquire ==
  ASSUME IInv, NEW r \in Requests, Acquire(r)
  PROVE  IInv'
<1> DEFINE i == req[r].index
           q == Moved(req[r], "serve", i)
<1>1. /\ TypeOK /\ req[r] \in Req /\ req[r].at = "acquire" /\ i \in Nat
      /\ UNCHANGED <<table, indexes, locked, monitor, closer, todo, broken,
                     unlucky, early>>
  BY DEF IInv, Acquire, TypeOK, Req
<1>2. /\ q \in Req /\ q.at = "serve" /\ q.index = i
      /\ Idle \in Req /\ Idle.at = "idle"
  <2>1. "serve" \in Stages
    BY DEF Stages
  <2>2. q \in Req /\ q.at = "serve" /\ q.index = i
    BY <1>1, <2>1, FieldFacts
  <2> QED
    BY <2>2 DEF Idle, Req, Stages
<1>3. PICK p \in {q, Idle} :
        /\ req' = [req EXCEPT ![r] = p]
        /\ IF p = q THEN lent' = lent \cup {<<i, r>>} ELSE lent' = lent
  <2>1. q = [req[r] EXCEPT !.at = "serve"] /\ Idle # q
    BY <1>1, <1>2 DEF Req, Moved
  <2>2. CASE Index(i).open
    BY <1>1, <2>1, <2>2 DEF Acquire, TypeOK
  <2>3. CASE ~Index(i).open
    BY <1>1, <2>1, <2>3 DEF Acquire
  <2> QED
    BY <2>2, <2>3
<1> HIDE DEF q, i
<1>4. /\ req' \in [Requests -> Req] /\ req'[r] = p
      /\ \A u \in Requests : u # r => req'[u] = req[u]
  BY <1>1, <1>2, <1>3, ReqFacts
<1>5. \A l \in lent' : l \in lent \/ (l = <<i, r>> /\ p = q)
  BY <1>3
<1>6. TypeOK'
  BY <1>1, <1>2, <1>3, <1>4, <1>5 DEF TypeOK
<1>7. OneOpens' /\ LocksAreKnown' /\ EarlyAreClosed'
  BY <1>1, <1>2, <1>4 DEF IInv, OneOpens, LocksAreKnown, EarlyAreClosed
<1>8. SessionsComeBack'
  <2> SUFFICES ASSUME NEW l \in lent'
               PROVE  (req'[l[2]].at = "serve" /\ req'[l[2]].index = l[1])
                      \/ l[1] \in unlucky'
    BY DEF SessionsComeBack
  <2>1. CASE l \in lent
    BY <1>1, <1>4, <2>1 DEF IInv, TypeOK, SessionsComeBack
  <2>2. CASE l = <<i, r>> /\ p = q
    BY <1>2, <1>4, <2>2
  <2> QED
    BY <1>5, <2>1, <2>2
<1> QED
  BY <1>6, <1>7, <1>8 DEF IInv

(* A request that is done has given its session back, or lost it.          *)
LEMMA NextServe ==
  ASSUME IInv, NEW r \in Requests, Serve(r)
  PROVE  IInv'
<1> DEFINE i == req[r].index
<1>1. /\ TypeOK /\ req[r].at = "serve" /\ req' = [req EXCEPT ![r] = Idle]
      /\ lent' \subseteq lent /\ unlucky \subseteq unlucky'
      /\ <<i, r>> \notin lent' \/ i \in unlucky'
      /\ UNCHANGED <<table, indexes, locked, monitor, closer, todo, broken,
                     early>>
  BY DEF IInv, Serve, Leaves
<1>2. Idle \in Req /\ Idle.at = "idle"
  BY DEF Idle, Req, Stages
<1>3. /\ req' \in [Requests -> Req] /\ req'[r] = Idle
      /\ \A u \in Requests : u # r => req'[u] = req[u]
  BY <1>1, <1>2, ReqFacts
<1>4. TypeOK'
  BY <1>1, <1>2, <1>3 DEF TypeOK
<1>5. OneOpens' /\ LocksAreKnown' /\ EarlyAreClosed'
  BY <1>1, <1>2, <1>3 DEF IInv, OneOpens, LocksAreKnown, EarlyAreClosed
<1>6. SessionsComeBack'
  <2> SUFFICES ASSUME NEW l \in lent', l[1] \notin unlucky'
               PROVE  req'[l[2]].at = "serve" /\ req'[l[2]].index = l[1]
    BY DEF SessionsComeBack
  <2>1. /\ l \in lent /\ l[2] \in Requests
        /\ req[l[2]].at = "serve" /\ req[l[2]].index = l[1]
    BY <1>1 DEF IInv, TypeOK, SessionsComeBack
  <2>2. l = <<l[1], l[2]>>
    BY <1>1, <2>1 DEF TypeOK
  <2>3. l[2] # r
    BY <1>1, <2>1, <2>2
  <2> QED
    BY <1>3, <2>1, <2>3
<1> QED
  BY <1>4, <1>5, <1>6 DEF IInv

(* close begins with the indexes of the table: the one that is being       *)
(* opened is not among them.                                               *)
LEMMA NextCloseBegin ==
  ASSUME IInv, CloseBegin
  PROVE  IInv'
<1>1. /\ TypeOK /\ todo' = InTable /\ early' = InTable /\ closer' = "closing"
      /\ UNCHANGED <<table, indexes, locked, monitor, req, lent, broken, unlucky>>
  BY DEF IInv, CloseBegin
<1>2. \A i \in InTable : i \in 1 .. Len(indexes) /\ \E n \in Names : table[n] = i
  BY <1>1 DEF TypeOK, InTable
<1>3. TypeOK'
  BY <1>1, <1>2 DEF TypeOK
<1>4. OneOpens'
  BY <1>1, <1>2 DEF IInv, OneOpens
<1>5. LocksAreKnown' /\ EarlyAreClosed' /\ SessionsComeBack'
  BY <1>1 DEF IInv, LocksAreKnown, EarlyAreClosed, SessionsComeBack
<1> QED
  BY <1>3, <1>4, <1>5 DEF IInv

(* The loop meets an index that was put in the table after it began.       *)
LEMMA NextCloseSees ==
  ASSUME IInv, NEW i \in 1 .. Len(indexes), CloseSees(i)
  PROVE  IInv'
<1>1. /\ closer = "closing" /\ todo' = todo \cup {i}
      /\ UNCHANGED <<table, indexes, locked, monitor, req, lent, closer, broken,
                     unlucky, early>>
  BY DEF CloseSees
<1> QED
  BY <1>1 DEF IInv, TypeOK, OneOpens, LocksAreKnown, EarlyAreClosed,
     SessionsComeBack

(* An index that has been closed stays in the table, and its lock is free. *)
LEMMA NextClose ==
  ASSUME IInv, NEW i \in 1 .. Len(indexes), Close(i)
  PROVE  IInv'
<1>1. /\ TypeOK /\ closer = "closing" /\ todo' = todo \ {i}
      /\ indexes' = [indexes EXCEPT ![i].open = FALSE]
      /\ locked' \subseteq locked
      /\ UNCHANGED <<table, monitor, req, lent, closer, broken, unlucky, early>>
  BY DEF IInv, Close, Closes, ClosesNow
<1>2. /\ indexes' \in Seq(XMLIndex) /\ Len(indexes') = Len(indexes)
      /\ \A j \in 1 .. Len(indexes) : j # i => indexes'[j] = indexes[j]
      /\ ~indexes'[i].open
  <2>1. indexes[i] \in XMLIndex
    BY <1>1 DEF TypeOK
  <2>2. [indexes[i] EXCEPT !.open = FALSE] \in XMLIndex
        /\ ~[indexes[i] EXCEPT !.open = FALSE].open
    BY <2>1 DEF XMLIndex
  <2>3. indexes' = [indexes EXCEPT ![i] = [indexes[i] EXCEPT !.open = FALSE]]
    BY <1>1
  <2> QED
    BY <1>1, <2>2, <2>3 DEF TypeOK
<1>3. TypeOK' /\ OneOpens'
  BY <1>1, <1>2 DEF IInv, TypeOK, OneOpens
<1>4. LocksAreKnown' /\ SessionsComeBack'
  BY <1>1 DEF IInv, LocksAreKnown, SessionsComeBack
<1>5. EarlyAreClosed'
  <2>1. \A j \in early : j \in 1 .. Len(indexes)
    BY <1>1 DEF TypeOK
  <2>2. \A j \in early : j \in todo \cup unlucky \/ ~indexes[j].open
    BY <1>1 DEF IInv, EarlyAreClosed
  <2> QED
    BY <1>1, <1>2, <2>1, <2>2 DEF EarlyAreClosed
<1> QED
  BY <1>3, <1>4, <1>5 DEF IInv

(* The loop ends, early or not.                                            *)
LEMMA NextCloseEnds ==
  ASSUME IInv, CloseFails \/ CloseEnd
  PROVE  IInv'
<1>1. /\ closer = "closing" /\ closer' = "closed" /\ todo' = {}
      /\ unlucky' = unlucky \cup todo
      /\ UNCHANGED <<table, indexes, locked, monitor, req, lent, broken, early>>
  BY DEF CloseFails, CloseEnd
<1> QED
  BY <1>1 DEF IInv, TypeOK, OneOpens, LocksAreKnown, EarlyAreClosed,
     SessionsComeBack

(* A step that changes nothing.                                            *)
LEMMA NextStutter ==
  ASSUME IInv, UNCHANGED vars
  PROVE  IInv'
BY DEF vars, IInv, TypeOK, OneOpens, LocksAreKnown, EarlyAreClosed, SessionsComeBack

(* Every step keeps the invariant.                                         *)
LEMMA NextInv == IInv /\ [Next]_vars => IInv'
<1> SUFFICES ASSUME IInv, [Next]_vars PROVE IInv'
  OBVIOUS
<1>1. CASE \E r \in Requests : Step(r) \/ \E n \in Names : Arrive(r, n)
  <2>1. PICK r \in Requests : Step(r) \/ \E n \in Names : Arrive(r, n)
    BY <1>1
  <2>2. CASE \E n \in Names : Arrive(r, n)
    BY <2>2, NextArrive
  <2>3. CASE Step(r)
    BY <2>3, NextLook, NextOpenFails, NextOpen, NextAcquire, NextServe DEF Step
  <2> QED
    BY <2>1, <2>2, <2>3
<1>2. CASE \E i \in 1 .. Len(indexes) : CloseSees(i) \/ Close(i)
  BY <1>2, NextCloseSees, NextClose
<1>3. CASE CloseBegin \/ CloseFails \/ CloseEnd
  BY <1>3, NextCloseBegin, NextCloseEnds
<1>4. CASE UNCHANGED vars
  BY <1>4, NextStutter
<1> QED
  BY <1>1, <1>2, <1>3, <1>4 DEF Next

-----------------------------------------------------------------------------
(* Whatever requests arrive, and whenever the container closes the context,*)
(* the five parts of the invariant hold.                                   *)
THEOREM Invariant == Spec => []IInv
<1> QED
  BY InitInv, NextInv, PTL DEF Spec

(* getIndex makes an index for a name only if no index of this process     *)
(* holds the lock of its directory, but for what a failed open has left.   *)
THEOREM LockIsFree == Spec => []OpensFindNoLock
<1>1. IInv => OpensFindNoLock
  BY DEF IInv, OneOpens, LocksAreKnown, OpensFindNoLock
<1> QED
  BY <1>1, Invariant, PTL

(* A servlet gives back the session it has borrowed, whatever its service  *)
(* does, unless its index is closed meanwhile.                             *)
THEOREM NoSessionLeaks == Spec => []SessionsComeBack
<1>1. IInv => SessionsComeBack
  BY DEF IInv
<1> QED
  BY <1>1, Invariant, PTL

(* The loop of close leaves open none of the indexes it began with, but for*)
(* those that come after one that fails.                                   *)
THEOREM CloseCloses == Spec => []ClosedAfterClose
<1>1. IInv => ClosedAfterClose
  BY DEF IInv, EarlyAreClosed, ClosedAfterClose, Index
<1> QED
  BY <1>1, Invariant, PTL
=============================================================================
