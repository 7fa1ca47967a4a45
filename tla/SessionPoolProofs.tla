------------------------- MODULE SessionPoolProofs -------------------------
(***************************************************************************)
(* Proofs about SessionPool, for any number of threads, sessions, writes,  *)
(* openings of the index and sessions that are returned twice.             *)
(***************************************************************************)
EXTENDS SessionPool, FiniteSetTheorems, TLAPS

-----------------------------------------------------------------------------
SessionRec == [made : BOOLEAN, open : BOOLEAN, searcher : Nat, counted : BOOLEAN]
ThreadRec == [at : Places, session : Sessions \cup {None}, due : Nat,
              last : Sessions \cup {None}]
RefreshRec == [by : Threads \cup {Reopener, None}, shows : Nat]

(* The types of what Lucene keeps, and of what sessions and threads keep.  *)
LuceneOK ==
  /\ written \in Nat /\ promised \in Nat
  /\ content \in Seq(Nat)
  /\ refs \in Seq(Nat) /\ Len(refs) = Len(content)
  /\ managers \in Seq(Nat)
  /\ \A g \in 1 .. Len(managers) : managers[g] \in Searchers
  /\ refresh \in RefreshRec

UsersOK ==
  /\ sess \in [Sessions -> SessionRec]
  /\ thread \in [Threads -> ThreadRec]
  /\ twice \subseteq Sessions /\ stolen \subseteq twice

(* Nothing goes on before the index is opened for the first time.          *)
Started ==
  managers = <<>> =>
    /\ ~isOpen /\ ~writer /\ stage = "idle" /\ refresh.by = None
    /\ \A t \in Threads : thread[t].at = "idle"

(* What a thread at some place has, and what an open session has.          *)
PlacesOK ==
  /\ \A t \in Threads :
       /\ thread[t].due <= written
       /\ IF thread[t].at \in {"idle", "aquiring"}
          THEN thread[t].session = None /\ thread[t].due = 0
          ELSE thread[t].session \in Sessions
       /\ thread[t].at = "returningAgain" =>
            thread[t].session \in twice /\ thread[t].due = 0
       /\ refresh.by = t => thread[t].at \in {"refresh", "tryRefresh"}
  /\ \A s \in Sessions :
       sess[s].open \/ sess[s].counted \/ sess[s].searcher # 0 =>
         sess[s].searcher \in Searchers

(* No searcher shows more than the current one; what a finished commit, a  *)
(* commit on its way and a refresh on its way promise is in order.         *)
ShowsOK ==
  /\ promised <= written /\ refresh.shows <= written
  /\ \A x \in Searchers : content[x] <= written
  /\ managers # <<>> =>
       /\ \A x \in Searchers : content[x] <= content[Current]
       /\ promised <= content[Current]
       /\ refresh.by # None => content[Current] <= refresh.shows
       /\ \A t \in Threads :
            /\ thread[t].at \in {"release", "acquire"} =>
                 thread[t].due <= content[Current]
            /\ thread[t].at = "refresh" /\ refresh.by = t =>
                 thread[t].due <= refresh.shows

(* A session holds a reference if it is open, but for the moment in which  *)
(* its thread exchanges the searcher.                                      *)
CountedOK ==
  stolen = {} =>
    /\ \A s \in Sessions :
         IF sess[s].open
         THEN sess[s].counted \/
              \E t \in Threads : Has(t, s) /\ thread[t].at = "acquire"
         ELSE ~sess[s].counted
    /\ \A t \in Threads : thread[t].at = "acquire" =>
         ~sess[thread[t].session].counted

Shape == LuceneOK /\ UsersOK /\ Started /\ PlacesOK
IInv == Shape /\ ShowsOK /\ LeaseExclusive /\ CountedOK /\ CountsExact

(* The numbers up to the next one.                                         *)
LEMMA OneMore ==
  ASSUME NEW n \in Nat
  PROVE  1 .. (n + 1) = (1 .. n) \cup {n + 1}
OBVIOUS

-----------------------------------------------------------------------------
(* What a step makes of the thread that takes it.                          *)
LEMMA GoesFacts ==
  ASSUME UsersOK, NEW t \in Threads, NEW place \in Places, Goes(t, place)
  PROVE  /\ thread' \in [Threads -> ThreadRec]
         /\ thread'[t].at = place /\ thread'[t].session = thread[t].session
         /\ thread'[t].due = thread[t].due
         /\ \A u \in Threads : u # t => thread'[u] = thread[u]
<1>1. thread[t] \in ThreadRec
  BY DEF UsersOK
<1>2. [thread[t] EXCEPT !.at = place] \in ThreadRec
  BY <1>1 DEF ThreadRec
<1>3. thread' = [thread EXCEPT ![t] = [thread[t] EXCEPT !.at = place]]
  BY DEF Goes
<1> QED
  BY <1>1, <1>2, <1>3 DEF UsersOK, ThreadRec

(* The same if what it is due changes as well.                             *)
LEMMA GoesDueFacts ==
  ASSUME UsersOK, NEW t \in Threads, NEW place \in Places, NEW n \in Nat,
         thread' = [thread EXCEPT ![t].at = place, ![t].due = n]
  PROVE  /\ thread' \in [Threads -> ThreadRec]
         /\ thread'[t].at = place /\ thread'[t].session = thread[t].session
         /\ thread'[t].due = n
         /\ \A u \in Threads : u # t => thread'[u] = thread[u]
<1> DEFINE q == [[thread[t] EXCEPT !.at = place] EXCEPT !.due = n]
<1>1. thread[t] \in ThreadRec
  BY DEF UsersOK
<1>2. /\ q \in ThreadRec /\ q.at = place /\ q.session = thread[t].session
      /\ q.due = n
  BY <1>1 DEF ThreadRec
<1>3. thread' = [thread EXCEPT ![t] = q]
  BY DEF UsersOK
<1> HIDE DEF q
<1> QED
  BY <1>2, <1>3 DEF UsersOK

(* The same if it has no session any more.                                 *)
LEMMA IdleFacts ==
  ASSUME UsersOK, NEW t \in Threads, NEW x \in Sessions \cup {None},
         thread' = [thread EXCEPT ![t] = Idle(x)]
  PROVE  /\ thread' \in [Threads -> ThreadRec]
         /\ thread'[t].at = "idle" /\ thread'[t].session = None
         /\ thread'[t].due = 0
         /\ \A u \in Threads : u # t => thread'[u] = thread[u]
<1>1. /\ Idle(x) \in ThreadRec /\ Idle(x).at = "idle"
      /\ Idle(x).session = None /\ Idle(x).due = 0
  BY DEF Idle, ThreadRec, Places
<1> QED
  BY <1>1 DEF UsersOK

-----------------------------------------------------------------------------
(* The three sets of references to a searcher are finite.                  *)
Count(x) == Cardinality(Readers(x)) + Cardinality(Managing(x))
              + Cardinality(Refreshing(x))

(* These sets have cardinalities that are natural numbers.                 *)
LEMMA CountFacts ==
  ASSUME Shape, NEW x
  PROVE  /\ IsFiniteSet(Readers(x)) /\ Cardinality(Readers(x)) \in Nat
         /\ IsFiniteSet(Managing(x)) /\ Cardinality(Managing(x)) \in Nat
         /\ IsFiniteSet(Refreshing(x)) /\ Cardinality(Refreshing(x)) \in Nat
<1>1. IsFiniteSet(Readers(x))
  BY FS_Subset, PoolAssumption DEF Readers
<1>2. IsFiniteSet(Managing(x))
  <2>1. Len(managers) \in Nat
    BY DEF Shape, LuceneOK
  <2>2. IsFiniteSet(1 .. Len(managers))
    BY <2>1, FS_Interval
  <2> QED
    BY <2>2, FS_Subset DEF Managing
<1>3. IsFiniteSet(Refreshing(x))
  <2>1. IsFiniteSet({refresh.by})
    BY FS_Singleton
  <2> QED
    BY <2>1, FS_Subset DEF Refreshing
<1> QED
  BY <1>1, <1>2, <1>3, FS_CardinalityType

(* There is a current searcher once the index was opened.                  *)
LEMMA CurrentFacts ==
  ASSUME LuceneOK, managers # <<>>
  PROVE  Len(managers) \in Nat \ {0} /\ Current \in Searchers
<1>1. Len(managers) \in Nat /\ Len(managers) # 0
  BY DEF LuceneOK
<1> QED
  BY <1>1 DEF LuceneOK, Current

(* A count that is replaced.                                               *)
LEMMA RefsFacts ==
  ASSUME LuceneOK, NEW y \in Searchers, NEW n \in Nat
  PROVE  /\ [refs EXCEPT ![y] = n] \in Seq(Nat)
         /\ Len([refs EXCEPT ![y] = n]) = Len(content)
         /\ [refs EXCEPT ![y] = n][y] = n
         /\ \A x \in Searchers : x # y => [refs EXCEPT ![y] = n][x] = refs[x]
         /\ \A x \in Searchers : refs[x] \in Nat
BY DEF LuceneOK, Searchers

(* The counts stay exact if nothing is added, taken or dropped.            *)
LEMMA SameCounts ==
  ASSUME CountsExact, UNCHANGED <<luceneVars, sess>>, stolen \subseteq stolen'
  PROVE  CountsExact'
BY DEF CountsExact, luceneVars, Readers, Managing, Refreshing, Current, Searchers

(* A session begins to read the current searcher.                          *)
LEMMA TakenCounts ==
  ASSUME Shape, CountsExact, NEW s \in Sessions,
         managers # <<>>, UNCHANGED <<managers, content, refresh>>,
         stolen' = {} => stolen = {} /\ ~sess[s].counted,
         refs' = [refs EXCEPT ![Current] = @ + 1],
         sess' \in [Sessions -> SessionRec],
         sess'[s].counted, sess'[s].searcher = Current,
         \A r \in Sessions : r # s =>
           sess'[r].counted = sess[r].counted /\ sess'[r].searcher = sess[r].searcher
  PROVE  CountsExact'
<1> SUFFICES ASSUME stolen' = {}, NEW x \in Searchers
             PROVE  refs'[x] = (Cardinality(Readers(x)) + Cardinality(Managing(x))
                                  + Cardinality(Refreshing(x)))'
  BY DEF CountsExact, Searchers
<1>1. refs[x] = Cardinality(Readers(x)) + Cardinality(Managing(x))
                  + Cardinality(Refreshing(x))
  BY DEF CountsExact
<1>2. /\ Managing(x)' = Managing(x) /\ Refreshing(x)' = Refreshing(x)
  BY DEF Managing, Refreshing, Current
<1>3. s \notin Readers(x)
  BY DEF Readers
<1>4. /\ refs'[Current] = refs[Current] + 1
      /\ x # Current => refs'[x] = refs[x]
  <2>1. LuceneOK /\ Current \in Searchers
    BY CurrentFacts DEF Shape
  <2>2. refs[Current] + 1 \in Nat
    BY <2>1, RefsFacts
  <2> QED
    BY <2>1, <2>2, RefsFacts
<1>5. CASE x = Current
  <2>1. Readers(x)' = Readers(x) \cup {s}
    BY <1>5 DEF Readers
  <2>2. Cardinality(Readers(x)') = Cardinality(Readers(x)) + 1
    BY <2>1, <1>3, CountFacts, FS_AddElement
  <2> QED
    BY <1>1, <1>2, <1>4, <1>5, <2>2, CountFacts
<1>6. CASE x # Current
  <2>1. Readers(x)' = Readers(x)
    BY <1>3, <1>6 DEF Readers
  <2> QED
    BY <1>1, <1>2, <1>4, <1>6, <2>1
<1> QED
  BY <1>5, <1>6

(* A session ceases to read its searcher.                                  *)
LEMMA ReleasedCounts ==
  ASSUME Shape, CountsExact, NEW s \in Sessions, sess[s].searcher \in Searchers,
         UNCHANGED <<managers, content, refresh>>,
         stolen' = {} => stolen = {} /\ sess[s].counted,
         Releases(sess[s].searcher),
         sess' \in [Sessions -> SessionRec],
         ~sess'[s].counted,
         \A r \in Sessions : r # s =>
           sess'[r].counted = sess[r].counted /\ sess'[r].searcher = sess[r].searcher
  PROVE  CountsExact'
<1> DEFINE y == sess[s].searcher
<1> SUFFICES ASSUME stolen' = {}, NEW x \in Searchers
             PROVE  refs'[x] = (Cardinality(Readers(x)) + Cardinality(Managing(x))
                                  + Cardinality(Refreshing(x)))'
  BY DEF CountsExact, Searchers
<1>1. refs[x] = Cardinality(Readers(x)) + Cardinality(Managing(x))
                  + Cardinality(Refreshing(x))
  BY DEF CountsExact
<1>2. /\ Managing(x)' = Managing(x) /\ Refreshing(x)' = Refreshing(x)
  BY DEF Managing, Refreshing, Current
<1>3. /\ refs'[y] = refs[y] - 1
      /\ x # y => refs'[x] = refs[x]
  BY DEF Shape, LuceneOK, Searchers, Releases
<1>4. CASE x = y
  <2>1. Readers(x)' = Readers(x) \ {s} /\ s \in Readers(x)
    BY <1>4 DEF Readers
  <2>2. Cardinality(Readers(x)') = Cardinality(Readers(x)) - 1
    BY ZenonT(60), <2>1, CountFacts, FS_RemoveElement
  <2> QED
    BY <1>1, <1>2, <1>3, <1>4, <2>2, CountFacts
<1>5. CASE x # y
  <2>1. Readers(x)' = Readers(x)
    BY <1>5 DEF Readers
  <2> QED
    BY <1>1, <1>2, <1>3, <1>5, <2>1
<1> QED
  BY <1>4, <1>5

(* A refresh begins, and holds a reference.                                *)
LEMMA BegunCounts ==
  ASSUME Shape, CountsExact, NEW r \in Threads \cup {Reopener}, Begins(r),
         UNCHANGED <<managers, content, sess, stolen>>
  PROVE  CountsExact' /\ managers # <<>>
<1>1. managers # <<>>
  BY DEF Shape, Started, Begins
<1> SUFFICES ASSUME stolen = {}, NEW x \in Searchers
             PROVE  refs'[x] = (Cardinality(Readers(x)) + Cardinality(Managing(x))
                                  + Cardinality(Refreshing(x)))'
  BY <1>1 DEF CountsExact, Searchers
<1>2. refs[x] = Cardinality(Readers(x)) + Cardinality(Managing(x))
                  + Cardinality(Refreshing(x))
  BY DEF CountsExact
<1>3. /\ Managing(x)' = Managing(x) /\ Readers(x)' = Readers(x)
  BY DEF Managing, Readers
<1>4. LuceneOK /\ Current \in Searchers /\ refs[Current] \in Nat
  BY <1>1, CurrentFacts, RefsFacts DEF Shape
<1>5. /\ refs'[Current] = refs[Current] + 1
      /\ x # Current => refs'[x] = refs[x]
  <2>1. refs[Current] + 1 \in Nat
    BY <1>4
  <2> QED
    BY <1>4, <2>1, RefsFacts DEF Begins
<1>6. refresh.by = None /\ refresh'.by = r /\ r # None /\ Current' = Current
  BY PoolAssumption DEF Begins, NoRefresh, Current
<1>7. Refreshing(x) = {} /\ Refreshing(x)' = IF x = Current THEN {r} ELSE {}
  BY <1>6 DEF Refreshing
<1> QED
  BY <1>2, <1>3, <1>5, <1>7, FS_EmptySet, FS_Singleton, CountFacts

(* A refresh ends: it drops its own reference, and that of the manager if  *)
(* there is a new searcher.                                                *)
LEMMA EndedCounts ==
  ASSUME Shape, CountsExact, NEW r \in Threads \cup {Reopener}, Ends(r),
         UNCHANGED <<sess, stolen>>
  PROVE  /\ CountsExact' /\ managers # <<>>
         /\ stolen = {} => refs[Current] >= Dropped
<1>1. /\ managers # <<>> /\ refresh.by = r /\ r # None /\ refresh'.by = None
  BY PoolAssumption DEF Shape, Started, Ends, NoRefresh
<1> SUFFICES ASSUME stolen = {}
             PROVE  CountsExact' /\ refs[Current] >= Dropped
  BY <1>1 DEF CountsExact
<1>2. LuceneOK /\ Current \in Searchers /\ Len(managers) \in Nat \ {0}
      /\ \A x \in Searchers : refs[x] \in Nat
  BY <1>1, CurrentFacts, RefsFacts DEF Shape
<1>3. PICK c \in Searchers, m \in 1 .. Len(managers) :
        c = Current /\ m = Len(managers) /\ managers[m] = c
  BY <1>2 DEF Current
<1>4. \A x \in Searchers :
        /\ refs[x] = Cardinality(Readers(x)) + Cardinality(Managing(x))
                       + Cardinality(Refreshing(x))
        /\ Cardinality(Readers(x)) \in Nat /\ Cardinality(Managing(x)) \in Nat
  BY CountFacts DEF CountsExact
<1>5. /\ Cardinality(Refreshing(c)) = 1
      /\ \A x \in Searchers : x # c => Cardinality(Refreshing(x)) = 0
      /\ \A x \in Searchers' : Cardinality(Refreshing(x)') = 0
  <2>1. Refreshing(c) = {r}
    BY <1>1, <1>3 DEF Refreshing
  <2>2. \A x \in Searchers : x # c => Refreshing(x) = {}
    BY <1>1, <1>3 DEF Refreshing
  <2>3. \A x \in Searchers' : Refreshing(x)' = {}
    BY <1>1 DEF Refreshing
  <2> QED
    BY <2>1, <2>2, <2>3, FS_Singleton, FS_EmptySet
<1>6. /\ m \in Managing(c)
      /\ Cardinality(Managing(c) \ {m}) = Cardinality(Managing(c)) - 1
      /\ Cardinality(Managing(c)) >= 1
  <2>1. m \in Managing(c)
    BY <1>3 DEF Managing
  <2>2. /\ Cardinality(Managing(c) \ {m}) = Cardinality(Managing(c)) - 1
        /\ Cardinality(Managing(c) \ {m}) \in Nat
    BY <2>1, CountFacts, FS_RemoveElement, FS_CardinalityType
  <2> QED
    BY <2>1, <2>2, CountFacts
<1>7. refs[c] >= 2 /\ refs[Current] >= Dropped
      /\ AfterDrop = refs[c] - Dropped /\ AfterDrop \in Nat
  <2>1. refs[c] = Cardinality(Readers(c)) + Cardinality(Managing(c)) + 1
    BY <1>4, <1>5
  <2>2. refs[c] >= 2
    BY <1>4, <1>6, <2>1
  <2> QED
    BY <1>2, <1>3, <2>2 DEF AfterDrop, Dropped
<1>8. \A x : Readers(x)' = Readers(x)
  BY DEF Readers
<1>9. CASE Changed
  <2>1. PICK y \in Nat : y = Len(content) + 1
    BY <1>2 DEF LuceneOK
  <2>2. PICK f : f = [refs EXCEPT ![c] = AfterDrop]
    OBVIOUS
  <2>3. /\ content' = Append(content, refresh.shows)
        /\ managers' = [managers EXCEPT ![m] = y]
        /\ refs' = Append(f, 1)
        /\ AfterDrop = refs[c] - 2
    BY <1>3, <1>7, <1>9, <2>1, <2>2 DEF Ends, Dropped
  <2>4. /\ f \in Seq(Nat) /\ Len(f) = Len(content) /\ Len(content) \in Nat
        /\ f[c] = refs[c] - 2
        /\ \A x \in Searchers : x # c => f[x] = refs[x]
    BY SMTT(30), <1>2, <1>7, <2>2, <2>3, RefsFacts DEF LuceneOK
  <2>5. /\ Searchers' = Searchers \cup {y} /\ y \notin Searchers
        /\ refs'[y] = 1 /\ \A x \in Searchers : refs'[x] = f[x]
    <3>1. Len(content') = Len(content) + 1
      BY <1>2, <2>3 DEF LuceneOK
    <3>2. Searchers' = Searchers \cup {y} /\ y \notin Searchers
      BY <2>1, <2>4, <3>1 DEF Searchers
    <3>3. refs'[y] = 1 /\ \A x \in Searchers : refs'[x] = f[x]
      <4>1. y = Len(f) + 1 /\ Searchers = 1 .. Len(f)
        BY <2>1, <2>4 DEF Searchers
      <4>2. /\ Append(f, 1)[Len(f) + 1] = 1
            /\ \A x \in 1 .. Len(f) : Append(f, 1)[x] = f[x]
        BY <2>4
      <4> QED
        BY <2>3, <4>1, <4>2
    <3> QED
      BY <3>2, <3>3
  <2>6. /\ Len(managers') = Len(managers)
        /\ managers'[m] = y
        /\ \A g \in 1 .. Len(managers) : g # m => managers'[g] = managers[g]
    BY SMTT(30), <1>2, <1>3, <2>3 DEF LuceneOK
  <2>7. /\ \A x \in Searchers' : x = y => Managing(x)' = {m}
        /\ \A x \in Searchers : x = c => Managing(x)' = Managing(x) \ {m}
        /\ \A x \in Searchers : x # c => Managing(x)' = Managing(x)
    <3>1. \A g \in 1 .. Len(managers) : managers[g] # y
      BY <1>2, <2>5 DEF LuceneOK
    <3>2. \A x \in Searchers' : x = y => Managing(x)' = {m}
      BY <1>3, <2>6, <3>1 DEF Managing
    <3>3. \A x \in Searchers : Managing(x)' = Managing(x) \ {m}
      BY <1>3, <2>5, <2>6 DEF Managing
    <3>4. \A x \in Searchers : x # c => m \notin Managing(x)
      BY <1>3 DEF Managing
    <3> QED
      BY <3>2, <3>3, <3>4
  <2>8. \A x \in Searchers' : x = y => Readers(x) = {}
    BY <2>5 DEF Shape, PlacesOK, Readers
  <2>9. ASSUME NEW x \in Searchers'
        PROVE  refs'[x] = Cardinality(Readers(x)') + Cardinality(Managing(x)')
                            + Cardinality(Refreshing(x)')
    <3>1. CASE x = y
      <4>1. Readers(x)' = {} /\ Managing(x)' = {m} /\ refs'[x] = 1
        BY <1>8, <2>5, <2>7, <2>8, <3>1
      <4>2. /\ Cardinality(Readers(x)') = 0 /\ Cardinality(Managing(x)') = 1
            /\ Cardinality(Refreshing(x)') = 0
        BY <1>5, <4>1, FS_EmptySet, FS_Singleton
      <4> QED
        BY <4>1, <4>2
    <3>2. CASE x = c
      <4>1. x \in Searchers /\ refs'[x] = refs[x] - 2
        BY <2>4, <2>5, <3>2
      <4>2. Readers(x)' = Readers(x) /\ Managing(x)' = Managing(x) \ {m}
        BY <1>8, <2>7, <3>2, <4>1
      <4>3. Cardinality(Managing(x) \ {m}) = Cardinality(Managing(x)) - 1
        BY <1>6, <3>2
      <4>4. Cardinality(Refreshing(x)) = 1 /\ Cardinality(Refreshing(x)') = 0
        BY <1>5, <3>2
      <4> QED
        BY <1>4, <4>1, <4>2, <4>3, <4>4
    <3>3. CASE x \in Searchers /\ x # c
      BY <1>4, <1>5, <1>8, <2>4, <2>5, <2>7, <3>3
    <3> QED
      BY <2>5, <3>1, <3>2, <3>3
  <2> QED
    BY <1>7, <2>9 DEF CountsExact
<1>10. CASE ~Changed
  <2>1. /\ UNCHANGED <<managers, content>>
        /\ refs' = [refs EXCEPT ![c] = refs[c] - 1]
        /\ refs[c] - 1 \in Nat
    BY <1>2, <1>3, <1>7, <1>10 DEF Ends, Dropped
  <2>2. \A x \in Searchers : refs'[x] = IF x = c THEN refs[x] - 1 ELSE refs[x]
    BY SMTT(30), <1>2, <2>1, RefsFacts
  <2>3. \A x : Managing(x)' = Managing(x)
    BY <2>1 DEF Managing
  <2>4. Searchers' = Searchers
    BY <2>1 DEF Searchers
  <2>5. ASSUME NEW x \in Searchers'
        PROVE  refs'[x] = Cardinality(Readers(x)') + Cardinality(Managing(x)')
                            + Cardinality(Refreshing(x)')
    BY <1>4, <1>5, <1>8, <2>2, <2>3, <2>4
  <2> QED
    BY <1>7, <2>5 DEF CountsExact
<1> QED
  BY <1>9, <1>10

(* A new node store has a manager and a searcher of its own.               *)
LEMMA OpenedCounts ==
  ASSUME Shape, CountsExact, OpenStore
  PROVE  CountsExact'
<1> SUFFICES ASSUME stolen = {} PROVE CountsExact'
  BY DEF CountsExact, OpenStore, NewStore, poolVars
<1>1. /\ LuceneOK /\ UNCHANGED <<sess, refresh, stolen>> /\ refresh.by = None
  BY DEF Shape, OpenStore, NewStore, NoRefresh, poolVars
<1>2. PICK y \in Nat, n \in Nat : y = Len(content) + 1 /\ n = Len(managers)
  BY <1>1 DEF LuceneOK
<1>3. /\ content' = Append(content, written) /\ managers' = Append(managers, y)
      /\ refs' = Append(refs, 1)
  BY <1>2 DEF OpenStore, NewStore
<1>4. Len(content') = y /\ Len(managers') = n + 1
      /\ y = Len(refs) + 1 /\ Searchers = 1 .. Len(refs)
  BY <1>1, <1>2, <1>3 DEF LuceneOK, Searchers
<1>5. /\ Searchers' = Searchers \cup {y} /\ y \notin Searchers
      /\ refs'[y] = 1 /\ \A x \in Searchers : refs'[x] = refs[x]
  <2>1. Searchers' = Searchers \cup {y} /\ y \notin Searchers
    BY <1>2, <1>4 DEF Searchers
  <2>2. /\ Append(refs, 1)[Len(refs) + 1] = 1
        /\ \A x \in 1 .. Len(refs) : Append(refs, 1)[x] = refs[x]
    BY <1>1 DEF LuceneOK
  <2> QED
    BY <1>3, <1>4, <2>1, <2>2
<1>6. managers'[n + 1] = y /\ \A g \in 1 .. n : managers'[g] = managers[g]
  BY <1>1, <1>2, <1>3 DEF LuceneOK
<1>7. \A g \in 1 .. n : managers[g] \in Searchers
  BY <1>1, <1>2 DEF LuceneOK
<1>8. \A x : Readers(x)' = Readers(x) /\ Refreshing(x) = {} /\ Refreshing(x)' = {}
  BY <1>1 DEF Readers, Refreshing
<1>9. /\ \A x \in Searchers' : x = y => Managing(x)' = {n + 1}
      /\ \A x \in Searchers : Managing(x)' = Managing(x)
  <2>1. 1 .. Len(managers') = (1 .. n) \cup {n + 1}
    BY <1>2, <1>4
  <2>2. \A x : Managing(x)' = {g \in (1 .. n) \cup {n + 1} : managers'[g] = x}
    BY <2>1 DEF Managing
  <2>3. \A x \in Searchers' : x = y => Managing(x)' = {n + 1}
    BY <1>5, <1>6, <1>7, <2>2
  <2>4. \A x \in Searchers : Managing(x)' = {g \in 1 .. n : managers[g] = x}
    BY <1>5, <1>6, <2>2
  <2> QED
    BY <1>2, <2>3, <2>4 DEF Managing
<1>10. \A x \in Searchers' : x = y => Readers(x) = {}
  BY <1>5 DEF Shape, PlacesOK, Readers
<1>11. ASSUME NEW x \in Searchers'
       PROVE  refs'[x] = Cardinality(Readers(x)') + Cardinality(Managing(x)')
                           + Cardinality(Refreshing(x)')
  <2>1. CASE x = y
    <3>1. /\ Readers(x)' = {} /\ Managing(x)' = {n + 1} /\ refs'[x] = 1
          /\ Refreshing(x)' = {}
      BY <1>5, <1>8, <1>9, <1>10, <2>1
    <3>2. /\ Cardinality(Readers(x)') = 0 /\ Cardinality(Managing(x)') = 1
          /\ Cardinality(Refreshing(x)') = 0
      BY <3>1, FS_EmptySet, FS_Singleton
    <3> QED
      BY <3>1, <3>2
  <2>2. CASE x \in Searchers
    <3>1. /\ Readers(x)' = Readers(x) /\ Managing(x)' = Managing(x)
          /\ Refreshing(x)' = Refreshing(x) /\ refs'[x] = refs[x]
      BY <1>5, <1>8, <1>9, <2>2
    <3>2. refs[x] = Cardinality(Readers(x)) + Cardinality(Managing(x))
                      + Cardinality(Refreshing(x))
      BY <2>2 DEF CountsExact
    <3> QED
      BY <3>1, <3>2
  <2> QED
    BY <1>5, <2>1, <2>2
<1> QED
  BY <1>11 DEF CountsExact

-----------------------------------------------------------------------------
(* The invariant holds at first.                                           *)
LEMMA InitInv == Init => IInv
<1> SUFFICES ASSUME Init PROVE IInv
  OBVIOUS
<1>1. thread \in [Threads -> ThreadRec]
      /\ \A t \in Threads : /\ thread[t].at = "idle" /\ thread[t].session = None
                             /\ thread[t].due = 0
  BY DEF Init, Idle, ThreadRec, Places
<1>2. sess \in [Sessions -> SessionRec]
      /\ \A s \in Sessions : /\ ~sess[s].open /\ ~sess[s].counted
                              /\ sess[s].searcher = 0
  BY DEF Init, SessionRec
<1>3. refresh \in RefreshRec /\ refresh.by = None /\ refresh.shows = 0
  BY DEF Init, NoRefresh, RefreshRec
<1>4. Searchers = {}
  BY DEF Init, Searchers
<1>5. LuceneOK
  BY <1>3 DEF Init, LuceneOK
<1>6. UsersOK /\ Started
  BY <1>1, <1>2, <1>3 DEF Init, UsersOK, Started
<1>7. PlacesOK
  BY <1>1, <1>2, <1>3, PoolAssumption DEF Init, PlacesOK
<1>8. ShowsOK /\ CountsExact
  BY <1>3, <1>4 DEF Init, ShowsOK, CountsExact
<1>9. LeaseExclusive /\ CountedOK
  BY <1>1, <1>2, PoolAssumption DEF LeaseExclusive, CountedOK, Has
<1> QED
  BY <1>5, <1>6, <1>7, <1>8, <1>9 DEF IInv, Shape

(* The steps of opening and closing that do not reach Lucene's searchers.  *)
LEMMA NextLife ==
  ASSUME IInv, OpenNames \/ OpenFails \/ CloseStore \/ CloseNames \/ CloseFails
  PROVE  IInv'
<1>1. UNCHANGED <<luceneVars, written, poolVars, sess, thread, promised>>
  BY DEF OpenNames, OpenFails, CloseStore, CloseNames, CloseFails
<1>2. Started'
  BY <1>1 DEF IInv, Shape, Started, luceneVars,
     OpenNames, OpenFails, CloseStore, CloseNames, CloseFails
<1>3. LuceneOK' /\ UsersOK' /\ PlacesOK'
  BY <1>1 DEF IInv, Shape, LuceneOK, UsersOK, PlacesOK, Searchers, luceneVars,
     poolVars
<1>4. ShowsOK' /\ LeaseExclusive' /\ CountedOK'
  BY <1>1 DEF IInv, ShowsOK, LeaseExclusive, CountedOK, Searchers, Current, Has,
     luceneVars, poolVars
<1>5. CountsExact'
  BY <1>1, SameCounts DEF IInv, poolVars
<1> QED
  BY <1>2, <1>3, <1>4, <1>5 DEF IInv, Shape

(* A new node store shows all that is written, and no refresh is under way.*)
LEMMA NextOpenStore ==
  ASSUME IInv, OpenStore
  PROVE  IInv'
<1>1. /\ Shape /\ LuceneOK /\ refresh.by = None
      /\ content' = Append(content, written) /\ refs' = Append(refs, 1)
      /\ managers' = Append(managers, Len(content) + 1)
      /\ UNCHANGED <<refresh, written, poolVars, sess, thread, promised>>
  BY DEF IInv, Shape, OpenStore, NewStore, NoRefresh
<1>2. PICK y \in Nat, n \in Nat : y = Len(content) + 1 /\ n = Len(managers)
  BY <1>1 DEF LuceneOK
<1>3. /\ content' \in Seq(Nat) /\ Len(content') = y /\ content'[y] = written
      /\ \A x \in Searchers : content'[x] = content[x]
      /\ managers' \in Seq(Nat) /\ Len(managers') = n + 1 /\ managers'[n + 1] = y
      /\ \A g \in 1 .. n : managers'[g] = managers[g]
      /\ refs' \in Seq(Nat) /\ Len(refs') = y
  BY <1>1, <1>2 DEF LuceneOK, Searchers
<1>4. Searchers' = Searchers \cup {y} /\ y \notin Searchers
  BY SMTT(30), <1>2, <1>3 DEF Searchers
<1>5. managers' # <<>> /\ Current' = y
  BY <1>2, <1>3 DEF Current
<1>6. LuceneOK'
  BY <1>1, <1>2, <1>3, <1>4 DEF LuceneOK
<1>7. UsersOK' /\ Started' /\ PlacesOK'
  BY <1>1, <1>4, <1>5 DEF Shape, UsersOK, Started, PlacesOK, poolVars
<1>8. ShowsOK'
  <2>1. content'[Current'] = written /\ written \in Nat
    BY <1>1, <1>3, <1>5 DEF LuceneOK
  <2>2. \A x \in Searchers' : content'[x] <= written
    BY <1>3, <1>4, <2>1 DEF IInv, ShowsOK
  <2>3. /\ promised <= written /\ refresh.shows <= written
        /\ \A t \in Threads : thread[t].due <= written /\ refresh.by # t
    BY <1>1, PoolAssumption DEF IInv, Shape, ShowsOK, PlacesOK
  <2> QED
    BY <1>1, <2>1, <2>2, <2>3 DEF ShowsOK
<1>9. LeaseExclusive' /\ CountedOK'
  BY <1>1 DEF IInv, LeaseExclusive, CountedOK, Has, poolVars
<1>10. CountsExact'
  BY OpenedCounts DEF IInv
<1> QED
  BY <1>6, <1>7, <1>8, <1>9, <1>10 DEF IInv, Shape

-----------------------------------------------------------------------------
(* What is written is shown by no searcher at first.                       *)
LEMMA NextWrite ==
  ASSUME IInv, NEW t \in Threads, Write(t)
  PROVE  IInv'
<1>1. /\ written' = written + 1 /\ written \in Nat
      /\ UNCHANGED <<lifeVars, luceneVars, poolVars, sess, thread, promised>>
  BY DEF IInv, Shape, LuceneOK, Write
<1>2. Shape'
  <2>1. LuceneOK' /\ UsersOK' /\ Started'
    BY <1>1 DEF IInv, Shape, LuceneOK, UsersOK, Started, Searchers, lifeVars,
       luceneVars, poolVars
  <2>2. \A u \in Threads : thread[u].due \in Nat /\ thread[u].due <= written'
    BY <1>1 DEF IInv, Shape, UsersOK, PlacesOK, ThreadRec
  <2>3. PlacesOK'
    BY <1>1, <2>2 DEF IInv, Shape, PlacesOK, Searchers, luceneVars, poolVars
  <2> QED
    BY <2>1, <2>3 DEF Shape
<1>3. ShowsOK'
  <2>1. promised <= written' /\ refresh.shows <= written'
        /\ \A x \in Searchers : content[x] <= written'
    BY <1>1 DEF IInv, Shape, LuceneOK, ShowsOK, RefreshRec, Searchers
  <2> QED
    BY <1>1, <2>1 DEF IInv, ShowsOK, Searchers, Current, luceneVars
<1>4. LeaseExclusive' /\ CountedOK'
  BY <1>1 DEF IInv, LeaseExclusive, CountedOK, Has, poolVars
<1>5. CountsExact'
  BY <1>1, SameCounts DEF IInv, poolVars
<1> QED
  BY <1>2, <1>3, <1>4, <1>5 DEF IInv

(* A refresh begins, of the reopen thread or of a commit.                  *)
LEMMA Begun ==
  ASSUME IInv, NEW r \in Threads \cup {Reopener}, Begins(r),
         r \in Threads => thread[r].at \in {"refresh", "tryRefresh"},
         UNCHANGED <<lifeVars, managers, content, written, poolVars, sess, thread,
                     promised>>
  PROVE  IInv'
<1>1. CountsExact' /\ managers # <<>>
  BY BegunCounts DEF IInv, poolVars
<1>2. /\ LuceneOK /\ Current \in Searchers /\ refs[Current] + 1 \in Nat
      /\ written \in Nat
  BY <1>1, CurrentFacts, RefsFacts DEF IInv, Shape, LuceneOK
<1>3. /\ refresh'.by = r /\ refresh'.shows = written /\ refresh' \in RefreshRec
      /\ refs' \in Seq(Nat) /\ Len(refs') = Len(content)
  <2>1. refresh' \in RefreshRec
    BY <1>2 DEF Begins, RefreshRec
  <2> QED
    BY <1>2, <2>1, RefsFacts DEF Begins
<1>4. LuceneOK' /\ UsersOK' /\ Started'
  BY <1>1, <1>2, <1>3 DEF IInv, Shape, LuceneOK, UsersOK, Started, Searchers,
     poolVars
<1>5. PlacesOK'
  BY <1>3 DEF IInv, Shape, PlacesOK, Searchers, poolVars
<1>6. ShowsOK'
  BY <1>1, <1>2, <1>3 DEF IInv, Shape, PlacesOK, ShowsOK, Searchers, Current
<1>7. LeaseExclusive' /\ CountedOK'
  BY DEF IInv, LeaseExclusive, CountedOK, Has, poolVars
<1> QED
  BY <1>1, <1>4, <1>5, <1>6, <1>7 DEF IInv, Shape

(* At the end of a refresh the current searcher shows what it promised.    *)
LEMMA EndedShows ==
  ASSUME IInv, NEW r \in Threads \cup {Reopener}, Ends(r), UNCHANGED written
  PROVE  /\ LuceneOK' \/ promised' \notin Nat
         /\ managers # <<>> /\ managers' # <<>>
         /\ Searchers \subseteq Searchers'
         /\ \A x \in Searchers : content'[x] = content[x]
         /\ \A x \in Searchers' : content'[x] <= refresh.shows
         /\ content'[Current'] = refresh.shows
         /\ refresh'.by = None /\ refresh'.shows = 0
<1>1. /\ managers # <<>> /\ refresh.by = r /\ r # None
      /\ refresh' = NoRefresh
  BY PoolAssumption DEF IInv, Shape, Started, Ends
<1>2. /\ LuceneOK /\ Current \in Searchers /\ Len(managers) \in Nat \ {0}
      /\ refresh.shows \in Nat /\ refs[Current] \in Nat
  BY <1>1, CurrentFacts, RefsFacts DEF IInv, Shape, LuceneOK, RefreshRec
<1>3. /\ content[Current] <= refresh.shows
      /\ \A x \in Searchers : content[x] \in Nat /\ content[x] <= refresh.shows
  <2>1. \A x \in Searchers : content[x] \in Nat
    BY SMTT(30), <1>2 DEF LuceneOK, Searchers
  <2> QED
    BY <1>1, <1>2, <2>1 DEF IInv, ShowsOK
<1>4. refresh' \in RefreshRec /\ refresh'.by = None /\ refresh'.shows = 0
  BY <1>1 DEF NoRefresh, RefreshRec
<1>5. AfterDrop \in Nat
  BY <1>2 DEF AfterDrop, Dropped
<1>6. CASE Changed
  <2> DEFINE f == [refs EXCEPT ![Current] = AfterDrop]
  <2>1. PICK y \in Nat : y = Len(content) + 1
    BY <1>2 DEF LuceneOK
  <2>2. /\ content' = Append(content, refresh.shows)
        /\ managers' = [managers EXCEPT ![Len(managers)] = y]
        /\ refs' = Append(f, 1)
    BY <1>6, <2>1 DEF Ends
  <2>3. f \in Seq(Nat) /\ Len(f) = Len(content)
    BY <1>2, <1>5, RefsFacts
  <2> HIDE DEF f
  <2>4. refs' \in Seq(Nat) /\ Len(refs') = y
    BY <2>1, <2>2, <2>3
  <2>5. /\ content' \in Seq(Nat) /\ Len(content') = y /\ content'[y] = refresh.shows
        /\ \A x \in Searchers : content'[x] = content[x]
    BY <1>2, <2>1, <2>2 DEF LuceneOK, Searchers
  <2>6. Searchers' = Searchers \cup {y}
    <3>1. Len(content) \in Nat
      BY <1>2 DEF LuceneOK
    <3>2. 1 .. y = (1 .. Len(content)) \cup {y}
      BY ONLY <2>1, <3>1, OneMore
    <3>3. Searchers' = 1 .. y
      BY ONLY <2>5 DEF Searchers
    <3> QED
      BY ONLY <3>2, <3>3 DEF Searchers
  <2>7. /\ managers' \in Seq(Nat) /\ Len(managers') = Len(managers)
        /\ managers'[Len(managers)] = y
        /\ \A g \in 1 .. Len(managers) : managers'[g] \in Searchers'
    BY SMTT(30), <1>2, <2>1, <2>2, <2>6 DEF LuceneOK
  <2>8. Current' = y /\ managers' # <<>>
    BY <1>2, <2>7 DEF Current
  <2>9. LuceneOK' \/ promised' \notin Nat
    BY <1>2, <1>4, <2>4, <2>5, <2>7 DEF LuceneOK
  <2>10. \A x \in Searchers' : content'[x] <= refresh.shows
    BY <1>2, <1>3, <2>5, <2>6
  <2> QED
    BY <1>1, <1>4, <2>5, <2>6, <2>8, <2>9, <2>10
<1>7. CASE ~Changed
  <2>1. /\ UNCHANGED <<managers, content>>
        /\ refs' = [refs EXCEPT ![Current] = AfterDrop]
        /\ content[Current] = refresh.shows
    BY <1>7 DEF Ends, Changed
  <2>2. LuceneOK' \/ promised' \notin Nat
    BY <1>2, <1>4, <1>5, <2>1, RefsFacts DEF LuceneOK, Searchers
  <2>3. Searchers' = Searchers /\ Current' = Current
    BY <2>1 DEF Searchers, Current
  <2> QED
    BY <1>1, <1>3, <1>4, <2>1, <2>2, <2>3
<1> QED
  BY <1>6, <1>7

(* A refresh ends: a commit goes on, with what it was asked to show.       *)
LEMMA Ended ==
  ASSUME IInv, NEW r \in Threads \cup {Reopener}, Ends(r),
         UNCHANGED <<lifeVars, written, poolVars, sess, promised>>,
         r = Reopener => UNCHANGED thread,
         thread' \in [Threads -> ThreadRec],
         \A u \in Threads : u # r => thread'[u] = thread[u],
         r \in Threads =>
           /\ thread'[r].session = thread[r].session
           /\ thread'[r].due \in {thread[r].due, 0}
           /\ \/ thread'[r].at = "using"
              \/ thread'[r].at = "release" /\ thread[r].at = "refresh"
  PROVE  IInv'
<1>1. /\ LuceneOK' /\ managers # <<>> /\ managers' # <<>>
      /\ Searchers \subseteq Searchers'
      /\ \A x \in Searchers' : content'[x] <= refresh.shows
      /\ content'[Current'] = refresh.shows
      /\ refresh'.by = None /\ refresh'.shows = 0
  BY EndedShows DEF IInv, Shape, LuceneOK
<1>2. /\ refresh.by = r /\ r # None /\ written \in Nat /\ refresh.shows \in Nat
      /\ \A u \in Threads : thread[u].due \in Nat
  BY PoolAssumption DEF IInv, Shape, Ends, LuceneOK, RefreshRec, UsersOK, ThreadRec
<1>3. r \in Threads => thread[r].at \in {"refresh", "tryRefresh"}
  BY <1>2 DEF IInv, Shape, PlacesOK
<1>9. content[Current] \in Nat
  <2>1. LuceneOK /\ Current \in Searchers
    BY <1>1, CurrentFacts DEF IInv, Shape
  <2> QED
    BY <2>1 DEF LuceneOK, Searchers
<1>4. UsersOK' /\ Started'
  BY <1>1 DEF IInv, Shape, UsersOK, Started, poolVars
<1>5. PlacesOK'
  <2> SUFFICES ASSUME NEW u \in Threads
               PROVE  (/\ thread[u].due <= written
                       /\ IF thread[u].at \in {"idle", "aquiring"}
                          THEN thread[u].session = None /\ thread[u].due = 0
                          ELSE thread[u].session \in Sessions
                       /\ thread[u].at = "returningAgain" =>
                            thread[u].session \in twice /\ thread[u].due = 0
                       /\ refresh.by = u =>
                            thread[u].at \in {"refresh", "tryRefresh"})'
    BY <1>1 DEF IInv, Shape, PlacesOK
  <2>1. CASE u # r
    BY <1>1, <2>1, PoolAssumption DEF IInv, Shape, PlacesOK, poolVars
  <2>2. CASE u = r
    BY <1>1, <1>2, <1>3, <2>2, PoolAssumption DEF IInv, Shape, PlacesOK
  <2> QED
    BY <2>1, <2>2
<1>6. ShowsOK'
  <2>1. promised <= refresh.shows /\ refresh.shows <= written
    <3>1. promised \in Nat /\ promised <= content[Current]
          /\ content[Current] <= refresh.shows /\ refresh.shows <= written
      BY <1>1, <1>2 DEF IInv, Shape, LuceneOK, ShowsOK
    <3> QED
      BY <1>2, <1>9, <3>1
  <2>2. \A u \in Threads : thread'[u].at \in {"release", "acquire"} =>
          thread'[u].due <= refresh.shows
    <3> SUFFICES ASSUME NEW u \in Threads,
                        thread'[u].at \in {"release", "acquire"}
                 PROVE  thread'[u].due <= refresh.shows
      OBVIOUS
    <3>1. CASE u = r
      BY <1>1, <1>2, <3>1 DEF IInv, ShowsOK
    <3>2. CASE u # r
      <4>1. thread[u].due <= content[Current] /\ content[Current] <= refresh.shows
        BY <1>1, <1>2, <3>2 DEF IInv, ShowsOK
      <4> QED
        BY <1>2, <1>9, <3>2, <4>1
    <3> QED
      BY <3>1, <3>2
  <2>3. \A x \in Searchers' : content'[x] \in Nat
    BY <1>1 DEF LuceneOK, Searchers
  <2>4. /\ promised' <= written' /\ refresh'.shows <= written'
        /\ \A x \in Searchers' : content'[x] <= written'
    BY SMTT(30), <1>1, <1>2, <2>1, <2>3 DEF IInv, Shape, LuceneOK
  <2>5. /\ promised' <= content'[Current']
        /\ \A x \in Searchers' : content'[x] <= content'[Current']
    BY <1>1, <2>1
  <2>6. \A u \in Threads : refresh'.by # u
    BY <1>1, PoolAssumption
  <2> QED
    BY <1>1, <2>2, <2>4, <2>5, <2>6 DEF ShowsOK
<1>7. LeaseExclusive' /\ CountedOK'
  <2>1. \A u \in Threads : thread'[u].session = thread[u].session
    BY PoolAssumption
  <2>2. \A u \in Threads, s \in Sessions : Has(u, s)' <=> Has(u, s)
    BY <1>3, <2>1 DEF Has
  <2>3. \A u \in Threads : thread'[u].at = "acquire" <=> thread[u].at = "acquire"
    BY <1>3
  <2>4. LeaseExclusive'
    BY <2>2 DEF IInv, LeaseExclusive, poolVars
  <2> QED
    BY <2>1, <2>2, <2>3, <2>4 DEF IInv, CountedOK, poolVars
<1>8. CountsExact'
  BY EndedCounts DEF IInv, poolVars
<1> QED
  BY <1>1, <1>4, <1>5, <1>6, <1>7, <1>8 DEF IInv, Shape

-----------------------------------------------------------------------------
(* A thread moves on, and touches neither a session nor a searcher.        *)
LEMMA ThreadMoves ==
  ASSUME IInv, NEW t \in Threads,
         UNCHANGED <<lifeVars, luceneVars, written, sess, promised, stolen>>,
         twice \subseteq twice', twice' \subseteq Sessions,
         thread' \in [Threads -> ThreadRec],
         \A u \in Threads : u # t => thread'[u] = thread[u],
         refresh.by # t, thread[t].at # "idle" \/ isOpen,
         thread[t].at = "acquire" => stolen # {},
         thread'[t].at \notin {"release", "acquire"},
         thread'[t].due <= written,
         IF thread'[t].at \in {"idle", "aquiring"}
         THEN thread'[t].session = None /\ thread'[t].due = 0
         ELSE thread'[t].session \in Sessions,
         thread'[t].at = "returningAgain" =>
           thread'[t].session \in twice' /\ thread'[t].due = 0,
         \A s \in Sessions : Has(t, s)' => Has(t, s)
  PROVE  IInv'
<1>1. managers # <<>>
  BY DEF IInv, Shape, Started
<1>2. LuceneOK' /\ UsersOK' /\ Started'
  BY <1>1 DEF IInv, Shape, LuceneOK, UsersOK, Started, Searchers, luceneVars
<1>3. PlacesOK'
  <2> SUFFICES ASSUME NEW u \in Threads
               PROVE  (/\ thread[u].due <= written
                       /\ IF thread[u].at \in {"idle", "aquiring"}
                          THEN thread[u].session = None /\ thread[u].due = 0
                          ELSE thread[u].session \in Sessions
                       /\ thread[u].at = "returningAgain" =>
                            thread[u].session \in twice /\ thread[u].due = 0
                       /\ refresh.by = u =>
                            thread[u].at \in {"refresh", "tryRefresh"})'
    BY DEF IInv, Shape, PlacesOK, Searchers, luceneVars
  <2>1. CASE u # t
    BY <2>1 DEF IInv, Shape, PlacesOK, luceneVars
  <2>2. CASE u = t
    BY <2>2 DEF luceneVars
  <2> QED
    BY <2>1, <2>2
<1>4. ShowsOK'
  BY DEF IInv, ShowsOK, Searchers, Current, luceneVars
<1>5. \A u \in Threads, s \in Sessions : Has(u, s)' => Has(u, s)
  BY DEF Has
<1>6. LeaseExclusive'
  BY <1>5 DEF IInv, LeaseExclusive
<1>7. CountedOK'
  <2> SUFFICES ASSUME stolen = {} PROVE CountedOK'
    BY DEF CountedOK
  <2>1. \A u \in Threads : thread[u].at = "acquire" => thread'[u] = thread[u]
    OBVIOUS
  <2>2. \A u \in Threads : thread'[u].at = "acquire" => thread[u] = thread'[u]
    OBVIOUS
  <2> QED
    BY <2>1, <2>2 DEF IInv, CountedOK, Has
<1>8. CountsExact'
  BY SameCounts DEF IInv
<1> QED
  BY <1>2, <1>3, <1>4, <1>6, <1>7, <1>8 DEF IInv, Shape

(* commit is called: commit(true) will show what is written now.           *)
LEMMA NextCommitStart ==
  ASSUME IInv, NEW t \in Threads, CommitStart(t)
  PROVE  IInv'
<1>1. PICK place \in {"refresh", "tryRefresh"}, n \in {written, thread[t].due} :
        Commits(t, place, n)
  BY DEF CommitStart
<1>2. /\ UsersOK /\ thread[t].at = "using" /\ thread[t].session \in Sessions
      /\ n \in Nat /\ n <= written /\ refresh.by # t /\ place \in Places
  <2>1. thread[t].at = "using" /\ thread[t] \in ThreadRec /\ UsersOK
    BY <1>1 DEF IInv, Shape, UsersOK, Commits
  <2>2. thread[t].due \in Nat /\ thread[t].due <= written /\ written \in Nat
    BY <2>1 DEF IInv, Shape, LuceneOK, PlacesOK, ThreadRec
  <2> QED
    BY <1>1, <2>1, <2>2 DEF IInv, Shape, PlacesOK, Places
<1>3. /\ thread' = [thread EXCEPT ![t].at = place, ![t].due = n]
      /\ UNCHANGED <<lifeVars, luceneVars, written, poolVars, sess, promised>>
  BY <1>1 DEF Commits
<1>4. /\ thread' \in [Threads -> ThreadRec]
      /\ thread'[t].at = place /\ thread'[t].session = thread[t].session
      /\ thread'[t].due = n
      /\ \A u \in Threads : u # t => thread'[u] = thread[u]
  BY <1>2, <1>3, GoesDueFacts
<1>5. \A s \in Sessions : Has(t, s)' => Has(t, s)
  BY <1>2, <1>4 DEF Has
<1> QED
  BY <1>1, <1>2, <1>3, <1>4, <1>5, ThreadMoves DEF poolVars, IInv, Shape, UsersOK

(* The steps of a commit that fails, or that has nothing to wait for.      *)
LEMMA NextCommitSkips ==
  ASSUME IInv, NEW t \in Threads, CommitSkips(t)
  PROVE  IInv'
<1>1. /\ UsersOK /\ thread[t].at = "tryRefresh" /\ thread[t].session \in Sessions
      /\ thread[t].due <= written /\ refresh.by # t /\ "using" \in Places
      /\ Goes(t, "using")
      /\ UNCHANGED <<lifeVars, luceneVars, written, poolVars, sess, promised>>
  BY DEF IInv, Shape, PlacesOK, CommitSkips, Places
<1>2. /\ thread' \in [Threads -> ThreadRec]
      /\ thread'[t].at = "using" /\ thread'[t].session = thread[t].session
      /\ thread'[t].due = thread[t].due
      /\ \A u \in Threads : u # t => thread'[u] = thread[u]
  BY <1>1, GoesFacts
<1>3. \A s \in Sessions : Has(t, s)' => Has(t, s)
  BY <1>1, <1>2 DEF Has
<1> QED
  BY <1>1, <1>2, <1>3, ThreadMoves DEF poolVars, IInv, Shape, UsersOK

(* The refresh of a commit ends.                                           *)
LEMMA NextCommitEnds ==
  ASSUME IInv, NEW t \in Threads, CommitEnds(t)
  PROVE  IInv'
<1> DEFINE place == IF thread[t].at = "refresh" THEN "release" ELSE "using"
<1>1. /\ UsersOK /\ place \in Places /\ Goes(t, place) /\ Ends(t)
      /\ UNCHANGED <<lifeVars, written, poolVars, sess, promised>>
  BY DEF IInv, Shape, CommitEnds, Places
<1>2. /\ thread' \in [Threads -> ThreadRec]
      /\ thread'[t].at = place /\ thread'[t].session = thread[t].session
      /\ thread'[t].due = thread[t].due
      /\ \A u \in Threads : u # t => thread'[u] = thread[u]
  BY <1>1, GoesFacts
<1> QED
  BY <1>1, <1>2, Ended, PoolAssumption

(* The refresh of a commit throws.                                         *)
LEMMA NextCommitThrows ==
  ASSUME IInv, NEW t \in Threads, CommitThrows(t)
  PROVE  IInv'
<1>1. /\ UsersOK /\ thread[t].at \in {"refresh", "tryRefresh"}
      /\ thread[t].session \in Sessions /\ "using" \in Places /\ 0 \in Nat
      /\ thread' = [thread EXCEPT ![t].at = "using", ![t].due = 0]
      /\ UNCHANGED <<lifeVars, written, poolVars, sess, promised>>
      /\ 0 <= written
  <2>1. /\ thread[t].at \in {"refresh", "tryRefresh"}
        /\ thread' = [thread EXCEPT ![t].at = "using", ![t].due = 0]
        /\ UNCHANGED <<lifeVars, written, poolVars, sess, promised>>
    BY DEF CommitThrows
  <2>2. UsersOK /\ "using" \in Places /\ 0 \in Nat /\ 0 <= written
    BY DEF IInv, Shape, LuceneOK, Places
  <2>3. thread[t].session \in Sessions
    BY <2>1 DEF IInv, Shape, PlacesOK
  <2> QED
    BY <2>1, <2>2, <2>3
<1>2. /\ thread' \in [Threads -> ThreadRec]
      /\ thread'[t].at = "using" /\ thread'[t].session = thread[t].session
      /\ thread'[t].due = 0
      /\ \A u \in Threads : u # t => thread'[u] = thread[u]
  BY <1>1, GoesDueFacts
<1>3. CASE refresh.by # t /\ UNCHANGED luceneVars
  <2>1. \A s \in Sessions : Has(t, s)' => Has(t, s)
    BY <1>1, <1>2 DEF Has
  <2> QED
    BY <1>1, <1>2, <1>3, <2>1, ThreadMoves DEF poolVars, IInv, Shape, UsersOK
<1>4. CASE Ends(t)
  BY <1>1, <1>2, <1>4, Ended, PoolAssumption
<1> QED
  BY <1>3, <1>4 DEF CommitThrows

(* The exchange of the searcher throws only after a session was closed     *)
(* under its user.                                                         *)
LEMMA NextSwitchThrows ==
  ASSUME IInv, NEW t \in Threads, SwitchThrows(t)
  PROVE  IInv'
<1>1. /\ UsersOK /\ thread[t].at \in {"release", "acquire"}
      /\ thread[t].session \in Sessions /\ "using" \in Places /\ 0 \in Nat
      /\ thread' = [thread EXCEPT ![t].at = "using", ![t].due = 0]
      /\ UNCHANGED <<lifeVars, luceneVars, written, poolVars, sess, promised>>
      /\ 0 <= written /\ refresh.by # t /\ managers # <<>>
  <2>1. /\ thread[t].at \in {"release", "acquire"}
        /\ thread' = [thread EXCEPT ![t].at = "using", ![t].due = 0]
        /\ UNCHANGED <<lifeVars, luceneVars, written, poolVars, sess, promised>>
    BY DEF SwitchThrows
  <2>2. UsersOK /\ "using" \in Places /\ 0 \in Nat /\ 0 <= written
    BY DEF IInv, Shape, LuceneOK, Places
  <2>3. thread[t].session \in Sessions /\ refresh.by # t
    BY <2>1 DEF IInv, Shape, PlacesOK
  <2>4. managers # <<>>
    BY <2>1 DEF IInv, Shape, Started
  <2> QED
    BY <2>1, <2>2, <2>3, <2>4
<1>2. /\ thread' \in [Threads -> ThreadRec]
      /\ thread'[t].at = "using" /\ thread'[t].session = thread[t].session
      /\ thread'[t].due = 0
      /\ \A u \in Threads : u # t => thread'[u] = thread[u]
  BY <1>1, GoesDueFacts
<1>3. thread[t].at = "acquire" => stolen # {}
  <2> SUFFICES ASSUME stolen = {}, refs[Current] = 0 PROVE FALSE
    BY DEF SwitchThrows
  <2>1. PICK c \in Searchers : c = Current
    BY <1>1, CurrentFacts DEF IInv, Shape
  <2>2. Len(managers) \in Managing(c)
    BY <1>1, <2>1, CurrentFacts DEF IInv, Shape, Managing, Current
  <2>3. Cardinality(Managing(c)) # 0
    BY <2>2, CountFacts, FS_EmptySet DEF IInv
  <2>4. refs[c] = Cardinality(Readers(c)) + Cardinality(Managing(c))
                    + Cardinality(Refreshing(c))
    BY DEF IInv, CountsExact
  <2> QED
    BY <2>1, <2>3, <2>4, CountFacts DEF IInv
<1>4. \A s \in Sessions : Has(t, s)' => Has(t, s)
  BY <1>1, <1>2 DEF Has
<1> QED
  BY <1>1, <1>2, <1>3, <1>4, ThreadMoves DEF poolVars, IInv, Shape, UsersOK

(* A thread takes the monitor to acquire a session.                        *)
LEMMA NextAquireCheck ==
  ASSUME IInv, NEW t \in Threads, AquireCheck(t)
  PROVE  IInv'
<1>1. /\ UsersOK /\ thread[t].at = "idle" /\ isOpen
      /\ "aquiring" \in Places /\ Goes(t, "aquiring")
      /\ UNCHANGED <<lifeVars, luceneVars, written, twice, stolen, sess, promised>>
  BY DEF IInv, Shape, AquireCheck, Places
<1>2. thread[t].session = None /\ thread[t].due = 0 /\ refresh.by # t
      /\ 0 <= written /\ twice \subseteq Sessions
  BY <1>1 DEF IInv, Shape, LuceneOK, UsersOK, PlacesOK
<1>3. /\ thread' \in [Threads -> ThreadRec]
      /\ thread'[t].at = "aquiring" /\ thread'[t].session = thread[t].session
      /\ thread'[t].due = thread[t].due
      /\ \A u \in Threads : u # t => thread'[u] = thread[u]
  BY <1>1, GoesFacts
<1>4. \A s \in Sessions : Has(t, s)' => Has(t, s)
  BY <1>2, <1>3, PoolAssumption DEF Has
<1> QED
  BY <1>1, <1>2, <1>3, <1>4, ThreadMoves

(* A thread calls returnSession.                                           *)
LEMMA NextReturn ==
  ASSUME IInv, NEW t \in Threads, Return(t) \/ ReturnCheck(t)
  PROVE  IInv'
<1>1. PICK place \in {"leaving", "returning"} :
        /\ UsersOK /\ thread[t].at \in {"using", "leaving"}
        /\ place \in Places /\ Goes(t, place)
        /\ UNCHANGED <<lifeVars, luceneVars, written, twice, stolen, sess, promised>>
  BY DEF IInv, Shape, Return, ReturnCheck, Places, poolVars
<1>2. thread[t].session \in Sessions /\ refresh.by # t
      /\ thread[t].due <= written /\ twice \subseteq Sessions
  BY <1>1 DEF IInv, Shape, UsersOK, PlacesOK
<1>3. /\ thread' \in [Threads -> ThreadRec]
      /\ thread'[t].at = place /\ thread'[t].session = thread[t].session
      /\ thread'[t].due = thread[t].due
      /\ \A u \in Threads : u # t => thread'[u] = thread[u]
  BY <1>1, GoesFacts
<1>4. \A s \in Sessions : Has(t, s)' => Has(t, s)
  BY <1>1, <1>3 DEF Has
<1> QED
  BY <1>1, <1>2, <1>3, <1>4, ThreadMoves

(* The thread of a second return does not have the session.                *)
LEMMA NextReturnAgain ==
  ASSUME IInv, NEW t \in Threads, ReturnAgain(t)
  PROVE  IInv'
<1> DEFINE s == thread[t].last
           q == [[thread[t] EXCEPT !.at = "returningAgain"] EXCEPT !.session = s]
<1>1. /\ thread[t].at = "idle" /\ s # None /\ isOpen
      /\ twice' = twice \cup {s}
      /\ UNCHANGED <<lifeVars, luceneVars, written, stolen, sess, promised>>
  BY DEF ReturnAgain
<1>2. /\ thread[t] \in ThreadRec /\ s \in Sessions /\ twice \subseteq Sessions
      /\ thread[t].due = 0 /\ refresh.by # t /\ 0 <= written
  BY <1>1 DEF IInv, Shape, LuceneOK, UsersOK, PlacesOK, ThreadRec
<1>3. /\ q \in ThreadRec /\ q.at = "returningAgain" /\ q.session = s /\ q.due = 0
  BY <1>2 DEF ThreadRec, Places
<1>4. thread' = [thread EXCEPT ![t] = q]
  BY DEF IInv, Shape, UsersOK, ReturnAgain
<1> HIDE DEF q
<1>5. /\ thread' \in [Threads -> ThreadRec] /\ thread'[t] = q
      /\ \A u \in Threads : u # t => thread'[u] = thread[u]
  BY <1>3, <1>4 DEF IInv, Shape, UsersOK
<1>6. \A x \in Sessions : Has(t, x)' => Has(t, x)
  BY <1>3, <1>5 DEF Has
<1> QED
  BY <1>1, <1>2, <1>3, <1>5, <1>6, ThreadMoves

(* The session of a failed return is lost.                                 *)
LEMMA NextReturnThrows ==
  ASSUME IInv, NEW t \in Threads, ReturnThrows(t)
  PROVE  IInv'
<1>1. /\ thread[t].at \in {"leaving", "returning", "returningAgain"}
      /\ thread' = [thread EXCEPT ![t] = Idle(None)]
      /\ UNCHANGED <<lifeVars, luceneVars, written, twice, stolen, sess, promised>>
  BY DEF ReturnThrows
<1>2. /\ UsersOK /\ refresh.by # t /\ 0 <= written /\ twice \subseteq Sessions
  BY <1>1 DEF IInv, Shape, LuceneOK, UsersOK, PlacesOK
<1>3. /\ thread' \in [Threads -> ThreadRec]
      /\ thread'[t].at = "idle" /\ thread'[t].session = None
      /\ thread'[t].due = 0
      /\ \A u \in Threads : u # t => thread'[u] = thread[u]
  BY <1>1, <1>2, IdleFacts
<1>4. \A s \in Sessions : Has(t, s)' => Has(t, s)
  BY <1>3, PoolAssumption DEF Has
<1> QED
  BY <1>1, <1>2, <1>3, <1>4, ThreadMoves

-----------------------------------------------------------------------------
(* What a step makes of the session that it changes.                       *)
LEMMA SessFacts ==
  ASSUME NEW q \in SessionRec, NEW x \in Nat
  PROVE  /\ [q EXCEPT !.made = TRUE] \in SessionRec
         /\ [q EXCEPT !.made = TRUE].open = q.open
         /\ [q EXCEPT !.made = TRUE].counted = q.counted
         /\ [q EXCEPT !.made = TRUE].searcher = q.searcher
         /\ [q EXCEPT !.counted = FALSE] \in SessionRec
         /\ [q EXCEPT !.counted = FALSE].open = q.open
         /\ ~[q EXCEPT !.counted = FALSE].counted
         /\ [q EXCEPT !.counted = FALSE].searcher = q.searcher
BY DEF SessionRec

(* A step of a thread that changes its session keeps the order of things.  *)
LEMMA SessionMoves ==
  ASSUME IInv, NEW t \in Threads, NEW s \in Sessions,
         UNCHANGED <<lifeVars, managers, content, refresh, written, twice>>,
         managers # <<>>, refresh.by # t,
         refs' \in Seq(Nat), Len(refs') = Len(content),
         stolen' \subseteq twice,
         sess' \in [Sessions -> SessionRec],
         \A r \in Sessions : r # s => sess'[r] = sess[r],
         sess'[s].open \/ sess'[s].counted \/ sess'[s].searcher # 0 =>
           sess'[s].searcher \in Searchers,
         thread' \in [Threads -> ThreadRec],
         \A u \in Threads : u # t => thread'[u] = thread[u],
         thread'[t].due <= written,
         IF thread'[t].at \in {"idle", "aquiring"}
         THEN thread'[t].session = None /\ thread'[t].due = 0
         ELSE thread'[t].session \in Sessions,
         thread'[t].at # "returningAgain",
         thread'[t].at = "acquire" => thread'[t].due <= content[Current],
         thread'[t].at # "release",
         promised' \in Nat, promised' <= content[Current], promised' <= written,
         LeaseExclusive', CountedOK', CountsExact'
  PROVE  IInv'
<1>1. LuceneOK' /\ UsersOK' /\ Started'
  BY DEF IInv, Shape, LuceneOK, UsersOK, Started, Searchers
<1>2. PlacesOK'
  <2>1. \A u \in Threads :
          (/\ thread[u].due <= written
           /\ IF thread[u].at \in {"idle", "aquiring"}
              THEN thread[u].session = None /\ thread[u].due = 0
              ELSE thread[u].session \in Sessions
           /\ thread[u].at = "returningAgain" =>
                thread[u].session \in twice /\ thread[u].due = 0
           /\ refresh.by = u => thread[u].at \in {"refresh", "tryRefresh"})'
    <3> SUFFICES ASSUME NEW u \in Threads
                 PROVE  (/\ thread[u].due <= written
                         /\ IF thread[u].at \in {"idle", "aquiring"}
                            THEN thread[u].session = None /\ thread[u].due = 0
                            ELSE thread[u].session \in Sessions
                         /\ thread[u].at = "returningAgain" =>
                              thread[u].session \in twice /\ thread[u].due = 0
                         /\ refresh.by = u =>
                              thread[u].at \in {"refresh", "tryRefresh"})'
      OBVIOUS
    <3>1. CASE u # t
      BY <3>1 DEF IInv, Shape, PlacesOK
    <3>2. CASE u = t
      BY <3>2
    <3> QED
      BY <3>1, <3>2
  <2>2. \A r \in Sessions :
          sess'[r].open \/ sess'[r].counted \/ sess'[r].searcher # 0 =>
            sess'[r].searcher \in Searchers'
    BY DEF IInv, Shape, PlacesOK, Searchers
  <2> QED
    BY <2>1, <2>2 DEF PlacesOK
<1>3. ShowsOK'
  BY DEF IInv, ShowsOK, Searchers, Current
<1> QED
  BY <1>1, <1>2, <1>3 DEF IInv, Shape

(* The searcher of the session is released; its thread goes on to acquire  *)
(* the current one.                                                        *)
LEMMA NextSwitchRelease ==
  ASSUME IInv, NEW t \in Threads, SwitchRelease(t)
  PROVE  IInv'
<1>1. PICK s, x : s = thread[t].session /\ x = sess[s].searcher
  OBVIOUS
<1>2. /\ thread[t].at = "release" /\ x # 0 /\ Releases(x)
      /\ sess' = [sess EXCEPT ![s].counted = FALSE]
      /\ Goes(t, "acquire") /\ "acquire" \in Places
      /\ UNCHANGED <<lifeVars, managers, content, refresh, written, poolVars,
                     promised>>
  BY <1>1 DEF SwitchRelease, Places
<1>3. /\ UsersOK /\ LuceneOK /\ s \in Sessions /\ refresh.by # t
      /\ thread[t].due <= written /\ managers # <<>>
      /\ sess \in [Sessions -> SessionRec] /\ sess[s] \in SessionRec
  BY <1>1, <1>2 DEF IInv, Shape, UsersOK, PlacesOK, Started
<1>4. /\ thread' \in [Threads -> ThreadRec]
      /\ thread'[t].at = "acquire" /\ thread'[t].session = thread[t].session
      /\ thread'[t].due = thread[t].due
      /\ \A u \in Threads : u # t => thread'[u] = thread[u]
  BY <1>2, <1>3, GoesFacts
<1>5. /\ sess' \in [Sessions -> SessionRec] /\ ~sess'[s].counted
      /\ sess'[s].open = sess[s].open /\ sess'[s].searcher = x
      /\ \A r \in Sessions : r # s => sess'[r] = sess[r]
  <2>1. sess' = [sess EXCEPT ![s] = [sess[s] EXCEPT !.counted = FALSE]]
    BY <1>2
  <2> QED
    BY <1>1, <1>3, <2>1, SessFacts
<1>6. x \in Searchers /\ refs' \in Seq(Nat) /\ Len(refs') = Len(content)
  <2>1. x \in Searchers
    BY <1>1, <1>2, <1>3 DEF IInv, Shape, PlacesOK
  <2>2. refs[x] - 1 \in Nat /\ refs' = [refs EXCEPT ![x] = refs[x] - 1]
    BY <1>2, <1>3, <2>1, RefsFacts DEF Releases
  <2> QED
    BY <1>3, <2>1, <2>2, RefsFacts
<1>7. stolen = {} => sess[s].counted /\ \A u \in Threads : Has(u, s) => u = t
  <2> SUFFICES ASSUME stolen = {} PROVE sess[s].counted /\
                                        \A u \in Threads : Has(u, s) => u = t
    OBVIOUS
  <2>1. Has(t, s)
    BY <1>1, <1>2 DEF Has
  <2>2. sess[s].open /\ \A u \in Threads : Has(u, s) => u = t
    BY <1>3, <2>1 DEF IInv, LeaseExclusive
  <2> QED
    BY <1>2, <1>3, <2>2 DEF IInv, CountedOK
<1>8. CountsExact'
  <2>1. \A r \in Sessions : r # s =>
          sess'[r].counted = sess[r].counted /\ sess'[r].searcher = sess[r].searcher
    BY <1>5
  <2> QED
    BY ZenonT(60), <1>1, <1>2, <1>3, <1>5, <1>6, <1>7, <2>1, ReleasedCounts
       DEF IInv, poolVars
<1>9. \A u \in Threads, r \in Sessions : Has(u, r)' <=> Has(u, r)
  BY <1>2, <1>4 DEF Has
<1>10. LeaseExclusive'
  BY <1>2, <1>3, <1>5, <1>9 DEF IInv, LeaseExclusive, poolVars
<1>11. CountedOK'
  <2> SUFFICES ASSUME stolen = {} PROVE CountedOK'
    BY <1>2 DEF CountedOK, poolVars
  <2>1. Has(t, s)' /\ thread'[t].at = "acquire"
    BY <1>1, <1>2, <1>4, <1>9 DEF Has
  <2>2. \A r \in Sessions : r # s =>
          IF sess'[r].open
          THEN sess'[r].counted \/
               \E u \in Threads : Has(u, r)' /\ thread'[u].at = "acquire"
          ELSE ~sess'[r].counted
    BY <1>2, <1>4, <1>5, <1>9 DEF IInv, CountedOK
  <2>3. \A u \in Threads : thread'[u].at = "acquire" =>
          ~sess'[thread'[u].session].counted
    <3> SUFFICES ASSUME NEW u \in Threads, thread'[u].at = "acquire"
                 PROVE  ~sess'[thread'[u].session].counted
      OBVIOUS
    <3>1. CASE thread'[u].session = s
      BY <1>5, <3>1
    <3>2. CASE thread'[u].session # s
      <4>1. u # t /\ thread'[u] = thread[u]
        BY <1>1, <1>4, <3>2
      <4>2. thread[u].session \in Sessions /\ ~sess[thread[u].session].counted
        BY <4>1 DEF IInv, Shape, PlacesOK, CountedOK
      <4> QED
        BY <1>5, <3>2, <4>1, <4>2
    <3> QED
      BY <3>1, <3>2
  <2> QED
    BY <1>5, <2>1, <2>2, <2>3 DEF CountedOK
<1>12. thread[t].due <= content[Current] /\ promised \in Nat
       /\ promised <= content[Current] /\ promised <= written /\ stolen \subseteq twice
  BY <1>2, <1>3 DEF IInv, Shape, LuceneOK, UsersOK, ShowsOK
<1>13. /\ UNCHANGED <<lifeVars, managers, content, refresh, written, twice>>
       /\ stolen' \subseteq twice /\ thread'[t].due <= written
       /\ thread'[t].session \in Sessions /\ thread'[t].due <= content[Current]
       /\ promised' \in Nat /\ promised' <= content[Current]
       /\ promised' <= written /\ sess'[s].searcher \in Searchers
  BY <1>1, <1>2, <1>3, <1>4, <1>5, <1>6, <1>12 DEF poolVars
<1> QED
  BY <1>3, <1>4, <1>5, <1>6, <1>8, <1>10, <1>11, <1>13, SessionMoves

(* The session reads the current searcher from now on.                     *)
LEMMA NextSwitchAcquire ==
  ASSUME IInv, NEW t \in Threads, SwitchAcquire(t)
  PROVE  IInv'
<1>1. PICK s, c : s = thread[t].session /\ c = Current
  OBVIOUS
<1> DEFINE q == [[sess[s] EXCEPT !.searcher = c] EXCEPT !.counted = TRUE]
<1>2. /\ thread[t].at = "acquire"
      /\ refs' = [refs EXCEPT ![c] = refs[c] + 1]
      /\ sess' = [sess EXCEPT ![s].searcher = c, ![s].counted = TRUE]
      /\ promised' = IF s \notin twice /\ promised < thread[t].due
                     THEN thread[t].due ELSE promised
      /\ Goes(t, "using") /\ "using" \in Places
      /\ UNCHANGED <<lifeVars, managers, content, refresh, written, poolVars>>
  BY <1>1 DEF SwitchAcquire, Places
<1>3. /\ UsersOK /\ LuceneOK /\ s \in Sessions /\ refresh.by # t
      /\ thread[t].due <= written /\ managers # <<>>
      /\ sess \in [Sessions -> SessionRec] /\ sess[s] \in SessionRec
  BY <1>1, <1>2 DEF IInv, Shape, UsersOK, PlacesOK, Started
<1>4. /\ thread' \in [Threads -> ThreadRec]
      /\ thread'[t].at = "using" /\ thread'[t].session = thread[t].session
      /\ thread'[t].due = thread[t].due
      /\ \A u \in Threads : u # t => thread'[u] = thread[u]
  BY <1>2, <1>3, GoesFacts
<1>5. c \in Searchers /\ c \in Nat /\ refs[c] \in Nat /\ refs[c] + 1 \in Nat
  <2>1. c \in Searchers
    BY <1>1, <1>3, CurrentFacts
  <2> QED
    BY <1>3, <2>1, RefsFacts DEF Searchers
<1>6. /\ sess' \in [Sessions -> SessionRec] /\ sess'[s].counted
      /\ sess'[s].open = sess[s].open /\ sess'[s].searcher = c
      /\ \A r \in Sessions : r # s => sess'[r] = sess[r]
  <2>1. q \in SessionRec /\ q.counted /\ q.open = sess[s].open /\ q.searcher = c
    BY <1>3, <1>5 DEF SessionRec
  <2>2. sess' = [sess EXCEPT ![s] = q]
    BY <1>2, <1>3
  <2> HIDE DEF q
  <2> QED
    BY <1>3, <2>1, <2>2
<1>7. refs' \in Seq(Nat) /\ Len(refs') = Len(content)
  BY <1>2, <1>3, <1>5, RefsFacts
<1>8. stolen = {} => ~sess[s].counted /\ \A u \in Threads : Has(u, s) => u = t
  BY <1>1, <1>2, <1>3 DEF IInv, LeaseExclusive, CountedOK, Has
<1>9. CountsExact'
  <2>1. \A r \in Sessions : r # s =>
          sess'[r].counted = sess[r].counted /\ sess'[r].searcher = sess[r].searcher
    BY <1>6
  <2> QED
    BY <1>1, <1>2, <1>3, <1>6, <1>8, <2>1, TakenCounts DEF IInv, poolVars
<1>10. \A u \in Threads, r \in Sessions : Has(u, r)' <=> Has(u, r)
  BY <1>2, <1>4 DEF Has
<1>11. LeaseExclusive'
  BY <1>2, <1>3, <1>6, <1>10 DEF IInv, LeaseExclusive, poolVars
<1>12. CountedOK'
  <2> SUFFICES ASSUME stolen = {} PROVE CountedOK'
    BY <1>2 DEF CountedOK, poolVars
  <2>1. \A r \in Sessions : r # s => ~Has(t, r)
    BY <1>1 DEF Has
  <2>2. \A r \in Sessions : r # s =>
          IF sess'[r].open
          THEN sess'[r].counted \/
               \E u \in Threads : Has(u, r)' /\ thread'[u].at = "acquire"
          ELSE ~sess'[r].counted
    BY <1>4, <1>6, <1>10, <2>1 DEF IInv, CountedOK
  <2>3. sess'[s].open
    BY <1>1, <1>2, <1>3, <1>6 DEF IInv, LeaseExclusive, Has
  <2>4. \A u \in Threads : thread'[u].at = "acquire" =>
          ~sess'[thread'[u].session].counted
    <3> SUFFICES ASSUME NEW u \in Threads, thread'[u].at = "acquire"
                 PROVE  ~sess'[thread'[u].session].counted
      OBVIOUS
    <3>1. u # t /\ thread'[u] = thread[u]
      BY <1>4
    <3>2. /\ thread[u].session \in Sessions
          /\ ~sess[thread[u].session].counted /\ Has(u, thread[u].session)
      BY <3>1 DEF IInv, Shape, PlacesOK, CountedOK, Has
    <3>3. thread[u].session # s
      BY <1>8, <3>1, <3>2
    <3> QED
      BY <1>6, <3>1, <3>2, <3>3
  <2> QED
    BY <1>6, <2>2, <2>3, <2>4 DEF CountedOK
<1>13. /\ promised' \in Nat /\ promised' <= content[Current] /\ promised' <= written
       /\ stolen' \subseteq twice
       /\ UNCHANGED <<lifeVars, managers, content, refresh, written, twice>>
  <2>1. /\ thread[t].due <= content[Current] /\ promised \in Nat
        /\ promised <= content[Current] /\ promised <= written
        /\ thread[t].due \in Nat /\ stolen \subseteq twice
    BY <1>2, <1>3 DEF IInv, Shape, LuceneOK, UsersOK, ShowsOK, ThreadRec
  <2> QED
    BY <1>2, <1>3, <2>1 DEF poolVars
<1>14. thread'[t].session \in Sessions /\ thread'[t].due <= written
  BY <1>1, <1>3, <1>4
<1> QED
  BY <1>3, <1>4, <1>5, <1>6, <1>7, <1>9, <1>11, <1>12, <1>13, <1>14, SessionMoves

(* The monitor ends with a session that nobody had.                        *)
LEMMA NextAquireEnd ==
  ASSUME IInv, NEW t \in Threads, AquireEnd(t)
  PROVE  IInv'
<1>1. PICK s \in Sessions, rest \in Rests : ~sess[s].open /\ Lends(t, s, rest)
  BY DEF AquireEnd
<1>2. PICK c : c = Current
  OBVIOUS
<1> DEFINE q == [[[[sess[s] EXCEPT !.made = TRUE] EXCEPT !.open = TRUE]
                    EXCEPT !.searcher = c] EXCEPT !.counted = TRUE]
           p == [[Idle(None) EXCEPT !.at = "using"] EXCEPT !.session = s]
<1>3. /\ thread[t].at = "aquiring"
      /\ refs' = [refs EXCEPT ![c] = refs[c] + 1]
      /\ thread' = [thread EXCEPT ![t] = p]
      /\ UNCHANGED <<lifeVars, managers, content, refresh, written, twice, stolen,
                     promised>>
  BY <1>1, <1>2 DEF Lends, Idle
<1>4. /\ UsersOK /\ LuceneOK /\ refresh.by # t /\ managers # <<>>
      /\ thread[t].session = None
      /\ sess \in [Sessions -> SessionRec] /\ sess[s] \in SessionRec
  BY <1>1, <1>3 DEF IInv, Shape, UsersOK, PlacesOK, Started
<1>5. /\ thread' \in [Threads -> ThreadRec]
      /\ thread'[t].at = "using" /\ thread'[t].session = s
      /\ thread'[t].due = 0
      /\ \A u \in Threads : u # t => thread'[u] = thread[u]
  <2>1. p \in ThreadRec /\ p.at = "using" /\ p.session = s /\ p.due = 0
    BY DEF ThreadRec, Idle, Places
  <2> HIDE DEF p
  <2> QED
    BY <1>3, <1>4, <2>1 DEF UsersOK
<1>6. c \in Searchers /\ c \in Nat /\ refs[c] \in Nat /\ refs[c] + 1 \in Nat
  <2>1. c \in Searchers
    BY <1>2, <1>4, CurrentFacts
  <2> QED
    BY <1>4, <2>1, RefsFacts DEF Searchers
<1>7. /\ sess' \in [Sessions -> SessionRec] /\ sess'[s].counted
      /\ sess'[s].open /\ sess'[s].searcher = c
      /\ \A r \in Sessions : r # s => sess'[r] = sess[r]
  <2>1. q \in SessionRec /\ q.counted /\ q.open /\ q.searcher = c
    BY <1>4, <1>6 DEF SessionRec
  <2>2. sess' = [sess EXCEPT ![s] = q]
    BY <1>1, <1>2, <1>4 DEF Lends, Takes
  <2> HIDE DEF q
  <2> QED
    BY <1>4, <2>1, <2>2
<1> HIDE DEF p, q
<1>8. refs' \in Seq(Nat) /\ Len(refs') = Len(content)
  BY <1>3, <1>4, <1>6, RefsFacts
<1>9. /\ s \notin stolen => \A u \in Threads : ~Has(u, s)
      /\ stolen = {} => ~sess[s].counted
  BY <1>1 DEF IInv, LeaseExclusive, CountedOK
<1>10. CountsExact'
  <2>1. \A r \in Sessions : r # s =>
          sess'[r].counted = sess[r].counted /\ sess'[r].searcher = sess[r].searcher
    BY <1>7
  <2> QED
    BY <1>2, <1>3, <1>4, <1>7, <1>9, <2>1, TakenCounts DEF IInv
<1>11. \A u \in Threads, r \in Sessions :
         Has(u, r)' <=> Has(u, r) \/ (u = t /\ r = s)
  BY <1>3, <1>4, <1>5, PoolAssumption DEF Has
<1>12. LeaseExclusive'
  BY <1>3, <1>7, <1>9, <1>11 DEF IInv, LeaseExclusive
<1>13. CountedOK'
  <2> SUFFICES ASSUME stolen = {} PROVE CountedOK'
    BY <1>3 DEF CountedOK
  <2>1. \A r \in Sessions : r # s =>
          IF sess'[r].open
          THEN sess'[r].counted \/
               \E u \in Threads : Has(u, r)' /\ thread'[u].at = "acquire"
          ELSE ~sess'[r].counted
    BY <1>3, <1>5, <1>7, <1>11 DEF IInv, CountedOK
  <2>2. \A u \in Threads : thread'[u].at = "acquire" =>
          ~sess'[thread'[u].session].counted
    <3> SUFFICES ASSUME NEW u \in Threads, thread'[u].at = "acquire"
                 PROVE  ~sess'[thread'[u].session].counted
      OBVIOUS
    <3>1. u # t /\ thread'[u] = thread[u]
      BY <1>5
    <3>2. /\ thread[u].session \in Sessions
          /\ ~sess[thread[u].session].counted /\ Has(u, thread[u].session)
      BY <3>1 DEF IInv, Shape, PlacesOK, CountedOK, Has
    <3>3. thread[u].session # s
      BY <1>9, <3>2
    <3> QED
      BY <1>7, <3>1, <3>2, <3>3
  <2> QED
    BY <1>7, <2>1, <2>2 DEF CountedOK
<1>14. /\ promised' \in Nat /\ promised' <= content[Current] /\ promised' <= written
       /\ stolen' \subseteq twice /\ thread'[t].due <= written
       /\ UNCHANGED <<lifeVars, managers, content, refresh, written, twice>>
  BY <1>3, <1>4, <1>5 DEF IInv, Shape, LuceneOK, UsersOK, ShowsOK
<1> QED
  BY <1>4, <1>5, <1>6, <1>7, <1>8, <1>10, <1>12, <1>13, <1>14, SessionMoves

(* The session that cannot be opened is out of the stack and unchanged.    *)
LEMMA NextAquireThrows ==
  ASSUME IInv, NEW t \in Threads, AquireThrows(t)
  PROVE  IInv'
<1>1. PICK s \in Sessions :
        /\ thread[t].at = "aquiring"
        /\ sess' = [sess EXCEPT ![s].made = TRUE]
        /\ Goes(t, "idle") /\ "idle" \in Places
        /\ UNCHANGED <<lifeVars, luceneVars, written, twice, stolen, promised>>
  BY DEF AquireThrows, Places
<1>2. /\ UsersOK /\ LuceneOK /\ refresh.by # t /\ managers # <<>>
      /\ thread[t].session = None /\ thread[t].due = 0
      /\ sess \in [Sessions -> SessionRec] /\ sess[s] \in SessionRec
  BY <1>1 DEF IInv, Shape, UsersOK, PlacesOK, Started
<1>3. /\ thread' \in [Threads -> ThreadRec]
      /\ thread'[t].at = "idle" /\ thread'[t].session = thread[t].session
      /\ thread'[t].due = thread[t].due
      /\ \A u \in Threads : u # t => thread'[u] = thread[u]
  BY <1>1, <1>2, GoesFacts
<1>4. /\ sess' \in [Sessions -> SessionRec]
      /\ \A r \in Sessions : r # s => sess'[r] = sess[r]
      /\ \A r \in Sessions : /\ sess'[r].open = sess[r].open
                              /\ sess'[r].counted = sess[r].counted
                              /\ sess'[r].searcher = sess[r].searcher
  <2>1. sess' = [sess EXCEPT ![s] = [sess[s] EXCEPT !.made = TRUE]]
    BY <1>1
  <2> QED
    BY <1>2, <2>1, SessFacts
<1>5. CountsExact'
  <2>1. \A x : Readers(x)' = Readers(x)
    BY <1>4 DEF Readers
  <2> QED
    BY <1>1, <2>1 DEF IInv, CountsExact, luceneVars, Managing, Refreshing, Current,
       Searchers
<1>6. \A u \in Threads, r \in Sessions : Has(u, r)' <=> Has(u, r)
  BY <1>1, <1>2, <1>3, PoolAssumption DEF Has
<1>7. LeaseExclusive'
  BY <1>1, <1>4, <1>6 DEF IInv, LeaseExclusive
<1>8. CountedOK'
  <2> SUFFICES ASSUME stolen = {} PROVE CountedOK'
    BY <1>1 DEF CountedOK
  <2>1. \A u \in Threads : thread'[u].at = "acquire" =>
          ~sess'[thread'[u].session].counted
    <3> SUFFICES ASSUME NEW u \in Threads, thread'[u].at = "acquire"
                 PROVE  ~sess'[thread'[u].session].counted
      OBVIOUS
    <3>1. thread'[u] = thread[u]
      BY <1>3
    <3>2. thread[u].session \in Sessions /\ ~sess[thread[u].session].counted
      BY <3>1 DEF IInv, Shape, PlacesOK, CountedOK
    <3> QED
      BY <1>4, <3>1, <3>2
  <2>2. \A u \in Threads : thread[u].at = "acquire" => thread'[u].at = "acquire"
    BY <1>1, <1>3
  <2> QED
    BY <1>4, <1>6, <2>1, <2>2 DEF IInv, CountedOK
<1>9. /\ promised' \in Nat /\ promised' <= content[Current] /\ promised' <= written
      /\ stolen' \subseteq twice /\ thread'[t].due <= written
      /\ refs' \in Seq(Nat) /\ Len(refs') = Len(content)
      /\ UNCHANGED <<lifeVars, managers, content, refresh, written, twice>>
  BY <1>1, <1>2, <1>3 DEF IInv, Shape, LuceneOK, UsersOK, ShowsOK, luceneVars
<1>10. sess'[s].open \/ sess'[s].counted \/ sess'[s].searcher # 0 =>
         sess'[s].searcher \in Searchers
  BY <1>4 DEF IInv, Shape, PlacesOK
<1> QED
  BY <1>2, <1>3, <1>4, <1>5, <1>7, <1>8, <1>9, <1>10, SessionMoves

(* A session that comes back is closed, under its user if it comes back a  *)
(* second time.                                                            *)
LEMMA NextReturnEnd ==
  ASSUME IInv, NEW t \in Threads, ReturnEnd(t)
  PROVE  IInv'
<1>1. PICK s \in Sessions :
        /\ TakesBack(t, s)
        /\ IF sess[s].open THEN Releases(sess[s].searcher) ELSE UNCHANGED refs
  BY DEF ReturnEnd
<1>2. PICK x : x = sess[s].searcher
  OBVIOUS
<1> DEFINE q == [[[sess[s] EXCEPT !.open = FALSE] EXCEPT !.searcher = 0]
                   EXCEPT !.counted = FALSE]
<1>3. /\ thread[t].at \in {"returning", "returningAgain"} /\ s = thread[t].session
      /\ thread' = [thread EXCEPT ![t] = Idle(s)]
      /\ stolen' = stolen \cup {r \in {s} : sess[s].open /\
                                          \E u \in Threads \ {t} : Has(u, s)}
      /\ UNCHANGED <<lifeVars, managers, content, refresh, written, twice, promised>>
  BY <1>1 DEF TakesBack
<1>4. /\ UsersOK /\ LuceneOK /\ refresh.by # t /\ managers # <<>>
      /\ sess \in [Sessions -> SessionRec] /\ sess[s] \in SessionRec
  BY <1>3 DEF IInv, Shape, UsersOK, PlacesOK, Started
<1>5. /\ thread' \in [Threads -> ThreadRec]
      /\ thread'[t].at = "idle" /\ thread'[t].session = None /\ thread'[t].due = 0
      /\ \A u \in Threads : u # t => thread'[u] = thread[u]
  BY <1>3, <1>4, IdleFacts
<1>6. /\ sess' \in [Sessions -> SessionRec]
      /\ ~sess'[s].open
      /\ \A r \in Sessions : r # s => sess'[r] = sess[r]
      /\ sess[s].open => ~sess'[s].counted /\ sess'[s].searcher = 0
      /\ ~sess[s].open => sess' = sess
  <2>1. q \in SessionRec /\ ~q.open /\ ~q.counted /\ q.searcher = 0
    BY <1>4 DEF SessionRec
  <2>2. sess' = IF sess[s].open THEN [sess EXCEPT ![s] = q] ELSE sess
    BY <1>1, <1>4 DEF TakesBack
  <2> HIDE DEF q
  <2> QED
    BY <1>4, <2>1, <2>2
<1> HIDE DEF q
<1>7. \A u \in Threads, r \in Sessions : Has(u, r)' <=> Has(u, r) /\ u # t
  BY <1>3, <1>5, PoolAssumption DEF Has
<1>8. \A r \in Sessions : r # s => ~Has(t, r)
  BY <1>3 DEF Has
<1>9. s \notin stolen' => \A u \in Threads : u # t => ~Has(u, s)
  BY <1>3 DEF IInv, LeaseExclusive
<1>10. stolen' = {} => stolen = {} /\ s \notin stolen'
  BY <1>3
<1>11. LeaseExclusive'
  BY <1>3, <1>6, <1>7, <1>8, <1>9 DEF IInv, LeaseExclusive
<1>12. CountedOK'
  <2> SUFFICES ASSUME stolen' = {} PROVE CountedOK'
    BY DEF CountedOK
  <2>1. \A r \in Sessions : r # s =>
          IF sess'[r].open
          THEN sess'[r].counted \/
               \E u \in Threads : Has(u, r)' /\ thread'[u].at = "acquire"
          ELSE ~sess'[r].counted
    BY <1>3, <1>5, <1>6, <1>7, <1>8, <1>10 DEF IInv, CountedOK
  <2>2. ~sess'[s].counted
    BY <1>6, <1>10 DEF IInv, CountedOK
  <2>3. \A u \in Threads : thread'[u].at = "acquire" =>
          ~sess'[thread'[u].session].counted
    <3> SUFFICES ASSUME NEW u \in Threads, thread'[u].at = "acquire"
                 PROVE  ~sess'[thread'[u].session].counted
      OBVIOUS
    <3>1. thread'[u] = thread[u]
      BY <1>5
    <3>2. thread[u].session \in Sessions /\ ~sess[thread[u].session].counted
      BY <1>10, <3>1 DEF IInv, Shape, PlacesOK, CountedOK
    <3> QED
      BY <1>6, <2>2, <3>1, <3>2
  <2> QED
    BY <1>6, <2>1, <2>2, <2>3 DEF CountedOK
<1>13. CASE sess[s].open
  <2>1. x \in Searchers
    BY <1>2, <1>13 DEF IInv, Shape, PlacesOK
  <2>2. refs[x] - 1 \in Nat /\ refs' = [refs EXCEPT ![x] = refs[x] - 1]
    BY <1>1, <1>2, <1>4, <1>13, <2>1, RefsFacts DEF Releases
  <2>3. refs' \in Seq(Nat) /\ Len(refs') = Len(content)
    BY <1>4, <2>1, <2>2, RefsFacts
  <2>4. stolen' = {} => stolen = {} /\ sess[s].counted
    <3> SUFFICES ASSUME stolen' = {} PROVE sess[s].counted
      BY <1>10
    <3>1. \A u \in Threads : ~(Has(u, s) /\ thread[u].at = "acquire")
      BY <1>3, <1>9, <1>10
    <3> QED
      BY <1>10, <1>13, <3>1 DEF IInv, CountedOK
  <2>5. \A r \in Sessions : r # s =>
          sess'[r].counted = sess[r].counted /\ sess'[r].searcher = sess[r].searcher
    BY <1>6
  <2>6. CountsExact'
    BY <1>1, <1>2, <1>3, <1>6, <1>13, <2>1, <2>4, <2>5, ReleasedCounts DEF IInv
  <2>7. /\ promised' \in Nat /\ promised' <= content[Current]
        /\ promised' <= written /\ thread'[t].due <= written
    BY <1>3, <1>4, <1>5 DEF IInv, Shape, LuceneOK, ShowsOK
  <2>8. stolen' \subseteq twice
    BY <1>3, <1>13 DEF IInv, LeaseExclusive, Shape, UsersOK, PlacesOK, Has
  <2> QED
    BY SMTT(30), <1>3, <1>4, <1>5, <1>6, <1>11, <1>12, <1>13, <2>3, <2>6,
       <2>7, <2>8,
       SessionMoves
<1>14. CASE ~sess[s].open
  <2>1. UNCHANGED <<luceneVars, sess>> /\ stolen' = stolen
    BY <1>1, <1>3, <1>6, <1>14 DEF luceneVars
  <2>2. CountsExact'
    BY <2>1, SameCounts DEF IInv
  <2>3. /\ promised' \in Nat /\ promised' <= content[Current]
        /\ promised' <= written /\ thread'[t].due <= written
        /\ refs' \in Seq(Nat) /\ Len(refs') = Len(content) /\ stolen' \subseteq twice
    BY <1>3, <1>4, <1>5, <2>1 DEF IInv, Shape, LuceneOK, UsersOK, ShowsOK, luceneVars
  <2>4. sess'[s].open \/ sess'[s].counted \/ sess'[s].searcher # 0 =>
          sess'[s].searcher \in Searchers
    BY <1>6, <1>14 DEF IInv, Shape, PlacesOK
  <2> QED
    BY <1>3, <1>4, <1>5, <1>6, <1>11, <1>12, <2>2, <2>3, <2>4, SessionMoves
<1> QED
  BY <1>13, <1>14

-----------------------------------------------------------------------------
(* A step that changes nothing.                                            *)
LEMMA NextStutter ==
  ASSUME IInv, UNCHANGED vars
  PROVE  IInv'
<1>1. UNCHANGED <<lifeVars, luceneVars, written, poolVars, sess, thread, promised>>
  BY DEF vars
<1>2. LuceneOK' /\ UsersOK' /\ Started' /\ PlacesOK'
  BY <1>1 DEF IInv, Shape, LuceneOK, UsersOK, Started, PlacesOK, Searchers,
     lifeVars, luceneVars, poolVars
<1>3. ShowsOK' /\ LeaseExclusive' /\ CountedOK'
  BY <1>1 DEF IInv, ShowsOK, LeaseExclusive, CountedOK, Searchers, Current, Has,
     luceneVars, poolVars
<1>4. CountsExact'
  BY <1>1, SameCounts DEF IInv, poolVars
<1> QED
  BY <1>2, <1>3, <1>4 DEF IInv, Shape

(* Every step of a thread keeps the invariant.                             *)
LEMMA NextThread ==
  ASSUME IInv, NEW t \in Threads, ThreadNext(t)
  PROVE  IInv'
<1>1. CASE CommitBegins(t)
  BY <1>1, Begun DEF CommitBegins
<1>2. CASE Committing(t)
  BY <1>1, <1>2, NextCommitSkips, NextCommitEnds, NextCommitThrows,
     NextSwitchRelease, NextSwitchAcquire, NextSwitchThrows DEF Committing
<1>3. CASE InMonitor(t)
  BY <1>3, NextAquireEnd, NextAquireThrows, NextReturnEnd DEF InMonitor
<1> QED
  BY <1>2, <1>3, NextWrite, NextCommitStart, NextAquireCheck, NextReturn,
     NextReturnAgain, NextReturnThrows DEF ThreadNext

(* Every step keeps the invariant.                                         *)
LEMMA NextInv == IInv /\ [Next]_vars => IInv'
<1> SUFFICES ASSUME IInv, [Next]_vars PROVE IInv'
  OBVIOUS
<1>1. CASE Lifecycle
  BY <1>1, NextOpenStore, NextLife DEF Lifecycle
<1>2. CASE ReopenBegin
  BY <1>2, Begun, PoolAssumption DEF ReopenBegin
<1>3. CASE ReopenEnd
  BY <1>3, Ended, PoolAssumption DEF ReopenEnd, IInv, Shape, UsersOK
<1>4. CASE \E t \in Threads : ThreadNext(t)
  BY <1>4, NextThread
<1>5. CASE UNCHANGED vars
  BY <1>5, NextStutter
<1> QED
  BY <1>1, <1>2, <1>3, <1>4, <1>5 DEF Next

(* However many threads, sessions, reopenings and double returns there are,*)
(* the invariant holds.                                                    *)
THEOREM Invariant == Spec => []IInv
<1> QED
  BY InitInv, NextInv, PTL DEF Spec

(* The reference count of every searcher is the number of those who hold a *)
(* reference, as long as no session was closed under its user.             *)
THEOREM CountsStayExact == Spec => []CountsExact
<1>1. IInv => CountsExact
  BY DEF IInv
<1> QED
  BY <1>1, Invariant, PTL

(* aquireSession never gives a session to a second thread, even if it is   *)
(* twice in the pool.                                                      *)
THEOREM LeasesAreExclusive == Spec => []LeaseExclusive
<1>1. IInv => LeaseExclusive
  BY DEF IInv
<1> QED
  BY <1>1, Invariant, PTL

(* No sequence of calls reaches an index whose name store failed to open.  *)
THEOREM LockedOutStays == Spec => LockedOutForGood
<1>1. [Next]_vars => [LockedOut => LockedOut']_vars
  <2> SUFFICES ASSUME Next, LockedOut PROVE LockedOut'
    OBVIOUS
  <2>1. CASE Lifecycle
    BY <2>1 DEF LockedOut, Lifecycle, OpenStore, NewStore, OpenNames, OpenFails,
       CloseStore, CloseNames, CloseFails
  <2>2. CASE ReopenBegin \/ ReopenEnd
    <3>1. UNCHANGED lifeVars
      BY <2>2 DEF ReopenBegin, ReopenEnd
    <3> QED
      BY <3>1 DEF LockedOut, lifeVars
  <2>3. CASE \E t \in Threads : ThreadNext(t)
    <3>1. PICK t \in Threads : ThreadNext(t)
      BY <2>3
    <3>2. UNCHANGED lifeVars
      <4>1. CASE Committing(t)
        BY <4>1 DEF Committing, CommitSkips, CommitBegins, CommitEnds,
           CommitThrows, SwitchRelease, SwitchAcquire, SwitchThrows
      <4>2. CASE InMonitor(t)
        BY <4>2 DEF InMonitor, AquireEnd, Lends, AquireThrows, ReturnEnd, TakesBack
      <4> QED
        BY <3>1, <4>1, <4>2 DEF ThreadNext, Write, CommitStart, Commits,
           AquireCheck, Return, ReturnCheck, ReturnAgain, ReturnThrows
    <3> QED
      BY <3>2 DEF LockedOut, lifeVars
  <2> QED
    BY <2>1, <2>2, <2>3 DEF Next
<1> QED
  BY <1>1, PTL DEF Spec, LockedOutForGood

-----------------------------------------------------------------------------
(***************************************************************************)
(* The pool implements SnapshotLeases.  Lent says who has a session that   *)
(* was not returned twice; the lemmas on holders, views and what is asked  *)
(* translate it to the variables of SnapshotLeases.                        *)
(***************************************************************************)
Lent(t, s) == s \notin twice /\ Has(t, s)
Asked(t) == IF thread[t].session \in twice THEN 0 ELSE thread[t].due
View(s) == IF Holder(s) = None THEN -1 ELSE content[sess[s].searcher]

Holders == [s \in Sessions |-> Holder(s)]
Views == [s \in Sessions |-> View(s)]
AllAsked == [t \in Threads |-> Asked(t)]

(* The holder of a session is the thread it is lent to.                    *)
HolderIsLent ==
  \A s \in Sessions :
    /\ \A t \in Threads : Lent(t, s) => Holder(s) = t
    /\ (\A t \in Threads : ~Lent(t, s)) => Holder(s) = None

(* The CHOOSE of Holder has one thread to choose from.                     *)
LEMMA HolderFacts == IInv => HolderIsLent
<1> SUFFICES ASSUME IInv, NEW s \in Sessions
             PROVE  /\ \A t \in Threads : Lent(t, s) => Holder(s) = t
                    /\ (\A t \in Threads : ~Lent(t, s)) => Holder(s) = None
  BY DEF HolderIsLent
<1>1. (\A t \in Threads : ~Lent(t, s)) => Holder(s) = None
  BY DEF Lent, Holder
<1>2. ASSUME NEW t \in Threads, Lent(t, s) PROVE Holder(s) = t
  <2>1. s \notin stolen /\ s \notin twice /\ Has(t, s)
    BY <1>2 DEF Lent, IInv, Shape, UsersOK
  <2>2. \A u \in Threads : Has(u, s) => u = t
    BY <2>1 DEF IInv, LeaseExclusive
  <2>3. Holder(s) = CHOOSE u \in Threads : Has(u, s)
    BY <2>1 DEF Holder
  <2> QED
    BY <2>1, <2>2, <2>3
<1> QED
  BY <1>1, <1>2

(* The same after the step.                                                *)
LEMMA HolderFactsNext == IInv' => HolderIsLent'
<1> QED
  BY HolderFacts, PTL

(* A session that is lent is open, and lent to one thread.                 *)
LEMMA LentFacts ==
  ASSUME IInv, NEW t \in Threads, NEW s \in Sessions, Lent(t, s)
  PROVE  /\ sess[s].open /\ sess[s].searcher \in Searchers
         /\ thread[t].session = s /\ Holder(s) = t /\ t # None
         /\ \A u \in Threads : Lent(u, s) => u = t
         /\ \A r \in Sessions : Lent(t, r) => r = s
<1>1. s \notin stolen /\ Has(t, s)
  BY DEF Lent, IInv, Shape, UsersOK
<1>2. sess[s].open /\ \A u \in Threads : Has(u, s) => u = t
  BY <1>1 DEF IInv, LeaseExclusive
<1> QED
  BY <1>1, <1>2, HolderFacts, PoolAssumption
     DEF HolderIsLent, Lent, Has, IInv, Shape, PlacesOK

(* Nobody notices a step that lends nothing and takes nothing back.        *)
LEMMA SameHolders ==
  ASSUME IInv, IInv',
         \A t \in Threads, s \in Sessions : Lent(t, s)' <=> Lent(t, s),
         \A x \in Searchers : content'[x] = content[x],
         \A s \in Sessions, t \in Threads :
           Lent(t, s) => sess'[s].searcher = sess[s].searcher
  PROVE  UNCHANGED <<Holders, Views>>
<1>1. \A s \in Sessions : Holder(s)' = Holder(s)
  BY HolderFacts, HolderFactsNext DEF HolderIsLent
<1>2. \A s \in Sessions : View(s)' = View(s)
  <2> SUFFICES ASSUME NEW s \in Sessions PROVE View(s)' = View(s)
    OBVIOUS
  <2>1. CASE \E t \in Threads : Lent(t, s)
    BY <1>1, <2>1, LentFacts DEF View
  <2>2. CASE \A t \in Threads : ~Lent(t, s)
    BY <1>1, <2>2, HolderFacts DEF View, HolderIsLent
  <2> QED
    BY <2>1, <2>2
<1> QED
  BY <1>1, <1>2 DEF Holders, Views

(* The steps of SnapshotLeases, in terms of the pool.                      *)
LEMMA StutterStep ==
  ASSUME UNCHANGED <<written, promised, Holders, Views, AllAsked>>
  PROVE  UNCHANGED Leases!vars
BY DEF Leases!vars, Holders, Views, View, AllAsked, Asked

(* A write.                                                                *)
LEMMA WriteStep ==
  ASSUME written' = written + 1, UNCHANGED <<promised, Holders, Views, AllAsked>>
  PROVE  Leases!Next
BY DEF Leases!Next, Leases!Write, Holders, Views, View, AllAsked, Asked

(* A thread asks for something else.                                       *)
LEMMA AskStep ==
  ASSUME NEW t \in Threads, NEW n \in {0, written},
         AllAsked' = [AllAsked EXCEPT ![t] = n],
         UNCHANGED <<written, promised, Holders, Views>>
  PROVE  Leases!Next
<1>1. Leases!Ask(t)
  BY DEF Leases!Ask, Holders, Views, View, AllAsked, Asked
<1> QED
  BY <1>1 DEF Leases!Next

(* A session is lent.                                                      *)
LEMMA LendStep ==
  ASSUME NEW t \in Threads, NEW s \in Sessions, NEW v \in promised .. written,
         \A r \in Sessions : Holders[r] # t, Holders[s] = None,
         Holders' = [Holders EXCEPT ![s] = t],
         Views' = [Views EXCEPT ![s] = v],
         UNCHANGED <<written, promised, AllAsked>>
  PROVE  Leases!Next
<1>1. Leases!Lend(t, s)
  BY DEF Leases!Lend, Holders, Views, View, AllAsked, Asked
<1> QED
  BY <1>1 DEF Leases!Next

(* A session shows more.                                                   *)
LEMMA ShowStep ==
  ASSUME NEW t \in Threads, NEW s \in Sessions,
         NEW v \in Views[s] .. written, v >= AllAsked[t],
         Holders[s] = t,
         Views' = [Views EXCEPT ![s] = v],
         promised' = IF AllAsked[t] > promised THEN AllAsked[t] ELSE promised,
         UNCHANGED <<written, Holders, AllAsked>>
  PROVE  Leases!Next
<1>1. Leases!Show(t, s)
  BY DEF Leases!Show, Holders, Views, View, AllAsked, Asked
<1> QED
  BY <1>1 DEF Leases!Next

(* A session is taken back.                                                *)
LEMMA TakeBackStep ==
  ASSUME NEW t \in Threads, NEW s \in Sessions,
         Holders[s] = t,
         Holders' = [Holders EXCEPT ![s] = None],
         Views' = [Views EXCEPT ![s] = -1],
         AllAsked' = [AllAsked EXCEPT ![t] = 0],
         UNCHANGED <<written, promised>>
  PROVE  Leases!Next
<1>1. Leases!TakeBack(t, s)
  BY DEF Leases!TakeBack, Holders, Views, View, AllAsked, Asked
<1> QED
  BY <1>1 DEF Leases!Next

(* A step that neither lends, nor takes back, nor shows more.              *)
LEMMA QuietStep ==
  ASSUME IInv, IInv', UNCHANGED <<written, promised>>,
         \A t \in Threads, s \in Sessions : Lent(t, s)' <=> Lent(t, s),
         \A x \in Searchers : content'[x] = content[x],
         \A s \in Sessions, t \in Threads :
           Lent(t, s) => sess'[s].searcher = sess[s].searcher,
         \A t \in Threads : Asked(t)' = Asked(t)
  PROVE  UNCHANGED Leases!vars
<1>1. UNCHANGED <<Holders, Views>>
  BY SameHolders
<1>2. UNCHANGED AllAsked
  BY DEF AllAsked
<1> QED
  BY <1>1, <1>2, StutterStep

(* A thread that stays with its session and with what it has asked for.    *)
LEMMA StayingStep ==
  ASSUME IInv, IInv', NEW t \in Threads,
         UNCHANGED <<written, promised, twice>>,
         \A x \in Searchers : content'[x] = content[x],
         \A s \in Sessions : sess'[s].searcher = sess[s].searcher,
         \A u \in Threads : u # t => thread'[u] = thread[u],
         thread'[t].session = thread[t].session,
         thread'[t].due = thread[t].due,
         thread'[t].at # "returningAgain", thread[t].at # "returningAgain"
  PROVE  UNCHANGED Leases!vars
<1>1. \A u \in Threads, s \in Sessions : Lent(u, s)' <=> Lent(u, s)
  BY DEF Lent, Has
<1>2. \A u \in Threads : Asked(u)' = Asked(u)
  BY DEF Asked
<1> QED
  BY <1>1, <1>2, QuietStep

(* Opening, closing and refreshing.                                        *)
LEMMA LuceneStep ==
  ASSUME IInv, IInv', Lifecycle \/ ReopenBegin \/ ReopenEnd
  PROVE  UNCHANGED Leases!vars
<1>1. UNCHANGED <<written, promised, poolVars, sess, thread>>
  BY DEF Lifecycle, OpenStore, NewStore, OpenNames, OpenFails, CloseStore,
     CloseNames, CloseFails, ReopenBegin, ReopenEnd
<1>2. \A x \in Searchers : content'[x] = content[x]
  <2>1. CASE OpenStore
    BY <2>1 DEF OpenStore, NewStore, IInv, Shape, LuceneOK, Searchers
  <2>2. CASE ReopenEnd
    BY <1>1, <2>2, EndedShows DEF ReopenEnd
  <2>3. CASE UNCHANGED content
    BY <2>3
  <2> QED
    BY <2>1, <2>2, <2>3 DEF Lifecycle, OpenNames, OpenFails, CloseStore,
       CloseNames, CloseFails, ReopenBegin, luceneVars
<1>3. \A t \in Threads, s \in Sessions : Lent(t, s)' <=> Lent(t, s)
  BY <1>1 DEF Lent, Has, poolVars
<1>4. \A t \in Threads : Asked(t)' = Asked(t)
  BY <1>1 DEF Asked, poolVars
<1> QED
  BY <1>1, <1>2, <1>3, <1>4, QuietStep

(* A write.                                                                *)
LEMMA WriteRefines ==
  ASSUME IInv, IInv', NEW t \in Threads, Write(t)
  PROVE  Leases!Next
<1>1. /\ written' = written + 1
      /\ UNCHANGED <<luceneVars, poolVars, sess, thread, promised>>
  BY DEF Write
<1>2. \A u \in Threads, s \in Sessions : Lent(u, s)' <=> Lent(u, s)
  BY <1>1 DEF Lent, Has, poolVars
<1>3. UNCHANGED <<Holders, Views>>
  BY <1>1, <1>2, SameHolders DEF luceneVars
<1>4. UNCHANGED AllAsked
  BY <1>1 DEF AllAsked, Asked, poolVars
<1> QED
  BY <1>1, <1>3, <1>4, WriteStep

(* What a thread has asked for changes.                                    *)
LEMMA AskRefines ==
  ASSUME IInv, IInv', NEW t \in Threads, NEW n \in {0, written},
         UNCHANGED <<written, promised, twice, sess>>,
         \A x \in Searchers : content'[x] = content[x],
         \A u \in Threads : u # t => thread'[u] = thread[u],
         thread'[t].session = thread[t].session,
         thread'[t].due = n,
         thread'[t].at # "returningAgain", thread[t].at # "returningAgain"
  PROVE  [Leases!Next]_(Leases!vars)
<1>1. \A u \in Threads, s \in Sessions : Lent(u, s)' <=> Lent(u, s)
  BY DEF Lent, Has
<1>2. UNCHANGED <<Holders, Views>>
  BY <1>1, SameHolders
<1>3. \A u \in Threads : u # t => Asked(u)' = Asked(u)
  BY DEF Asked
<1>4. CASE thread[t].session \in twice
  <2>1. Asked(t)' = Asked(t)
    BY <1>4 DEF Asked
  <2>2. UNCHANGED AllAsked
    BY <1>3, <2>1 DEF AllAsked
  <2> QED
    BY <1>2, <2>2, StutterStep
<1>5. CASE thread[t].session \notin twice
  <2>1. Asked(t)' = n
    BY <1>5 DEF Asked
  <2>2. AllAsked' = [AllAsked EXCEPT ![t] = n]
    BY <1>3, <2>1 DEF AllAsked
  <2> QED
    BY <1>2, <2>2, AskStep
<1> QED
  BY <1>4, <1>5

(* The steps of commit.                                                    *)
LEMMA CommitRefines ==
  ASSUME IInv, IInv', NEW t \in Threads,
         CommitStart(t) \/ CommitSkips(t) \/ CommitBegins(t) \/ CommitEnds(t)
           \/ CommitThrows(t) \/ SwitchThrows(t) \/ SwitchRelease(t)
  PROVE  [Leases!Next]_(Leases!vars)
<1>1. UsersOK /\ \A place \in {"using", "refresh", "tryRefresh", "release", "acquire"} :
                  place \in Places
  BY DEF IInv, Shape, Places
<1>2. CASE CommitStart(t)
  <2>1. PICK place \in {"refresh", "tryRefresh"}, n \in {written, thread[t].due} :
          Commits(t, place, n)
    BY <1>2 DEF CommitStart
  <2>2. n \in Nat
    BY <1>1 DEF IInv, Shape, LuceneOK, UsersOK, ThreadRec
  <2>3. /\ thread[t].at = "using"
        /\ thread' = [thread EXCEPT ![t].at = place, ![t].due = n]
        /\ UNCHANGED <<luceneVars, written, poolVars, sess, promised>>
    BY <2>1 DEF Commits
  <2>4. /\ thread'[t].at = place /\ thread'[t].session = thread[t].session
        /\ thread'[t].due = n
        /\ \A u \in Threads : u # t => thread'[u] = thread[u]
    <3>1. place \in Places
      BY <1>1
    <3> QED
      BY <1>1, <2>2, <2>3, <3>1, GoesDueFacts
  <2>5. UNCHANGED <<twice, content>>
    BY <2>3 DEF poolVars, luceneVars
  <2>6. CASE n = written
    BY <2>3, <2>4, <2>5, <2>6, AskRefines
  <2>7. CASE n = thread[t].due
    BY <2>3, <2>4, <2>5, <2>7, StayingStep
  <2> QED
    BY <2>6, <2>7
<1>3. CASE CommitSkips(t) \/ CommitBegins(t) \/ CommitEnds(t)
  <2>1. /\ thread[t].at \in {"refresh", "tryRefresh"} \/ CommitEnds(t)
        /\ UNCHANGED <<written, poolVars, sess, promised>>
        /\ \/ UNCHANGED thread
           \/ \E place \in {"using", "release"} : Goes(t, place)
        /\ UNCHANGED content \/ Ends(t)
    BY <1>3 DEF CommitSkips, CommitBegins, CommitEnds, luceneVars
  <2>2. thread[t].at \in {"refresh", "tryRefresh"}
    <3>1. CASE CommitEnds(t)
      BY <3>1 DEF CommitEnds, Ends, IInv, Shape, PlacesOK
    <3> QED
      BY <2>1, <3>1
  <2>3. /\ thread'[t].at # "returningAgain" /\ thread'[t].session = thread[t].session
        /\ thread'[t].due = thread[t].due
        /\ \A u \in Threads : u # t => thread'[u] = thread[u]
    BY <1>1, <2>1, <2>2, GoesFacts
  <2>4. \A x \in Searchers : content'[x] = content[x]
    BY <2>1, EndedShows
  <2> QED
    BY <2>1, <2>2, <2>3, <2>4, StayingStep DEF poolVars
<1>4. CASE CommitThrows(t) \/ SwitchThrows(t)
  <2>1. /\ thread[t].at \in {"refresh", "tryRefresh", "release", "acquire"}
        /\ thread' = [thread EXCEPT ![t].at = "using", ![t].due = 0]
        /\ UNCHANGED <<written, poolVars, sess, promised>>
        /\ UNCHANGED content \/ Ends(t)
    BY <1>4 DEF CommitThrows, SwitchThrows, luceneVars
  <2>2. /\ thread'[t].at = "using" /\ thread'[t].session = thread[t].session
        /\ thread'[t].due = 0
        /\ \A u \in Threads : u # t => thread'[u] = thread[u]
    BY <1>1, <2>1, GoesDueFacts
  <2>3. \A x \in Searchers : content'[x] = content[x]
    BY <2>1, EndedShows
  <2> QED
    BY <2>1, <2>2, <2>3, AskRefines DEF poolVars
<1>5. CASE SwitchRelease(t)
  <2>1. PICK s : s = thread[t].session
    OBVIOUS
  <2>2. /\ thread[t].at = "release" /\ Goes(t, "acquire")
        /\ sess' = [sess EXCEPT ![s].counted = FALSE]
        /\ UNCHANGED <<written, promised, content, poolVars>>
    BY <1>5, <2>1 DEF SwitchRelease
  <2>3. /\ thread'[t].at = "acquire" /\ thread'[t].session = thread[t].session
        /\ thread'[t].due = thread[t].due
        /\ \A u \in Threads : u # t => thread'[u] = thread[u]
    BY <1>1, <2>2, GoesFacts
  <2>4. \A r \in Sessions : sess'[r].searcher = sess[r].searcher
    <3>1. sess' = [sess EXCEPT ![s] = [sess[s] EXCEPT !.counted = FALSE]]
      BY <2>2
    <3>2. \A r \in Sessions : sess[r] \in SessionRec
      BY <1>1 DEF UsersOK
    <3> QED
      BY <1>1, <3>1, <3>2, SessFacts DEF UsersOK
  <2> QED
    BY <2>2, <2>3, <2>4, StayingStep DEF poolVars
<1> QED
  BY <1>2, <1>3, <1>4, <1>5

(* A session goes to a thread that has none.                               *)
LEMMA LentRefines ==
  ASSUME IInv, IInv', NEW t \in Threads, NEW s \in Sessions,
         NEW n \in promised .. written,
         UNCHANGED <<written, promised>>,
         \A x \in Searchers : content'[x] = content[x],
         \A u \in Threads, r \in Sessions :
           Lent(u, r)' <=> Lent(u, r) \/ (u = t /\ r = s),
         \A u \in Threads : ~Lent(u, s),
         \A r \in Sessions : ~Lent(t, r),
         \A r \in Sessions : r # s => sess'[r].searcher = sess[r].searcher,
         content'[sess'[s].searcher] = n,
         \A u \in Threads : Asked(u)' = Asked(u)
  PROVE  Leases!Next
<1>1. HolderIsLent /\ HolderIsLent'
  BY HolderFacts, HolderFactsNext
<1>2. Holder(s) = None /\ Holder(s)' = t /\ t # None
  BY <1>1, PoolAssumption DEF HolderIsLent
<1>3. \A r \in Sessions : r # s => Holder(r)' = Holder(r)
  BY <1>1 DEF HolderIsLent
<1>4. \A r \in Sessions : Holder(r) # t
  <2> SUFFICES ASSUME NEW r \in Sessions PROVE Holder(r) # t
    OBVIOUS
  <2>1. CASE \E u \in Threads : Lent(u, r)
    BY <1>1, <2>1 DEF HolderIsLent
  <2>2. CASE \A u \in Threads : ~Lent(u, r)
    BY <1>1, <1>2, <2>2 DEF HolderIsLent
  <2> QED
    BY <2>1, <2>2
<1>5. View(s)' = n
  BY <1>2 DEF View
<1>6. \A r \in Sessions : r # s => View(r)' = View(r)
  <2> SUFFICES ASSUME NEW r \in Sessions, r # s PROVE View(r)' = View(r)
    OBVIOUS
  <2>1. CASE \E u \in Threads : Lent(u, r)
    BY <1>3, <2>1, LentFacts DEF View
  <2>2. CASE \A u \in Threads : ~Lent(u, r)
    BY <1>1, <1>3, <2>2 DEF View, HolderIsLent
  <2> QED
    BY <2>1, <2>2
<1>7. /\ \A r \in Sessions : Holders[r] # t
      /\ Holders[s] = None
      /\ Holders' = [Holders EXCEPT ![s] = t]
      /\ Views' = [Views EXCEPT ![s] = n]
      /\ AllAsked' = AllAsked
  BY <1>2, <1>3, <1>4, <1>5, <1>6 DEF Holders, Views, AllAsked
<1> QED
  BY <1>7, LendStep

(* A session that is lent is lent no more.                                 *)
LEMMA TakenRefines ==
  ASSUME IInv, IInv', NEW t \in Threads, NEW s \in Sessions,
         UNCHANGED <<written, promised>>,
         \A x \in Searchers : content'[x] = content[x],
         \A u \in Threads, r \in Sessions : Lent(u, r)' <=> Lent(u, r) /\ r # s,
         Lent(t, s),
         \A r \in Sessions : r # s => sess'[r].searcher = sess[r].searcher,
         Asked(t)' = 0,
         \A u \in Threads : u # t => Asked(u)' = Asked(u)
  PROVE  Leases!Next
<1>1. HolderIsLent /\ HolderIsLent'
  BY HolderFacts, HolderFactsNext
<1>2. Holder(s) = t /\ Holder(s)' = None
  BY <1>1 DEF HolderIsLent
<1>3. \A r \in Sessions : r # s => Holder(r)' = Holder(r)
  BY <1>1 DEF HolderIsLent
<1>4. View(s)' = -1
  BY <1>2 DEF View
<1>5. \A r \in Sessions : r # s => View(r)' = View(r)
  <2> SUFFICES ASSUME NEW r \in Sessions, r # s PROVE View(r)' = View(r)
    OBVIOUS
  <2>1. CASE \E u \in Threads : Lent(u, r)
    BY <1>3, <2>1, LentFacts DEF View
  <2>2. CASE \A u \in Threads : ~Lent(u, r)
    BY <1>1, <1>3, <2>2 DEF View, HolderIsLent
  <2> QED
    BY <2>1, <2>2
<1>6. /\ Holders[s] = t
      /\ Holders' = [Holders EXCEPT ![s] = None]
      /\ Views' = [Views EXCEPT ![s] = -1]
      /\ AllAsked' = [AllAsked EXCEPT ![t] = 0]
  BY <1>2, <1>3, <1>4, <1>5 DEF Holders, Views, AllAsked
<1> QED
  BY <1>6, TakeBackStep

(* What a searcher shows is a number of writes.                            *)
LEMMA ContentIsNat == IInv => \A x \in Searchers : content[x] \in Nat
BY DEF IInv, Shape, LuceneOK, Searchers

(* A session that is lent shows more.                                      *)
LEMMA ShownRefines ==
  ASSUME IInv, IInv', NEW t \in Threads, NEW s \in Sessions, Lent(t, s),
         NEW n \in Nat, n <= written, Asked(t) <= n, View(s) <= n,
         content'[sess'[s].searcher] = n, Asked(t) \in Nat,
         promised' = IF promised < Asked(t) THEN Asked(t) ELSE promised,
         written' = written,
         \A x \in Searchers : content'[x] = content[x],
         \A u \in Threads, r \in Sessions : Lent(u, r)' <=> Lent(u, r),
         \A r \in Sessions : r # s => sess'[r].searcher = sess[r].searcher,
         \A u \in Threads : Asked(u)' = Asked(u)
  PROVE  Leases!Next
<1>1. HolderIsLent /\ HolderIsLent'
  BY HolderFacts, HolderFactsNext
<1>2. \A r \in Sessions : Holder(r)' = Holder(r)
  BY <1>1 DEF HolderIsLent
<1>3. Holder(s) = t /\ t # None /\ sess[s].searcher \in Searchers
  BY LentFacts
<1>4. View(s)' = n
  BY <1>2, <1>3 DEF View
<1>5. \A r \in Sessions : r # s => View(r)' = View(r)
  <2> SUFFICES ASSUME NEW r \in Sessions, r # s PROVE View(r)' = View(r)
    OBVIOUS
  <2>1. CASE \E u \in Threads : Lent(u, r)
    BY <1>2, <2>1, LentFacts DEF View
  <2>2. CASE \A u \in Threads : ~Lent(u, r)
    BY <1>1, <1>2, <2>2 DEF View, HolderIsLent
  <2> QED
    BY <2>1, <2>2
<1>6. View(s) \in Nat
  BY <1>3, ContentIsNat DEF View
<1>7. written \in Nat /\ promised \in Nat
  BY DEF IInv, Shape, LuceneOK
<1>8. /\ Holders[s] = t /\ Holders' = Holders
      /\ Views[s] = View(s) /\ Views' = [Views EXCEPT ![s] = n]
      /\ AllAsked[t] = Asked(t) /\ AllAsked' = AllAsked
  BY <1>2, <1>3, <1>4, <1>5 DEF Holders, Views, AllAsked
<1>9. n \in Views[s] .. written /\ n >= AllAsked[t]
  BY <1>6, <1>7, <1>8
<1>10. promised' = IF AllAsked[t] > promised THEN AllAsked[t] ELSE promised
  BY <1>7, <1>8
<1> QED
  BY <1>8, <1>9, <1>10, ShowStep

(* A thread gives its session away: nobody notices if it was returned      *)
(* twice.                                                                  *)
LEMMA LeavingRefines ==
  ASSUME IInv, IInv', NEW t \in Threads, NEW s \in Sessions,
         s = thread[t].session,
         UNCHANGED <<written, promised, twice>>,
         \A x \in Searchers : content'[x] = content[x],
         thread'[t].session = None, thread'[t].due = 0,
         \A u \in Threads : u # t => thread'[u] = thread[u],
         \A r \in Sessions : r # s => sess'[r].searcher = sess[r].searcher
  PROVE  [Leases!Next]_(Leases!vars)
<1>1. \A u \in Threads : u # t => Asked(u)' = Asked(u)
  BY DEF Asked
<1>2. Asked(t)' = 0
  BY DEF Asked
<1>3. \A r \in Sessions : ~Lent(t, r)'
  BY PoolAssumption DEF Lent, Has
<1>4. \A u \in Threads, r \in Sessions : u # t => (Lent(u, r)' <=> Lent(u, r))
  BY DEF Lent, Has
<1>5. \A r \in Sessions : Lent(t, r) => r = s
  BY DEF Lent, Has
<1>6. CASE Lent(t, s)
  <2>1. \A u \in Threads : Lent(u, s) => u = t
    BY <1>6, LentFacts
  <2>2. \A u \in Threads, r \in Sessions : Lent(u, r)' <=> Lent(u, r) /\ r # s
    BY <1>3, <1>4, <1>5, <2>1
  <2> QED
    BY <1>1, <1>2, <1>6, <2>2, TakenRefines
<1>7. CASE ~Lent(t, s)
  <2>1. s \in twice
    BY <1>7 DEF Lent, Has, IInv, Shape, PlacesOK
  <2>2. Asked(t) = 0
    BY <2>1 DEF Asked
  <2>3. \A u \in Threads, r \in Sessions : Lent(u, r)' <=> Lent(u, r)
    BY <1>3, <1>4, <1>5, <1>7
  <2>4. \A r \in Sessions, u \in Threads :
          Lent(u, r) => sess'[r].searcher = sess[r].searcher
    BY <2>1 DEF Lent
  <2>5. \A u \in Threads : Asked(u)' = Asked(u)
    BY <1>1, <1>2, <2>2
  <2> QED
    BY <2>3, <2>4, <2>5, QuietStep
<1> QED
  BY <1>6, <1>7

(* The steps of aquireSession and returnSession.                           *)
LEMMA MonitorRefines ==
  ASSUME IInv, IInv', NEW t \in Threads,
         AquireCheck(t) \/ AquireThrows(t) \/ Return(t) \/ ReturnCheck(t)
           \/ ReturnThrows(t) \/ ReturnEnd(t)
  PROVE  [Leases!Next]_(Leases!vars)
<1>1. /\ UsersOK /\ None \in Sessions \cup {None}
      /\ \A place \in {"idle", "aquiring", "leaving", "returning"} :
           place \in Places
  BY DEF IInv, Shape, Places
<1>2. CASE AquireCheck(t) \/ Return(t) \/ ReturnCheck(t)
  <2>1. PICK place \in {"aquiring", "leaving", "returning"} :
          /\ thread[t].at # "returningAgain" /\ Goes(t, place)
          /\ UNCHANGED <<content, written, promised, twice, sess>>
    BY <1>2 DEF AquireCheck, Return, ReturnCheck, luceneVars, poolVars
  <2>2. place \in Places
    BY <1>1
  <2>3. /\ thread'[t].at = place /\ thread'[t].session = thread[t].session
        /\ thread'[t].due = thread[t].due
        /\ \A u \in Threads : u # t => thread'[u] = thread[u]
    BY <1>1, <2>1, <2>2, GoesFacts
  <2> QED
    BY <2>1, <2>3, StayingStep
<1>3. CASE AquireThrows(t)
  <2>1. PICK s \in Sessions :
          /\ thread[t].at = "aquiring" /\ Goes(t, "idle")
          /\ sess' = [sess EXCEPT ![s].made = TRUE]
          /\ UNCHANGED <<content, written, promised, twice>>
    BY <1>3 DEF AquireThrows, luceneVars
  <2>2. /\ thread'[t].at = "idle" /\ thread'[t].session = thread[t].session
        /\ thread'[t].due = thread[t].due
        /\ \A u \in Threads : u # t => thread'[u] = thread[u]
    BY <1>1, <2>1, GoesFacts
  <2>3. \A r \in Sessions : sess'[r].searcher = sess[r].searcher
    <3>1. sess' = [sess EXCEPT ![s] = [sess[s] EXCEPT !.made = TRUE]]
      BY <2>1
    <3>2. sess[s] \in SessionRec
      BY <1>1 DEF UsersOK
    <3> QED
      BY <1>1, <3>1, <3>2, SessFacts DEF UsersOK
  <2> QED
    BY <2>1, <2>2, <2>3, StayingStep
<1>4. CASE ReturnThrows(t) \/ ReturnEnd(t)
  <2>1. PICK s : s = thread[t].session
    OBVIOUS
  <2>2. /\ thread[t].at \in {"leaving", "returning", "returningAgain"}
        /\ \E x \in {None, s} : thread' = [thread EXCEPT ![t] = Idle(x)]
        /\ UNCHANGED <<content, written, promised, twice>>
    BY <1>4, <2>1 DEF ReturnThrows, ReturnEnd, TakesBack, luceneVars
  <2>3. s \in Sessions
    BY <2>1, <2>2 DEF IInv, Shape, PlacesOK
  <2>4. /\ thread'[t].session = None /\ thread'[t].due = 0
        /\ \A u \in Threads : u # t => thread'[u] = thread[u]
    BY <1>1, <2>2, <2>3, IdleFacts
  <2>5. \A r \in Sessions : r # s => sess'[r].searcher = sess[r].searcher
    <3>1. CASE ReturnThrows(t)
      BY <3>1 DEF ReturnThrows
    <3>2. CASE ReturnEnd(t)
      <4>1. TakesBack(t, s)
        <5>1. PICK r \in Sessions : TakesBack(t, r)
          BY <3>2 DEF ReturnEnd
        <5>2. r = s
          BY <2>1, <5>1 DEF TakesBack
        <5> QED
          BY <5>1, <5>2
      <4>2. \/ sess' = sess
            \/ sess' = [sess EXCEPT ![s].open = FALSE, ![s].searcher = 0,
                                    ![s].counted = FALSE]
        BY <4>1 DEF TakesBack
      <4> QED
        BY <1>1, <4>2 DEF UsersOK
    <3> QED
      BY <1>4, <3>1, <3>2
  <2> QED
    BY <2>1, <2>2, <2>3, <2>4, <2>5, LeavingRefines
<1> QED
  BY <1>2, <1>3, <1>4

(* A session is acquired: nobody notices if it was returned twice.         *)
LEMMA AquireRefines ==
  ASSUME IInv, IInv', NEW t \in Threads, AquireEnd(t)
  PROVE  [Leases!Next]_(Leases!vars)
<1>1. PICK s \in Sessions, rest \in Rests : ~sess[s].open /\ Lends(t, s, rest)
  BY DEF AquireEnd
<1>2. PICK c : c = Current
  OBVIOUS
<1> DEFINE q == [[[[sess[s] EXCEPT !.made = TRUE] EXCEPT !.open = TRUE]
                    EXCEPT !.searcher = c] EXCEPT !.counted = TRUE]
           p == [[Idle(None) EXCEPT !.at = "using"] EXCEPT !.session = s]
<1>3. /\ thread[t].at = "aquiring" /\ thread' = [thread EXCEPT ![t] = p]
      /\ sess' = [sess EXCEPT ![s] = q]
      /\ UNCHANGED <<content, written, twice, promised>>
  BY <1>1, <1>2 DEF Lends, Takes, Idle, IInv, Shape, UsersOK
<1>4. /\ thread[t].session = None /\ thread[t].due = 0
      /\ c \in Searchers /\ content[c] \in promised .. written
  <2>1. thread[t].session = None /\ thread[t].due = 0 /\ managers # <<>>
    BY <1>3 DEF IInv, Shape, PlacesOK, Started
  <2>2. c \in Searchers /\ promised <= content[c] /\ content[c] <= written
    BY <1>2, <2>1, CurrentFacts DEF IInv, Shape, ShowsOK
  <2>3. content[c] \in Nat /\ promised \in Nat /\ written \in Nat
    BY <2>2 DEF IInv, Shape, LuceneOK, Searchers
  <2> QED
    BY <2>1, <2>2, <2>3
<1>5. /\ thread'[t].at = "using" /\ thread'[t].session = s /\ thread'[t].due = 0
      /\ \A u \in Threads : u # t => thread'[u] = thread[u]
  <2>1. p.at = "using" /\ p.session = s /\ p.due = 0
    BY DEF Idle
  <2> HIDE DEF p
  <2> QED
    BY <1>3, <2>1 DEF IInv, Shape, UsersOK
<1>6. /\ sess'[s].searcher = c
      /\ \A r \in Sessions : r # s => sess'[r] = sess[r]
  <2>1. q.searcher = c
    BY DEF IInv, Shape, UsersOK, SessionRec
  <2> HIDE DEF q
  <2> QED
    BY <1>3, <2>1 DEF IInv, Shape, UsersOK
<1> HIDE DEF p, q
<1>7. \A u \in Threads : Asked(u)' = Asked(u)
  BY <1>3, <1>4, <1>5 DEF Asked
<1>8. \A r \in Sessions : ~Lent(t, r)
  BY <1>4, PoolAssumption DEF Lent, Has
<1>9. CASE s \notin twice
  <2>1. \A u \in Threads : ~Lent(u, s)
    BY <1>1, LentFacts
  <2>2. \A u \in Threads, r \in Sessions :
          Lent(u, r)' <=> Lent(u, r) \/ (u = t /\ r = s)
    BY <1>3, <1>5, <1>8, <1>9 DEF Lent, Has
  <2>3. content'[sess'[s].searcher] = content[c]
    BY <1>3, <1>6
  <2> QED
    BY <1>3, <1>4, <1>6, <1>7, <1>8, <2>1, <2>2, <2>3, LentRefines
<1>10. CASE s \in twice
  <2>1. \A u \in Threads, r \in Sessions : Lent(u, r)' <=> Lent(u, r)
    BY <1>3, <1>5, <1>8, <1>10 DEF Lent, Has
  <2>2. \A r \in Sessions, u \in Threads :
          Lent(u, r) => sess'[r].searcher = sess[r].searcher
    BY <1>6, <1>10 DEF Lent
  <2> QED
    BY <1>3, <1>7, <2>1, <2>2, QuietStep
<1> QED
  BY <1>9, <1>10

(* The session of a commit(true) takes the current searcher.               *)
LEMMA SwitchRefines ==
  ASSUME IInv, IInv', NEW t \in Threads, SwitchAcquire(t)
  PROVE  [Leases!Next]_(Leases!vars)
<1>1. PICK s, c, n : s = thread[t].session /\ c = Current /\ n = content[c]
  OBVIOUS
<1> DEFINE q == [[sess[s] EXCEPT !.searcher = c] EXCEPT !.counted = TRUE]
<1>2. /\ thread[t].at = "acquire" /\ Goes(t, "using") /\ "using" \in Places
      /\ sess' = [sess EXCEPT ![s].searcher = c, ![s].counted = TRUE]
      /\ promised' = IF s \notin twice /\ promised < thread[t].due
                     THEN thread[t].due ELSE promised
      /\ UNCHANGED <<content, written, twice>>
  BY <1>1 DEF SwitchAcquire, Places, poolVars
<1>3. UsersOK /\ s \in Sessions /\ managers # <<>>
  BY <1>1, <1>2 DEF IInv, Shape, PlacesOK, Started
<1>4. /\ c \in Searchers /\ n \in Nat /\ n <= written /\ thread[t].due <= n
      /\ \A x \in Searchers : content[x] <= n
  <2>1. c \in Searchers
    BY <1>1, <1>3, CurrentFacts DEF IInv, Shape
  <2>2. \A x \in Searchers : content[x] \in Nat
    BY ContentIsNat
  <2>3. /\ thread[t].due <= content[c] /\ content[c] <= written
        /\ \A x \in Searchers : content[x] <= content[c]
    BY <1>1, <1>2, <1>3, <2>1 DEF IInv, ShowsOK
  <2> QED
    BY <1>1, <2>1, <2>2, <2>3
<1>5. /\ thread'[t].at = "using" /\ thread'[t].session = thread[t].session
      /\ thread'[t].due = thread[t].due
      /\ \A u \in Threads : u # t => thread'[u] = thread[u]
  BY <1>2, <1>3, GoesFacts
<1>6. /\ sess'[s].searcher = c
      /\ \A r \in Sessions : r # s => sess'[r] = sess[r]
  <2>1. q.searcher = c
    BY <1>3 DEF UsersOK, SessionRec
  <2>2. sess' = [sess EXCEPT ![s] = q]
    BY <1>2, <1>3 DEF UsersOK
  <2> HIDE DEF q
  <2> QED
    BY <1>3, <2>1, <2>2 DEF UsersOK
<1> HIDE DEF q
<1>7. \A u \in Threads : Asked(u)' = Asked(u)
  BY <1>2, <1>5 DEF Asked
<1>8. \A u \in Threads, r \in Sessions : Lent(u, r)' <=> Lent(u, r)
  BY <1>2, <1>5 DEF Lent, Has
<1>9. CASE s \in twice
  <2>1. \A r \in Sessions, u \in Threads :
          Lent(u, r) => sess'[r].searcher = sess[r].searcher
    BY <1>6, <1>9 DEF Lent
  <2> QED
    BY <1>2, <1>7, <1>8, <1>9, <2>1, QuietStep
<1>10. CASE s \notin twice
  <2>1. Lent(t, s) /\ Asked(t) = thread[t].due /\ thread[t].due \in Nat
    BY <1>1, <1>2, <1>3, <1>10 DEF Lent, Has, Asked, UsersOK, ThreadRec
  <2>2. View(s) <= n
    <3>1. sess[s].searcher \in Searchers /\ Holder(s) # None
      BY <1>3, <2>1, LentFacts
    <3> QED
      BY <1>4, <3>1 DEF View
  <2>3. content'[sess'[s].searcher] = n
    BY <1>1, <1>2, <1>6
  <2>4. promised' = IF promised < Asked(t) THEN Asked(t) ELSE promised
    BY <1>2, <1>10, <2>1
  <2> QED
    BY <1>2, <1>3, <1>4, <1>6, <1>7, <1>8, <2>1, <2>2, <2>3, <2>4, ShownRefines
<1> QED
  BY <1>9, <1>10

(* A second return of a session begins: for the threads, the session is    *)
(* taken back from whoever has it.                                         *)
LEMMA AgainRefines ==
  ASSUME IInv, IInv', NEW t \in Threads, ReturnAgain(t)
  PROVE  [Leases!Next]_(Leases!vars)
<1>1. PICK s : s = thread[t].last
  OBVIOUS
<1> DEFINE p == [[thread[t] EXCEPT !.at = "returningAgain"] EXCEPT !.session = s]
<1>2. /\ thread[t].at = "idle" /\ s # None
      /\ thread' = [thread EXCEPT ![t].at = "returningAgain", ![t].session = s]
      /\ twice' = twice \cup {s}
      /\ UNCHANGED <<content, written, promised, sess>>
  BY <1>1 DEF ReturnAgain, luceneVars
<1>3. /\ s \in Sessions /\ thread[t] \in ThreadRec
      /\ thread[t].session = None /\ thread[t].due = 0
  BY <1>1, <1>2 DEF IInv, Shape, UsersOK, PlacesOK, ThreadRec
<1>4. /\ thread'[t].at = "returningAgain" /\ thread'[t].session = s
      /\ thread'[t].due = 0
      /\ \A u \in Threads : u # t => thread'[u] = thread[u]
  <2>1. p.at = "returningAgain" /\ p.session = s /\ p.due = 0
    BY <1>3 DEF ThreadRec
  <2>2. thread' = [thread EXCEPT ![t] = p]
    BY <1>2 DEF IInv, Shape, UsersOK
  <2> HIDE DEF p
  <2> QED
    BY <2>1, <2>2 DEF IInv, Shape, UsersOK
<1> HIDE DEF p
<1>5. \A r \in Sessions : ~Lent(t, r) /\ ~Lent(t, r)'
  BY <1>3, <1>4, PoolAssumption DEF Lent, Has
<1>6. \A u \in Threads, r \in Sessions : Lent(u, r)' <=> Lent(u, r) /\ r # s
  <2>1. \A u \in Threads, r \in Sessions : u # t => (Has(u, r)' <=> Has(u, r))
    BY <1>4 DEF Has
  <2> QED
    BY <1>2, <1>5, <2>1 DEF Lent
<1>7. Asked(t)' = 0 /\ Asked(t) = 0
  BY <1>3, <1>4 DEF Asked
<1>8. \A u \in Threads : u # t =>
        IF thread[u].session = s THEN Asked(u)' = 0 ELSE Asked(u)' = Asked(u)
  <2>1. \A r : r \in twice' <=> r \in twice \/ r = s
    BY <1>2
  <2> QED
    BY <1>4, <2>1 DEF Asked
<1>9. \A u \in Threads : u # t /\ thread[u].session # s => Asked(u)' = Asked(u)
  BY <1>8
<1>10. \A u \in Threads : thread[u].session = s /\ s \notin twice => Lent(u, s)
  BY DEF Lent, Has, IInv, Shape, PlacesOK
<1>11. CASE \E u \in Threads : Lent(u, s)
  <2>1. PICK u \in Threads : Lent(u, s)
    BY <1>11
  <2>2. /\ s \notin twice /\ thread[u].session = s /\ u # t
        /\ \A v \in Threads : Lent(v, s) => v = u
    BY <1>3, <1>5, <2>1, LentFacts DEF Lent
  <2>3. \A v \in Threads : v # u => Asked(v)' = Asked(v)
    BY <1>7, <1>9, <1>10, <2>2
  <2>4. Asked(u)' = 0
    BY <1>8, <2>2
  <2> QED
    BY <1>2, <1>3, <1>6, <2>1, <2>3, <2>4, TakenRefines
<1>12. CASE \A u \in Threads : ~Lent(u, s)
  <2>1. \A u \in Threads : thread[u].session = s => Asked(u) = 0
    BY <1>10, <1>12 DEF Asked
  <2>2. \A u \in Threads : Asked(u)' = Asked(u)
    BY <1>7, <1>8, <1>9, <2>1
  <2>3. \A u \in Threads, r \in Sessions : Lent(u, r)' <=> Lent(u, r)
    BY <1>6, <1>12
  <2> QED
    BY <1>2, <2>2, <2>3, QuietStep
<1> QED
  BY <1>11, <1>12

-----------------------------------------------------------------------------
(* No thread has a session at first.                                       *)
LEMMA InitRefines == Init => Leases!Init
<1> SUFFICES ASSUME Init PROVE Leases!Init
  OBVIOUS
<1>1. \A t \in Threads : thread[t].session = None /\ thread[t].due = 0
  BY DEF Init, Idle
<1>2. \A s \in Sessions : Holder(s) = None
  BY <1>1, PoolAssumption DEF Holder, Has
<1> QED
  BY <1>1, <1>2 DEF Leases!Init, Init

(* Every step of the pool is a step of SnapshotLeases, or none.            *)
LEMMA NextRefines ==
  IInv /\ IInv' /\ [Next]_vars => [Leases!Next]_(Leases!vars)
<1> SUFFICES ASSUME IInv, IInv', [Next]_vars
             PROVE  [Leases!Next]_(Leases!vars)
  OBVIOUS
<1>1. CASE Lifecycle \/ ReopenBegin \/ ReopenEnd
  BY <1>1, LuceneStep
<1>2. CASE \E t \in Threads : ThreadNext(t)
  <2>1. PICK t \in Threads : ThreadNext(t)
    BY <1>2
  <2>2. CASE Write(t)
    BY <2>2, WriteRefines
  <2>3. CASE CommitStart(t) \/ Committing(t)
    BY <2>3, CommitRefines, SwitchRefines DEF Committing
  <2>4. CASE InMonitor(t)
    BY <2>4, AquireRefines, MonitorRefines DEF InMonitor
  <2> QED
    BY <2>1, <2>2, <2>3, <2>4, MonitorRefines, AgainRefines DEF ThreadNext
<1>3. CASE UNCHANGED vars
  <2>1. UNCHANGED <<written, promised, content, twice, sess, thread>>
    BY <1>3 DEF vars, luceneVars, poolVars
  <2> QED
    BY <2>1, QuietStep DEF Lent, Has, Asked
<1> QED
  BY <1>1, <1>2, <1>3 DEF Next

(* The pool, the reference counts, the refreshes and the reopenings give   *)
(* every thread a view of its own that is as fresh as commit(true) says.   *)
THEOREM PoolImplementsLeases == Spec => ImplementsLeases
<1> QED
  BY InitRefines, NextRefines, Invariant, PTL
     DEF Spec, ImplementsLeases, Leases!Spec
=============================================================================
