-------------------------- MODULE ExecCacheProofs --------------------------
(***************************************************************************)
(* Proofs about ExecCache, for any number of threads, indexes, keys, calls *)
(* and edits of the files.                                                 *)
(***************************************************************************)
EXTENDS ExecCache, TLAPS

-----------------------------------------------------------------------------
Steps == {"look", "compile", "store", "run", "failed"}
Call == [index : Indexes, key : Keys \cup {NoKey}, step : Steps,
         exec : Exec \cup {None}, began : 0 .. MaxEdits, n : Nat]

TypeOK ==
  /\ cache \in [Keys -> Exec \cup {None}]
  /\ text \in [Keys -> 0 .. MaxEdits]
  /\ call \in [Threads -> Call \cup {None}]
  /\ calls \in Nat
  /\ users \in [Keys -> SUBSET Indexes]
  /\ born \in [Keys -> Nat]

(* A call that is past its look at the cache is counted as a user.         *)
UserIsKnown ==
  \A t \in Threads :
    call[t] # None /\ call[t].step # "look" /\ Cached(call[t].index, call[t].key)
      => call[t].index \in users[call[t].key]

(* What is cached was compiled by one of the users.                        *)
CachedByUser ==
  \A k \in Keys : cache[k] # None => cache[k].index \in users[k]

(* What a call has compiled is for its index and of a text that was there  *)
(* when the call had begun.                                                *)
OwnIsGood ==
  \A t \in Threads : At(t, "store") =>
    /\ call[t].exec \in Exec
    /\ call[t].exec.index = call[t].index
    /\ call[t].exec.text >= call[t].began

(* What a call runs is its own, or comes from the cache.                   *)
RunIsGood ==
  \A t \in Threads : At(t, "run") =>
    /\ call[t].exec \in Exec
    /\ \/ /\ call[t].exec.index = call[t].index
          /\ call[t].exec.text >= call[t].began
       \/ /\ Cached(call[t].index, call[t].key)
          /\ call[t].exec.index \in users[call[t].key]

(* A call began with a version that the file has had.                      *)
BeganBefore ==
  \A t \in Threads : call[t] # None =>
    call[t].began <= Version(call[t].key) /\ call[t].n <= calls

(* A call that compiles although its key is in the cache began before it   *)
(* was first there.                                                        *)
RacersAreOld ==
  \A t \in Threads :
    /\ At(t, "compile") \/ At(t, "store")
    /\ Cached(call[t].index, call[t].key)
    /\ cache[call[t].key] # None
    => call[t].n <= born[call[t].key]

IInv == TypeOK /\ UserIsKnown /\ CachedByUser /\ OwnIsGood /\ RunIsGood
        /\ BeganBefore /\ RacersAreOld

-----------------------------------------------------------------------------
(* The version of a key is a version of a file.                            *)
LEMMA VersionType ==
  ASSUME TypeOK, NEW k \in Keys \cup {NoKey}
  PROVE  Version(k) \in 0 .. MaxEdits
  BY ExecCacheAssumption DEF TypeOK, Version

(* The invariant holds at first.                                           *)
LEMMA InitInv == Init => IInv
<1> SUFFICES ASSUME Init PROVE IInv
  OBVIOUS
<1>1. TypeOK
  BY ExecCacheAssumption DEF Init, TypeOK
<1>2. \A t \in Threads : call[t] = None
  BY DEF Init
<1>3. \A k \in Keys : cache[k] = None
  BY DEF Init
<1> QED
  BY <1>1, <1>2, <1>3 DEF IInv, UserIsKnown, CachedByUser, OwnIsGood,
     RunIsGood, BeganBefore, RacersAreOld, At

(* What a step of one thread does to its call and leaves of the others.    *)
LEMMA GoesFacts ==
  ASSUME TypeOK, NEW t \in Threads, call[t] # None, NEW step \in Steps,
         NEW exec \in Exec \cup {None}, Goes(t, step, exec)
  PROVE  /\ call' \in [Threads -> Call \cup {None}]
         /\ \A u \in Threads : u # t => call'[u] = call[u]
         /\ call'[t].step = step /\ call'[t].exec = exec
         /\ call'[t].index = call[t].index /\ call'[t].key = call[t].key
         /\ call'[t].began = call[t].began /\ call'[t].n = call[t].n
<1>1. call \in [Threads -> Call \cup {None}] /\ call[t] \in Call
  BY DEF TypeOK
<1>2. call' = [call EXCEPT ![t] = [[@ EXCEPT !.step = step] EXCEPT !.exec = exec]]
  BY <1>1 DEF Goes
<1> DEFINE c == [[call[t] EXCEPT !.step = step] EXCEPT !.exec = exec]
<1>3. /\ c \in Call /\ c.step = step /\ c.exec = exec
      /\ c.index = call[t].index /\ c.key = call[t].key
      /\ c.began = call[t].began /\ c.n = call[t].n
  BY <1>1 DEF Call
<1>4. call'[t] = c /\ \A u \in Threads : u # t => call'[u] = call[u]
  BY <1>1, <1>2
<1> QED
  BY <1>1, <1>2, <1>3, <1>4

(* A new call has begun with the version that is there now.                *)
LEMMA NextBegin ==
  ASSUME IInv, NEW t \in Threads, NEW i \in Indexes,
         NEW k \in Keys \cup {NoKey}, Begin(t, i, k)
  PROVE  IInv'
<1> DEFINE c == [index |-> i, key |-> k, step |-> "look", exec |-> None,
                 began |-> Version(k), n |-> calls + 1]
<1>1. TypeOK /\ call' = [call EXCEPT ![t] = c] /\ calls' = calls + 1
      /\ UNCHANGED <<cache, text, users, born>>
  BY DEF IInv, Begin
<1>2. c \in Call
  BY <1>1, VersionType DEF Call, Steps, TypeOK
<1>3. /\ call'[t] = c
      /\ \A u \in Threads : u # t => call'[u] = call[u]
      /\ call' \in [Threads -> Call \cup {None}]
  BY <1>1, <1>2 DEF TypeOK
<1>4. c.step = "look" /\ c.began = Version(c.key) /\ c.n = calls + 1
      /\ c.began \in Int
  BY <1>2 DEF Call
<1> HIDE DEF c
<1>5. TypeOK'
  BY <1>1, <1>3 DEF TypeOK
<1>6. \A u \in Threads, s \in Steps \ {"look"} : At(u, s)' => u # t /\ At(u, s)
  BY <1>3, <1>4 DEF At
<1>7. UserIsKnown'
  BY <1>1, <1>3, <1>4 DEF IInv, UserIsKnown, Cached
<1>8. CachedByUser'
  BY <1>1 DEF IInv, CachedByUser
<1>9. OwnIsGood' /\ RunIsGood'
  BY <1>1, <1>3, <1>6 DEF IInv, OwnIsGood, RunIsGood, Cached, Steps
<1>10. BeganBefore'
  <2> SUFFICES ASSUME NEW u \in Threads, call'[u] # None
               PROVE  (call[u].began <= Version(call[u].key)
                         /\ call[u].n <= calls)'
    BY DEF BeganBefore
  <2>1. CASE u = t
    BY <1>1, <1>3, <1>4, <1>5, <2>1 DEF Version, TypeOK
  <2>2. CASE u # t
    <3>1. call[u] \in Call /\ call'[u] = call[u]
      BY <1>1, <1>3, <2>2 DEF TypeOK
    <3>2. call[u].began <= Version(call[u].key) /\ call[u].n <= calls
      BY <3>1 DEF IInv, BeganBefore
    <3> QED
      BY <1>1, <3>1, <3>2 DEF Version, Call, TypeOK
  <2> QED
    BY <2>1, <2>2
<1>11. RacersAreOld'
  BY <1>1, <1>3, <1>6 DEF IInv, RacersAreOld, Cached, Steps
<1> QED
  BY <1>5, <1>7, <1>8, <1>9, <1>10, <1>11 DEF IInv

(* The look at the cache: the call becomes a user of its key, and what it  *)
(* finds is from a user.                                                   *)
LEMMA NextLook ==
  ASSUME IInv, NEW t \in Threads, Look(t)
  PROVE  IInv'
<1> DEFINE k == call[t].key
           i == call[t].index
           hit == i \notin DevIndexes /\ k # NoKey /\ cache[k] # None
           step == IF hit THEN "run" ELSE "compile"
           exec == IF hit THEN cache[k] ELSE None
<1>1. TypeOK /\ At(t, "look") /\ call[t] # None /\ call[t].step = "look"
  BY DEF IInv, Look, Looks, At
<1>2. call[t] \in Call /\ i \in Indexes /\ k \in Keys \cup {NoKey}
  BY <1>1 DEF TypeOK, Call
<1>3. /\ Goes(t, step, exec)
      /\ users' = IF Cached(i, k) THEN [users EXCEPT ![k] = @ \cup {i}] ELSE users
      /\ UNCHANGED <<cache, text, calls, born>>
  BY DEF Look, Looks
<1>4. exec \in Exec \cup {None} /\ step \in Steps
  BY <1>1, <1>2 DEF TypeOK, Steps
<1>5. /\ call' \in [Threads -> Call \cup {None}]
      /\ \A u \in Threads : u # t => call'[u] = call[u]
      /\ call'[t].step = step /\ call'[t].exec = exec
      /\ call'[t].index = i /\ call'[t].key = k
      /\ call'[t].began = call[t].began /\ call'[t].n = call[t].n
  BY <1>1, <1>3, <1>4, GoesFacts
<1>6. /\ users' \in [Keys -> SUBSET Indexes]
      /\ \A j \in Keys : users[j] \subseteq users'[j]
      /\ Cached(i, k) => i \in users'[k]
  <2>1. users \in [Keys -> SUBSET Indexes] /\ (Cached(i, k) => k \in Keys)
    BY <1>1, <1>2 DEF TypeOK, Cached
  <2> HIDE DEF i, k
  <2> QED
    BY <1>2, <1>3, <2>1
<1>7. hit => /\ Cached(i, k) /\ k \in Keys /\ cache[k] \in Exec
             /\ cache[k].index \in users[k]
  BY <1>1, <1>2 DEF Cached, IInv, CachedByUser, TypeOK
<1> HIDE DEF i, k
<1>8. TypeOK'
  BY <1>1, <1>3, <1>5, <1>6 DEF TypeOK
<1>9. UserIsKnown'
  <2> SUFFICES ASSUME NEW u \in Threads, call'[u] # None,
                      call'[u].step # "look",
                      Cached(call'[u].index, call'[u].key)
               PROVE  call'[u].index \in users'[call'[u].key]
    BY DEF UserIsKnown, Cached
  <2>1. CASE u = t
    BY <1>5, <1>6, <2>1
  <2>2. CASE u # t
    <3>1. call[u] \in Call /\ call'[u] = call[u] /\ call[u].key \in Keys
      BY <1>1, <1>5, <2>2 DEF TypeOK, Call, Cached
    <3>2. call[u].index \in users[call[u].key]
      BY <3>1 DEF IInv, UserIsKnown
    <3> QED
      BY <1>6, <3>1, <3>2
  <2> QED
    BY <2>1, <2>2
<1>10. CachedByUser'
  BY <1>3, <1>6 DEF IInv, CachedByUser
<1>11. OwnIsGood'
  BY <1>5 DEF IInv, OwnIsGood, At
<1>12. RunIsGood'
  <2> SUFFICES ASSUME NEW u \in Threads, At(u, "run")'
               PROVE  /\ call'[u].exec \in Exec
                      /\ \/ /\ call'[u].exec.index = call'[u].index
                            /\ call'[u].exec.text >= call'[u].began
                         \/ /\ Cached(call'[u].index, call'[u].key)
                            /\ call'[u].exec.index \in users'[call'[u].key]
    BY DEF RunIsGood, Cached
  <2>1. CASE u = t
    <3>1. hit
      BY <1>5, <2>1 DEF At
    <3> QED
      BY <1>5, <1>6, <1>7, <2>1, <3>1
  <2>2. CASE u # t
    <3>1. At(u, "run") /\ call'[u] = call[u] /\ call[u] \in Call
      BY <1>1, <1>5, <2>2 DEF At, TypeOK
    <3>2. Cached(call[u].index, call[u].key) => call[u].key \in Keys
      BY <3>1 DEF Cached, Call
    <3> QED
      BY <1>6, <3>1, <3>2 DEF IInv, RunIsGood
  <2> QED
    BY <2>1, <2>2
<1>13. BeganBefore'
  BY <1>1, <1>3, <1>5 DEF IInv, BeganBefore, Version, k
<1>14. RacersAreOld'
  <2> SUFFICES ASSUME NEW u \in Threads, At(u, "compile")' \/ At(u, "store")',
                      Cached(call'[u].index, call'[u].key),
                      cache[call'[u].key] # None
               PROVE  call'[u].n <= born[call'[u].key]
    BY <1>3 DEF RacersAreOld, Cached
  <2>1. u # t
    BY <1>5 DEF At, Cached, Steps
  <2> QED
    BY <1>5, <2>1 DEF IInv, RacersAreOld, At
<1> QED
  BY <1>8, <1>9, <1>10, <1>11, <1>12, <1>13, <1>14 DEF IInv

(* What is compiled is of the version that is there now, which is not      *)
(* older than the one the call began with.                                 *)
LEMMA NextCompile ==
  ASSUME IInv, NEW t \in Threads, Compile(t)
  PROVE  IInv'
<1> DEFINE own == [text |-> Version(call[t].key), index |-> call[t].index]
<1>1. TypeOK /\ At(t, "compile") /\ call[t] # None /\ call[t].step = "compile"
      /\ UNCHANGED <<cache, text, calls, users, born>>
  BY DEF IInv, Compile, At
<1>2. call[t] \in Call
  BY <1>1 DEF TypeOK
<1>3. own \in Exec /\ own.index = call[t].index
      /\ own.text = Version(call[t].key)
  BY <1>1, <1>2, VersionType DEF Exec, Call
<1>4. call[t].began <= own.text
  BY <1>1, <1>3 DEF IInv, BeganBefore
<1>5. PICK step \in {"store", "failed"}, exec \in {own, None} :
        Goes(t, step, exec) /\ (step = "store" => exec = own)
  BY DEF Compile
<1> HIDE DEF own
<1>6. /\ call' \in [Threads -> Call \cup {None}]
      /\ \A u \in Threads : u # t => call'[u] = call[u]
      /\ call'[t].step = step /\ call'[t].exec = exec
      /\ call'[t].index = call[t].index /\ call'[t].key = call[t].key
      /\ call'[t].began = call[t].began /\ call'[t].n = call[t].n
  BY <1>1, <1>3, <1>5, GoesFacts DEF Steps
<1>7. TypeOK'
  BY <1>1, <1>6 DEF TypeOK
<1>8. UserIsKnown' /\ CachedByUser'
  BY <1>1, <1>6 DEF IInv, UserIsKnown, CachedByUser, Cached
<1>9. OwnIsGood'
  <2> SUFFICES ASSUME NEW u \in Threads, At(u, "store")'
               PROVE  /\ call'[u].exec \in Exec
                      /\ call'[u].exec.index = call'[u].index
                      /\ call'[u].exec.text >= call'[u].began
    BY DEF OwnIsGood
  <2>1. CASE u = t
    <3>1. exec = own /\ own.text \in Int /\ call[t].began \in Int
      BY <1>2, <1>3, <1>5, <1>6, <2>1 DEF At, Exec, Call
    <3> QED
      BY <1>3, <1>4, <1>6, <2>1, <3>1
  <2>2. CASE u # t
    BY <1>6, <2>2 DEF IInv, OwnIsGood, At
  <2> QED
    BY <2>1, <2>2
<1>10. RunIsGood'
  BY <1>1, <1>5, <1>6 DEF IInv, RunIsGood, At, Cached
<1>11. BeganBefore'
  BY <1>1, <1>6 DEF IInv, BeganBefore, Version
<1>12. RacersAreOld'
  BY <1>1, <1>6 DEF IInv, RacersAreOld, At, Cached
<1> QED
  BY <1>7, <1>8, <1>9, <1>10, <1>11, <1>12 DEF IInv

(* A store goes on to run what was compiled, or fails; it changes the      *)
(* cache at its key only.                                                  *)
LEMMA StoreFacts ==
  ASSUME IInv, NEW t \in Threads, Store(t)
  PROVE  /\ TypeOK /\ At(t, "store") /\ call[t] \in Call /\ call[t] # None
         /\ call[t].exec \in Exec /\ call[t].exec.index = call[t].index
         /\ call[t].exec.text >= call[t].began
         /\ \E step \in {"run", "failed"} : Goes(t, step, call[t].exec)
         /\ UNCHANGED <<text, calls, users>>
         /\ cache' \in [Keys -> Exec \cup {None}]
         /\ born' = [j \in Keys |-> IF cache[j] = None THEN calls ELSE born[j]]
         /\ \A j \in Keys : cache'[j] = cache[j] \/
              /\ j = call[t].key /\ Cached(call[t].index, j)
              /\ cache'[j] = call[t].exec
<1>1. TypeOK /\ At(t, "store") /\ call[t] # None
  BY DEF IInv, Store, Stores, At
<1>2. call[t] \in Call /\ call[t].index \in Indexes
  BY <1>1 DEF TypeOK, Call
<1>3. /\ call[t].exec \in Exec /\ call[t].exec.index = call[t].index
      /\ call[t].exec.text >= call[t].began
  BY <1>1 DEF IInv, OwnIsGood
<1>4. /\ cache' = IF call[t].index \in DevIndexes \/ call[t].key = NoKey
                  THEN cache ELSE [cache EXCEPT ![call[t].key] = call[t].exec]
      /\ born' = [j \in Keys |-> IF cache[j] = None THEN calls ELSE born[j]]
      /\ UNCHANGED <<text, calls, users>>
      /\ \E step \in {"run", "failed"} : Goes(t, step, call[t].exec)
  BY DEF Store, Stores
<1>5. cache \in [Keys -> Exec \cup {None}]
  BY <1>1 DEF TypeOK
<1>6. cache' \in [Keys -> Exec \cup {None}]
  BY <1>3, <1>4, <1>5
<1>7. \A j \in Keys : cache'[j] = cache[j] \/
        /\ j = call[t].key /\ Cached(call[t].index, j)
        /\ cache'[j] = call[t].exec
  BY <1>4, <1>5 DEF Cached
<1> QED
  BY <1>1, <1>2, <1>3, <1>4, <1>6, <1>7

(* When a key is stored for the first time, every call under way has begun *)
(* by then.                                                                *)
LEMMA NextStore ==
  ASSUME IInv, NEW t \in Threads, Store(t)
  PROVE  IInv'
<1> DEFINE exec == call[t].exec
           k == call[t].key
           i == call[t].index
<1>1. /\ TypeOK /\ At(t, "store") /\ call[t] \in Call /\ call[t] # None
      /\ exec \in Exec /\ exec.index = i /\ exec.text >= call[t].began
      /\ UNCHANGED <<text, calls, users>>
      /\ cache' \in [Keys -> Exec \cup {None}]
      /\ born' = [j \in Keys |-> IF cache[j] = None THEN calls ELSE born[j]]
      /\ \A j \in Keys : cache'[j] = cache[j] \/
           (j = k /\ Cached(i, j) /\ cache'[j] = exec)
  BY StoreFacts
<1>2. PICK step \in {"run", "failed"} : Goes(t, step, exec)
  BY StoreFacts
<1>3. /\ call' \in [Threads -> Call \cup {None}]
      /\ \A u \in Threads : u # t => call'[u] = call[u]
      /\ call'[t].step = step /\ call'[t].exec = exec
      /\ call'[t].index = i /\ call'[t].key = k
      /\ call'[t].began = call[t].began /\ call'[t].n = call[t].n
  BY <1>1, <1>2, GoesFacts DEF Steps
<1>4. i \in Indexes /\ k \in Keys \cup {NoKey} /\ call[t].step = "store"
  BY <1>1 DEF Call, At
<1> HIDE DEF exec, k, i
<1>5. TypeOK'
  BY <1>1, <1>3 DEF TypeOK
<1>6. UserIsKnown'
  BY <1>1, <1>3, <1>4 DEF IInv, UserIsKnown, Cached, i, k
<1>7. CachedByUser'
  <2>1. Cached(i, k) => i \in users[k]
    BY <1>1, <1>4 DEF IInv, UserIsKnown, i, k
  <2> QED
    BY <1>1, <2>1 DEF IInv, CachedByUser
<1>8. OwnIsGood' /\ RunIsGood'
  BY <1>1, <1>3 DEF IInv, OwnIsGood, RunIsGood, At, Cached
<1>9. BeganBefore'
  BY <1>1, <1>3 DEF IInv, BeganBefore, Version, k
<1>10. RacersAreOld'
  <2> SUFFICES ASSUME NEW u \in Threads, At(u, "compile")' \/ At(u, "store")',
                      Cached(call'[u].index, call'[u].key),
                      cache'[call'[u].key] # None
               PROVE  call'[u].n <= born'[call'[u].key]
    BY DEF RacersAreOld, Cached
  <2>1. u # t
    BY <1>3 DEF At
  <2>2. /\ call'[u] = call[u] /\ call[u] \in Call /\ call[u] # None
        /\ call[u].key \in Keys
    BY <1>1, <1>3, <2>1 DEF At, TypeOK, Call, Cached
  <2>3. CASE cache[call[u].key] = None
    BY <1>1, <2>2, <2>3 DEF IInv, BeganBefore
  <2>4. CASE cache[call[u].key] # None
    BY <1>1, <2>2, <2>4 DEF IInv, RacersAreOld, At
  <2> QED
    BY <2>3, <2>4
<1> QED
  BY <1>5, <1>6, <1>7, <1>8, <1>9, <1>10 DEF IInv

(* Every step keeps the invariant.                                         *)
LEMMA NextInv == IInv /\ [Next]_vars => IInv'
<1> SUFFICES ASSUME IInv, [Next]_vars PROVE IInv'
  OBVIOUS
<1>1. ASSUME NEW t \in Threads, End(t) PROVE IInv'
  <2>1. /\ TypeOK /\ call' = [call EXCEPT ![t] = None]
        /\ UNCHANGED <<cache, text, calls, users, born>>
    BY <1>1 DEF IInv, End
  <2>2. /\ call' \in [Threads -> Call \cup {None}] /\ call'[t] = None
        /\ \A u \in Threads : u # t => call'[u] = call[u]
    BY <2>1 DEF TypeOK
  <2>3. TypeOK'
    BY <2>1, <2>2 DEF TypeOK
  <2> QED
    BY <2>1, <2>2, <2>3 DEF IInv, UserIsKnown, CachedByUser, OwnIsGood,
       RunIsGood, BeganBefore, RacersAreOld, At, Cached, Version
<1>2. ASSUME NEW k \in Keys, Edit(k) PROVE IInv'
  <2>1. /\ TypeOK /\ text[k] < MaxEdits /\ text' = [text EXCEPT ![k] = @ + 1]
        /\ UNCHANGED <<cache, call, calls, users, born>>
    BY <1>2 DEF IInv, Edit
  <2>2. text' \in [Keys -> 0 .. MaxEdits] /\ \A j \in Keys : text[j] <= text'[j]
    BY <2>1, ExecCacheAssumption DEF TypeOK
  <2>3. BeganBefore'
    <3> SUFFICES ASSUME NEW u \in Threads, call[u] # None
                 PROVE  (call[u].began <= Version(call[u].key)
                           /\ call[u].n <= calls)'
      BY <2>1 DEF BeganBefore
    <3>1. call[u] \in Call /\ call'[u] = call[u]
      BY <2>1 DEF TypeOK
    <3>2. call[u].began <= Version(call[u].key) /\ call[u].n <= calls
      BY <3>1 DEF IInv, BeganBefore
    <3> QED
      BY <2>1, <2>2, <3>1, <3>2, ExecCacheAssumption DEF Version, Call, TypeOK
  <2>4. TypeOK'
    BY <2>1, <2>2 DEF TypeOK
  <2> QED
    BY <2>1, <2>3, <2>4 DEF IInv, UserIsKnown, CachedByUser, OwnIsGood,
       RunIsGood, RacersAreOld, At, Cached
<1>3. CASE UNCHANGED vars
  BY <1>3 DEF vars, IInv, TypeOK, UserIsKnown, CachedByUser, OwnIsGood,
     RunIsGood, BeganBefore, RacersAreOld, At, Cached, Version
<1> QED
  BY <1>1, <1>2, <1>3, NextBegin, NextLook, NextCompile, NextStore DEF Next

(* The invariant holds in every reachable state.                           *)
THEOREM Invariant == Spec => []IInv
  BY InitInv, NextInv, PTL DEF Spec

-----------------------------------------------------------------------------
(* What runs was compiled for one of the indexes that use its key, and for *)
(* the own index of the call in development mode, without a key, or when   *)
(* no other index uses the key: for any threads, indexes and keys. It may  *)
(* be the executable of another index when two share a key.                *)
THEOREM OwnIndexRuns ==
  Spec => []( /\ CompiledForItsIndex
              /\ \A t \in Threads :
                   At(t, "run") /\ Cached(call[t].index, call[t].key)
                   /\ users[call[t].key] \subseteq {call[t].index}
                   => call[t].exec.index = call[t].index )
<1>1. IInv => CompiledForItsIndex
  <2> SUFFICES ASSUME IInv, NEW t \in Threads, At(t, "run")
               PROVE  IF Cached(call[t].index, call[t].key)
                        THEN call[t].exec.index \in users[call[t].key]
                        ELSE call[t].exec.index = call[t].index
    BY DEF CompiledForItsIndex
  <2>1. call[t].exec.index # call[t].index
          => Cached(call[t].index, call[t].key)
             /\ call[t].exec.index \in users[call[t].key]
    BY DEF IInv, RunIsGood
  <2>2. Cached(call[t].index, call[t].key)
          => call[t].index \in users[call[t].key]
    BY DEF IInv, UserIsKnown, At
  <2> QED
    BY <2>1, <2>2
<1>2. CompiledForItsIndex =>
        \A t \in Threads :
          At(t, "run") /\ Cached(call[t].index, call[t].key)
          /\ users[call[t].key] \subseteq {call[t].index}
          => call[t].exec.index = call[t].index
  BY DEF CompiledForItsIndex
<1> QED
  BY <1>1, <1>2, Invariant, PTL

(* A call on an index in development mode runs no text that was replaced   *)
(* before it began, whatever the other calls cache.                        *)
THEOREM DevelopmentRunsFresh == Spec => []DevelopmentIsFresh
<1>1. IInv => DevelopmentIsFresh
  BY DEF IInv, RunIsGood, DevelopmentIsFresh, Cached
<1> QED
  BY <1>1, Invariant, PTL

(* Only calls that began before a key was first stored can change what the *)
(* cache has for it.                                                       *)
THEOREM CacheSettles == Spec => CacheIsSettled
<1>1. IInv /\ [Next]_vars =>
        [\A k \in Keys : cache[k] # None /\ cache'[k] # cache[k]
           => \E t \in Threads : At(t, "store") /\ call[t].key = k
                                 /\ call[t].n <= born[k]]_vars
  <2> SUFFICES ASSUME IInv, Next, NEW k \in Keys, cache[k] # None,
                      cache'[k] # cache[k]
               PROVE  \E t \in Threads : At(t, "store") /\ call[t].key = k
                                         /\ call[t].n <= born[k]
    OBVIOUS
  <2>1. PICK t \in Threads : Store(t)
    BY DEF Next, Begin, Look, Looks, Compile, End, Edit
  <2>2. At(t, "store") /\ k = call[t].key /\ Cached(call[t].index, k)
    BY <2>1, StoreFacts
  <2> QED
    BY <2>2 DEF IInv, RacersAreOld
<1> QED
  BY <1>1, Invariant, PTL DEF Spec, CacheIsSettled
=============================================================================
