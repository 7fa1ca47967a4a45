----------------------------- MODULE ExecCache -----------------------------
(***************************************************************************)
(* transform and query of Session with the cache of what they compiled.    *)
(* The two caches are alike; each is one static map, so that all sessions  *)
(* of all indexes of a process share it, and its keys are whatever the     *)
(* caller gives: mostly the path of the file the text is read from.        *)
(*                                                                         *)
(* A text is the number of its version.  Threads have sessions of their    *)
(* own; what a session is open for is the matter of SessionPool.           *)
(***************************************************************************)
EXTENDS Integers, FiniteSets

CONSTANTS
  Threads,
  Indexes,
  DevIndexes,   \* those whose configuration says development-mode
  Keys,
  NoKey,        \* null, which the ad hoc functions pass
  None,
  MaxEdits,     \* bound on the number of versions of a file
  MaxCalls      \* bound on the number of calls

(* An executable: the text it was compiled from, and for which index.      *)
Exec == [text : 0 .. MaxEdits, index : Indexes]

ASSUME ExecCacheAssumption ==
  /\ DevIndexes \subseteq Indexes /\ IsFiniteSet(Indexes)
  /\ NoKey \notin Keys
  /\ None \notin Exec
  /\ MaxEdits \in Nat /\ MaxCalls \in Nat

VARIABLES
  cache,   \* the executable of each key
  text,    \* the version of the file of each key
  call,    \* what each thread is doing
  calls,   \* the number of calls so far
  users,   \* history: the indexes that used each key of the cache
  born     \* history: the number of the last call before a key was stored

vars == <<cache, text, call, calls, users, born>>

Version(k) == IF k = NoKey THEN 0 ELSE text[k]
Cached(i, k) == i \notin DevIndexes /\ k # NoKey
At(t, step) == call[t] # None /\ call[t].step = step

Goes(t, step, exec) ==
  call' = [call EXCEPT ![t].step = step, ![t].exec = exec]

-----------------------------------------------------------------------------
Begin(t, i, k) ==
  /\ call[t] = None
  /\ calls < MaxCalls
  /\ calls' = calls + 1
  /\ call' = [call EXCEPT ![t] = [index |-> i, key |-> k, step |-> "look",
                                  exec |-> None, began |-> Version(k),
                                  n |-> calls + 1]]
  /\ UNCHANGED <<cache, text, users, born>>

Looks(t, may) ==
  LET k == call[t].key IN
  /\ At(t, "look")
  /\ IF may /\ k # NoKey /\ cache[k] # None
     THEN Goes(t, "run", cache[k]) ELSE Goes(t, "compile", None)
  /\ users' = IF Cached(call[t].index, k)
              THEN [users EXCEPT ![k] = @ \cup {call[t].index}] ELSE users
  /\ UNCHANGED <<cache, text, calls, born>>

Look_always(t) == Looks(t, TRUE)  \* Slip: development mode is forgotten
Look_never(t) == Looks(t, FALSE)  \* Slip: the cache is only written

Look(t) == Looks(t, call[t].index \notin DevIndexes)

(* The file is read here, by the processor of the index of the session.    *)
Compile(t) ==
  /\ At(t, "compile")
  /\ \/ Goes(t, "store", [text |-> Version(call[t].key), index |-> call[t].index])
     \/ Goes(t, "failed", None)  \* an error in the text
  /\ UNCHANGED <<cache, text, calls, users, born>>

(* A ConcurrentHashMap throws when null is put.                            *)
Stores(t, skip) ==
  LET k == call[t].key IN
  /\ At(t, "store")
  /\ Goes(t, IF ~skip /\ k = NoKey THEN "failed" ELSE "run", call[t].exec)
  /\ cache' = IF skip \/ k = NoKey THEN cache
              ELSE [cache EXCEPT ![k] = call[t].exec]
  /\ born' = [j \in Keys |-> IF cache[j] = None THEN calls ELSE born[j]]
  /\ UNCHANGED <<text, calls, users>>

Store_always(t) == Stores(t, FALSE)  \* Slip: development mode is forgotten

Store(t) == Stores(t, call[t].index \in DevIndexes)

(* The executable runs, or is explained, on the index of the session.      *)
End(t) ==
  /\ At(t, "run") \/ At(t, "failed")
  /\ call' = [call EXCEPT ![t] = None]
  /\ UNCHANGED <<cache, text, calls, users, born>>

(* Someone writes a new version of a file.                                 *)
Edit(k) ==
  /\ text[k] < MaxEdits
  /\ text' = [text EXCEPT ![k] = @ + 1]
  /\ UNCHANGED <<cache, call, calls, users, born>>

Init ==
  /\ cache = [k \in Keys |-> None]
  /\ text = [k \in Keys |-> 0]
  /\ call = [t \in Threads |-> None]
  /\ calls = 0
  /\ users = [k \in Keys |-> {}]
  /\ born = [k \in Keys |-> 0]

Next ==
  \/ \E t \in Threads :
       \/ \E i \in Indexes, k \in Keys \cup {NoKey} : Begin(t, i, k)
       \/ Look(t) \/ Compile(t) \/ Store(t) \/ End(t)
  \/ \E k \in Keys : Edit(k)

Spec == Init /\ [][Next]_vars

-----------------------------------------------------------------------------
(* What runs on an index was compiled, by the processor of an index and    *)
(* with its functions, for an index that asked the cache for the same key: *)
(* so for its own, as long as no other index uses the key. When two        *)
(* indexes use one key either may run what the other compiled: the caches  *)
(* are static and the key does not name the index. A call in development   *)
(* mode, or without a key, always runs what was compiled for its own       *)
(* index.                                                                  *)
CompiledForItsIndex ==
  \A t \in Threads : At(t, "run") =>
    LET c == call[t]
    IN  IF Cached(c.index, c.key) THEN c.exec.index \in users[c.key]
                                  ELSE c.exec.index = c.index

(* A call on an index in development mode runs no text that was replaced   *)
(* before the call began, whatever other calls and indexes have cached.    *)
DevelopmentIsFresh ==
  \A t \in Threads :
    At(t, "run") /\ call[t].index \in DevIndexes
      => call[t].exec.text >= call[t].began

(* The executable of a key changes only while calls that began before it   *)
(* was first stored are racing; the one that stores last wins, be its text *)
(* the older one.  When they are gone the key keeps its executable,        *)
(* whatever happens to the file, until the process ends.                   *)
CacheIsSettled ==
  [][\A k \in Keys :
       cache[k] # None /\ cache'[k] # cache[k]
         => \E t \in Threads : At(t, "store") /\ call[t].key = k
                               /\ call[t].n <= born[k]]_vars
=============================================================================
