----------------------------- MODULE NameStore -----------------------------
(***************************************************************************)
(* NameStore.java: the codes that stand for names, and for prefixes, in    *)
(* the Lucene documents.  putName looks a name up; a new one gets the next *)
(* code, a line in an append-only file, and an entry in each of two maps.  *)
(* putPrefix does the same with a file and maps of its own: the module is  *)
(* one of the two tables.                                                  *)
(*                                                                         *)
(* Three things make this hard.  The lookup is made before the lock is     *)
(* taken, and not again inside it.  putName does not hand its argument to  *)
(* the maps but a field of the store, name, which all threads share.  And  *)
(* a line is not always read back as the name it was written for:          *)
(* "_", which stands for the default namespace, is read as the empty name, *)
(* and a namespace with a semicolon is split at it.                        *)
(*                                                                         *)
(* In the repository only DocumentIndexer puts names, under its monitor,   *)
(* but Session.putName and XMLIndex.putPrefix are open to anybody.  The    *)
(* module allows any callers; raced says that a call overlapped with       *)
(* another one or with close.                                              *)
(*                                                                         *)
(* Abstractions.  A line is written whole or not at all, and a table is    *)
(* read in one step.  A call that overlaps with others may find in the     *)
(* shared field any mixture of their arguments, and the field may change   *)
(* while it is looked up: the calls overlapping with a call are collected  *)
(* in seen.                                                                *)
(* Local parts are not empty (the line of such a name cannot be read).     *)
(***************************************************************************)
EXTENDS Integers, Sequences, FiniteSets

CONSTANTS
  Threads,
  Uris, Locals,  \* a name has a namespace and a local part; a prefix only the latter
  Names,         \* the names that are put
  First,         \* the names that a new table starts with
  ReadBack,      \* the name that the line of a name is read back as
  Shared,        \* the table uses the shared field (names do, prefixes do not)
  MaxCalls       \* bound on the number of calls

Name == [uri : Uris, local : Locals]

ASSUME NamesAssumption ==
  /\ Names \subseteq Name
  /\ First \in Seq(Name)
  /\ ReadBack \in [Name -> Name]
  /\ \A i \in DOMAIN First : ReadBack[First[i]] = First[i]
  /\ \A i, j \in DOMAIN First : First[i] = First[j] => i = j
  /\ Shared \in BOOLEAN
ASSUME MaxCallsAssumption == MaxCalls \in Nat

VARIABLES
  isOpen,
  file,        \* the lines of the file
  codeToName,
  nameToCode,
  call,        \* the threads inside putName, and how far each one is
  given,       \* history: the codes that were returned, and for which names
  raced,       \* history: a call has overlapped with another one, or with close
  ambiguous,   \* history: two lines are read back as the same name
  calls        \* calls so far

vars == <<isOpen, file, codeToName, nameToCode, call, given, raced, ambiguous, calls>>

Entry == [code : Nat, name : Name]

(* pc is the next step: look up, enter the lock, put into codeToName, put  *)
(* into nameToCode.                                                        *)
CallState == [pc : {"get", "enter", "putCode", "putName"}, arg : Names,
              seen : SUBSET Names, code : Nat, name : Name]

At(t, pc)  == t \in DOMAIN call /\ call[t].pc = pc
Locked     == \E t \in DOMAIN call : At(t, "putCode") \/ At(t, "putName")
Done(t)    == [u \in DOMAIN call \ {t} |-> call[u]]
Put(f, x, y) == [z \in DOMAIN f \cup {x} |-> IF z = x THEN y ELSE f[z]]

(* What thread t may find in the shared field.                             *)
Found(t) ==
  IF Shared THEN {[uri |-> a.uri, local |-> b.local] : a, b \in call[t].seen}
            ELSE {call[t].arg}

(* The maps as the file tells them: later lines win.                       *)
Last(f, I) == f[CHOOSE i \in I : \A j \in I : j <= i]
CodesOf(f) ==
  [c \in {f[i].code : i \in DOMAIN f} |->
     ReadBack[Last(f, {i \in DOMAIN f : f[i].code = c}).name]]
NamesOf(f) ==
  [n \in {ReadBack[f[i].name] : i \in DOMAIN f} |->
     Last(f, {i \in DOMAIN f : ReadBack[f[i].name] = n}).code]

-----------------------------------------------------------------------------
(* open: a new table gets its first names, any other is read.              *)
Open ==
  /\ ~isOpen
  /\ isOpen' = TRUE
  /\ file' = IF file = << >>
               THEN [i \in DOMAIN First |-> [code |-> i - 1, name |-> First[i]]]
               ELSE file
  /\ codeToName' = CodesOf(file')
  /\ nameToCode' = NamesOf(file')
  /\ UNCHANGED <<call, given, raced, ambiguous, calls>>

Unload ==
  /\ isOpen
  /\ isOpen' = FALSE
  /\ codeToName' = << >>
  /\ nameToCode' = << >>
  /\ UNCHANGED <<file, given, ambiguous, calls>>

(* close drops the maps.  A thread that is inside putName stays there: it  *)
(* goes on if the store is opened again before its next step.              *)
Close ==
  /\ Unload
  /\ raced' = (raced \/ DOMAIN call # {})
  /\ UNCHANGED call

(* The process dies.                                                       *)
Crash ==
  /\ Unload
  /\ call' = << >>
  /\ UNCHANGED raced

(* A call starts by writing its argument to the shared field.              *)
Begin(t, n) ==
  /\ isOpen
  /\ t \notin DOMAIN call
  /\ calls < MaxCalls
  /\ calls' = calls + 1
  /\ raced' = (raced \/ DOMAIN call # {})
  /\ call' = [u \in DOMAIN call \cup {t} |->
       IF u = t
         THEN [pc |-> "get", arg |-> n, code |-> 0, name |-> n,
               seen |-> {n} \cup {call[v].arg : v \in DOMAIN call}]
         ELSE [call[u] EXCEPT !.seen = @ \cup {n}]]
  /\ UNCHANGED <<isOpen, file, codeToName, nameToCode, given, ambiguous>>

Return(t, code) ==
  /\ given' = given \cup {[code |-> code, name |-> call[t].arg]}
  /\ call' = Done(t)

(* The name is known.                                                      *)
Hit(t) ==
  /\ At(t, "get")
  /\ \E n \in Found(t) \cap DOMAIN nameToCode : Return(t, nameToCode[n])
  /\ UNCHANGED <<isOpen, file, codeToName, nameToCode, raced, ambiguous, calls>>

(* It is not, or a field that changes meanwhile hides it.                  *)
Miss(t) ==
  /\ isOpen
  /\ At(t, "get")
  /\ Found(t) \subseteq DOMAIN nameToCode => Cardinality(Found(t)) > 1
  /\ call' = [call EXCEPT ![t].pc = "enter"]
  /\ UNCHANGED <<isOpen, file, codeToName, nameToCode, given, raced, ambiguous, calls>>

(* Slip: the code can be looked up before it leads anywhere.               *)
AppendLine_publishes(t) ==
  /\ isOpen
  /\ At(t, "enter")
  /\ ~Locked
  /\ LET code == Cardinality(DOMAIN nameToCode)
         line == [code |-> code, name |-> call[t].arg]
     IN  /\ file' = Append(file, line)
         /\ nameToCode' = Put(nameToCode, call[t].arg, code)
         /\ call' = [call EXCEPT ![t].pc = "putCode", ![t].code = code]
         /\ ambiguous' = (ambiguous \/ \E i \in DOMAIN file :
                            ReadBack[file[i].name] = ReadBack[line.name])
  /\ UNCHANGED <<isOpen, codeToName, given, raced, calls>>

(* Inside the lock: the next code is the size of the map, and the line is  *)
(* written for the argument of the call.                                   *)
AppendLine(t) ==
  /\ isOpen
  /\ At(t, "enter")
  /\ ~Locked
  /\ LET code == Cardinality(DOMAIN nameToCode)
         line == [code |-> code, name |-> call[t].arg]
     IN  /\ file' = Append(file, line)
         /\ call' = [call EXCEPT ![t].pc = "putCode", ![t].code = code]
         /\ ambiguous' = (ambiguous \/ \E i \in DOMAIN file :
                            ReadBack[file[i].name] = ReadBack[line.name])
  /\ UNCHANGED <<isOpen, codeToName, nameToCode, given, raced, calls>>

(* Slip: the maps are filled before the line is written.                   *)
AppendFails_remembers(t) ==
  /\ isOpen
  /\ At(t, "enter")
  /\ ~Locked
  /\ LET code == Cardinality(DOMAIN nameToCode)
     IN  /\ codeToName' = Put(codeToName, code, call[t].arg)
         /\ nameToCode' = Put(nameToCode, call[t].arg, code)
  /\ call' = Done(t)
  /\ UNCHANGED <<isOpen, file, given, raced, ambiguous, calls>>

(* The line cannot be written: putName throws.                             *)
AppendFails(t) ==
  /\ isOpen
  /\ At(t, "enter")
  /\ ~Locked
  /\ call' = Done(t)
  /\ UNCHANGED <<isOpen, file, codeToName, nameToCode, given, raced, ambiguous, calls>>

(* The maps are gone: a null pointer.                                      *)
ClosedFails(t) ==
  /\ ~isOpen
  /\ t \in DOMAIN call
  /\ At(t, "enter") => ~Locked
  /\ call' = Done(t)
  /\ UNCHANGED <<isOpen, file, codeToName, nameToCode, given, raced, ambiguous, calls>>

(* Whatever is in the shared field by now is the name of the code.         *)
PutCode(t) ==
  /\ isOpen
  /\ At(t, "putCode")
  /\ \E n \in Found(t) :
       /\ codeToName' = Put(codeToName, call[t].code, n)
       /\ call' = [call EXCEPT ![t].pc = "putName", ![t].name = n]
  /\ UNCHANGED <<isOpen, file, nameToCode, given, raced, ambiguous, calls>>

(* The second map, and the lock is left.                                   *)
PutName(t) ==
  /\ isOpen
  /\ At(t, "putName")
  /\ nameToCode' = Put(nameToCode, call[t].name, call[t].code)
  /\ Return(t, call[t].code)
  /\ UNCHANGED <<isOpen, file, codeToName, raced, ambiguous, calls>>

Init ==
  /\ isOpen = FALSE
  /\ file = << >>
  /\ codeToName = << >>
  /\ nameToCode = << >>
  /\ call = << >>
  /\ given = {}
  /\ raced = FALSE
  /\ ambiguous = FALSE
  /\ calls = 0

Next ==
  \/ Open
  \/ Close
  \/ Crash
  \/ \E t \in Threads :
       \/ \E n \in Names : Begin(t, n)
       \/ Hit(t)
       \/ Miss(t)
       \/ AppendLine(t)
       \/ AppendFails(t)
       \/ ClosedFails(t)
       \/ PutCode(t)
       \/ PutName(t)

Spec == Init /\ [][Next]_vars

-----------------------------------------------------------------------------
(* The state is well typed.                                                *)
TypeOK ==
  /\ isOpen \in BOOLEAN
  /\ file \in Seq(Entry)
  /\ DOMAIN codeToName \subseteq Nat
  /\ \A c \in DOMAIN codeToName : codeToName[c] \in Name
  /\ DOMAIN nameToCode \subseteq Name
  /\ \A n \in DOMAIN nameToCode : nameToCode[n] \in Nat
  /\ DOMAIN call \subseteq Threads
  /\ \A t \in DOMAIN call : call[t] \in CallState
  /\ given \in SUBSET Entry
  /\ raced \in BOOLEAN /\ ambiguous \in BOOLEAN
  /\ calls \in Nat

(* A code that anybody was given, or may still look up, leads to a name:   *)
(* now, and after any stop and restart.  It does not take the monitor of   *)
(* the indexer for this: however calls overlap, the line and codeToName    *)
(* come before anything that shows the code.                               *)
CodesResolve ==
  /\ \A e \in given :
       /\ \E i \in DOMAIN file : file[i].code = e.code
       /\ isOpen => e.code \in DOMAIN codeToName
  /\ \A n \in DOMAIN nameToCode : nameToCode[n] \in DOMAIN codeToName

(* While no calls overlap and no two lines are read back alike: a code     *)
(* keeps its meaning, over failed calls, stops and restarts, up to what    *)
(* reading the file makes of the name; and a name that is read back as     *)
(* itself keeps its code, so that a query for it finds all its nodes.      *)
CodesKeepMeaning ==
  isOpen /\ ~raced /\ ~ambiguous =>
    \A e \in given :
      /\ e.code \in DOMAIN codeToName
      /\ codeToName[e.code] \in {e.name, ReadBack[e.name]}
      /\ ReadBack[e.name] = e.name =>
           e.name \in DOMAIN nameToCode /\ nameToCode[e.name] = e.code

(* What the maps of prefixes say, a line of the file says too: whatever    *)
(* readers learn from memory, also while calls overlap, is what some line  *)
(* says after a restart.  (The maps of names do not have this: they are    *)
(* filled from the shared field, the line from the arguments.)             *)
MemoryIsOnFile ==
  /\ \A c \in DOMAIN codeToName :
       \E i \in DOMAIN file : file[i] = [code |-> c, name |-> codeToName[c]]
  /\ \A n \in DOMAIN nameToCode :
       \E i \in DOMAIN file : file[i] = [code |-> nameToCode[n], name |-> n]
=============================================================================
