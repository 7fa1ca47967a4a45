-------------------------- MODULE NameStoreProofs --------------------------
(***************************************************************************)
(* Proofs about NameStore, for any table and any number of threads, names  *)
(* and calls.                                                              *)
(***************************************************************************)
EXTENDS NameStore, FiniteSetTheorems, SequenceTheorems, WellFoundedInduction, TLAPS

-----------------------------------------------------------------------------
(* What open reads.                                                        *)

(* A set of numbers that is not empty has a smallest one.                  *)
LEMMA Smallest ==
  ASSUME NEW T \in SUBSET Nat, T # {}
  PROVE  \E x \in T : \A y \in T : x <= y
<1> DEFINE R == {ss \in Nat \X Nat : ss[1] < ss[2]}
<1>1. IsWellFoundedOn(R, Nat)
  BY NatLessThanWellFounded DEF OpToRel
<1> HIDE DEF R
<1>2. PICK x \in T : \A y \in T : ~ (<<y, x>> \in R)
  BY <1>1, WFMin
<1>3. \A y \in T : ~ (y < x)
  BY <1>2 DEF R
<1> QED
  BY <1>3

(* The last of some lines is one of them.                                  *)
LEMMA LastIsOneOfThem ==
  ASSUME NEW f \in Seq(Entry), NEW I \in SUBSET DOMAIN f, I # {}
  PROVE  \E i \in I : Last(f, I) = f[i]
<1>1. Len(f) \in Nat /\ DOMAIN f = 1 .. Len(f)
  BY LenProperties
<1> DEFINE Distance == {Len(f) - i : i \in I}
<1>2. Distance \in SUBSET Nat /\ Distance # {}
  BY <1>1
<1>3. PICK d \in Distance : \A e \in Distance : d <= e
  BY <1>2, Smallest
<1>4. PICK i \in I : d = Len(f) - i
  BY <1>3
<1>5. ASSUME NEW j \in I
      PROVE  j <= i
  <2>1. Len(f) - i <= Len(f) - j
    BY <1>3, <1>4
  <2> QED
    BY <1>1, <2>1
<1> QED
  BY <1>5 DEF Last

FileCodes(f) == {f[i].code : i \in DOMAIN f}

(* Reading a file gives every code of the file a name, and the codes that  *)
(* can be looked up are codes of the file.                                 *)
LEMMA ReadFile ==
  ASSUME NEW f \in Seq(Entry)
  PROVE  /\ DOMAIN CodesOf(f) = FileCodes(f) /\ FileCodes(f) \subseteq Nat
         /\ \A c \in DOMAIN CodesOf(f) : CodesOf(f)[c] \in Name
         /\ DOMAIN NamesOf(f) \subseteq Name
         /\ \A n \in DOMAIN NamesOf(f) : NamesOf(f)[n] \in FileCodes(f)
         /\ IsFiniteSet(DOMAIN NamesOf(f))
<1>1. Len(f) \in Nat /\ DOMAIN f = 1 .. Len(f)
  BY LenProperties
<1>2. \A i \in DOMAIN f : f[i] \in Entry
  BY <1>1, ElementOfSeq
<1>3. \A i \in DOMAIN f : f[i].code \in Nat /\ f[i].name \in Name /\ ReadBack[f[i].name] \in Name
  BY <1>2, NamesAssumption DEF Entry
<1>4. DOMAIN CodesOf(f) = FileCodes(f) /\ FileCodes(f) \subseteq Nat
  BY <1>3 DEF CodesOf, FileCodes
<1>5. ASSUME NEW c \in DOMAIN CodesOf(f)
      PROVE  CodesOf(f)[c] \in Name
  <2> DEFINE I == {i \in DOMAIN f : f[i].code = c}
  <2>1. I \in SUBSET DOMAIN f /\ I # {}
    BY <1>5 DEF CodesOf
  <2>2. PICK i \in I : Last(f, I) = f[i]
    BY <2>1, LastIsOneOfThem
  <2>3. CodesOf(f)[c] = ReadBack[Last(f, I).name]
    BY <1>5 DEF CodesOf
  <2> QED
    BY <1>3, <2>2, <2>3
<1>6. DOMAIN NamesOf(f) = {ReadBack[f[i].name] : i \in DOMAIN f}
  BY DEF NamesOf
<1>7. ASSUME NEW n \in DOMAIN NamesOf(f)
      PROVE  NamesOf(f)[n] \in FileCodes(f)
  <2> DEFINE I == {i \in DOMAIN f : ReadBack[f[i].name] = n}
  <2>1. I \in SUBSET DOMAIN f /\ I # {}
    BY <1>6, <1>7
  <2>2. PICK i \in I : Last(f, I) = f[i]
    BY <2>1, LastIsOneOfThem
  <2>3. NamesOf(f)[n] = Last(f, I).code
    BY <1>7 DEF NamesOf
  <2> QED
    BY <2>2, <2>3 DEF FileCodes
<1>8. IsFiniteSet(DOMAIN NamesOf(f))
  <2> DEFINE D == DOMAIN NamesOf(f)
             g == [i \in 1 .. Len(f) |-> ReadBack[f[i].name]]
  <2>1. g \in Surjection(1 .. Len(f), D)
    BY <1>1, <1>6 DEF Surjection
  <2>2. IsFiniteSet(1 .. Len(f))
    BY <1>1, FS_Interval
  <2> QED
    BY <2>1, <2>2, FS_Surjection
<1> QED
  BY <1>3, <1>4, <1>5, <1>6, <1>7, <1>8

(* The file of a new table.                                                *)
LEMMA NewFile ==
  [i \in DOMAIN First |-> [code |-> i - 1, name |-> First[i]]] \in Seq(Entry)
<1>1. Len(First) \in Nat /\ DOMAIN First = 1 .. Len(First)
  BY NamesAssumption, LenProperties
<1>2. \A i \in 1 .. Len(First) : First[i] \in Name
  BY NamesAssumption, ElementOfSeq
<1>3. \A i \in 1 .. Len(First) : [code |-> i - 1, name |-> First[i]] \in Entry
  BY <1>1, <1>2 DEF Entry
<1> QED
  BY <1>1, <1>3

-----------------------------------------------------------------------------
(* The inductive invariant.                                                *)

(* The line of a thread that is filling the maps is in the file, and once  *)
(* it has filled the first one the code is found there.                    *)
Pending ==
  \A t \in DOMAIN call :
    /\ call[t].pc \in {"putCode", "putName"} => call[t].code \in FileCodes(file)
    /\ isOpen /\ call[t].pc = "putName" => call[t].code \in DOMAIN codeToName

(* The codes in use are on file and lead to names.                         *)
Covered ==
  /\ DOMAIN codeToName \subseteq FileCodes(file)
  /\ \A n \in DOMAIN nameToCode : nameToCode[n] \in DOMAIN codeToName
  /\ \A e \in given : e.code \in FileCodes(file)
  /\ isOpen => \A e \in given : e.code \in DOMAIN codeToName

IInv ==
  /\ TypeOK
  /\ IsFiniteSet(DOMAIN nameToCode)
  /\ Pending
  /\ Covered

(* What a thread may find in the shared field is a name.                   *)
LEMMA FoundIsName ==
  ASSUME TypeOK, NEW t \in DOMAIN call
  PROVE  Found(t) \subseteq Name
  BY NamesAssumption DEF TypeOK, Found, CallState, Name

(* One thread of the table takes a step within its call.                   *)
LEMMA StepOfCall ==
  ASSUME TypeOK, NEW t \in DOMAIN call, NEW c \in CallState,
         call' = [u \in DOMAIN call |-> IF u = t THEN c ELSE call[u]]
  PROVE  /\ DOMAIN call' \subseteq Threads
         /\ \A u \in DOMAIN call' : call'[u] \in CallState
  BY DEF TypeOK

(* A thread leaves its call.                                               *)
LEMMA EndOfCall ==
  ASSUME TypeOK, NEW t \in DOMAIN call, call' = Done(t)
  PROVE  /\ DOMAIN call' = DOMAIN call \ {t}
         /\ \A u \in DOMAIN call' : call'[u] = call[u]
         /\ DOMAIN call' \subseteq Threads
         /\ \A u \in DOMAIN call' : call'[u] \in CallState
  BY DEF TypeOK, Done

(* An append keeps the codes of the file and adds one.                     *)
LEMMA AppendCodes ==
  ASSUME NEW f \in Seq(Entry), NEW e \in Entry
  PROVE  /\ Append(f, e) \in Seq(Entry)
         /\ FileCodes(Append(f, e)) = FileCodes(f) \cup {e.code}
<1>1. /\ Len(f) \in Nat /\ DOMAIN f = 1 .. Len(f)
      /\ Append(f, e) \in Seq(Entry)
      /\ DOMAIN Append(f, e) = 1 .. Len(f) + 1
      /\ \A i \in 1 .. Len(f) : Append(f, e)[i] = f[i]
      /\ Append(f, e)[Len(f) + 1] = e
  BY LenProperties
<1>2. 1 .. Len(f) + 1 = (1 .. Len(f)) \cup {Len(f) + 1}
  BY <1>1
<1> QED
  BY <1>1, <1>2 DEF FileCodes

-----------------------------------------------------------------------------
(* The invariant holds at the start.                                       *)
LEMMA InitInv == Init => IInv
<1> SUFFICES ASSUME Init PROVE IInv
  OBVIOUS
<1>1. DOMAIN << >> = {} /\ << >> \in Seq(Entry)
  BY EmptySeq
<1>2. TypeOK
  BY <1>1 DEF Init, TypeOK
<1>3. IsFiniteSet(DOMAIN nameToCode)
  BY <1>1, FS_EmptySet DEF Init
<1>4. Pending /\ Covered
  BY <1>1 DEF Init, Pending, Covered
<1> QED
  BY <1>2, <1>3, <1>4 DEF IInv

(* open                                                                    *)
LEMMA OpenInv == IInv /\ Open => IInv'
<1> SUFFICES ASSUME IInv, Open PROVE IInv'
  OBVIOUS
<1>1. TypeOK /\ Pending /\ Covered
  BY DEF IInv
<1>2. /\ file' \in Seq(Entry)
      /\ file # << >> => file' = file
  BY <1>1, NewFile DEF TypeOK, Open
<1>3. FileCodes(file) \subseteq FileCodes(file')
  BY <1>2 DEF FileCodes
<1>4. /\ DOMAIN codeToName' = FileCodes(file') /\ FileCodes(file') \subseteq Nat
      /\ \A c \in DOMAIN codeToName' : codeToName'[c] \in Name
      /\ DOMAIN nameToCode' \subseteq Name
      /\ \A n \in DOMAIN nameToCode' : nameToCode'[n] \in FileCodes(file')
      /\ IsFiniteSet(DOMAIN nameToCode')
  BY <1>2, ReadFile DEF Open
<1>5. TypeOK'
  BY <1>1, <1>2, <1>4 DEF TypeOK, Open
<1>6. Pending'
  BY <1>1, <1>3, <1>4 DEF Pending, Open
<1>7. Covered'
  BY <1>1, <1>3, <1>4 DEF Covered, Open
<1> QED
  BY <1>4, <1>5, <1>6, <1>7 DEF IInv

(* close, and the end of the process                                       *)
LEMMA UnloadInv == IInv /\ (Close \/ Crash) => IInv'
<1> SUFFICES ASSUME IInv, Close \/ Crash PROVE IInv'
  OBVIOUS
<1>1. TypeOK /\ Pending /\ Covered
  BY DEF IInv
<1>2. /\ isOpen' = FALSE /\ codeToName' = << >> /\ nameToCode' = << >>
      /\ UNCHANGED <<file, given, ambiguous, calls>>
      /\ call' = call \/ call' = << >>
      /\ raced' \in BOOLEAN
  BY <1>1 DEF Close, Crash, Unload, TypeOK
<1>3. DOMAIN << >> = {}
  OBVIOUS
<1>4. TypeOK'
  BY <1>1, <1>2, <1>3 DEF TypeOK
<1>5. Pending' /\ Covered'
  BY <1>1, <1>2, <1>3 DEF Pending, Covered
<1>6. IsFiniteSet(DOMAIN nameToCode')
  BY <1>2, <1>3, FS_EmptySet
<1> QED
  BY <1>4, <1>5, <1>6 DEF IInv

(* A call begins.                                                          *)
LEMMA BeginInv ==
  ASSUME IInv, NEW t \in Threads, NEW n \in Names, Begin(t, n)
  PROVE  IInv'
<1>1. TypeOK /\ Pending /\ Covered
  BY DEF IInv
<1>2. /\ DOMAIN call' = DOMAIN call \cup {t} /\ t \notin DOMAIN call
      /\ call'[t] = [pc |-> "get", arg |-> n, code |-> 0, name |-> n,
                     seen |-> {n} \cup {call[v].arg : v \in DOMAIN call}]
      /\ \A u \in DOMAIN call : call'[u] = [call[u] EXCEPT !.seen = @ \cup {n}]
  BY DEF Begin
<1>3. \A v \in DOMAIN call : call[v].arg \in Names
  BY <1>1 DEF TypeOK, CallState
<1>4. call'[t] \in CallState
  BY <1>2, <1>3, NamesAssumption DEF CallState
<1>5. ASSUME NEW u \in DOMAIN call
      PROVE  /\ call'[u] \in CallState
             /\ call'[u].pc = call[u].pc /\ call'[u].code = call[u].code
  BY <1>1, <1>2 DEF TypeOK, CallState
<1>6. UNCHANGED <<isOpen, file, codeToName, nameToCode, given, ambiguous>>
  BY DEF Begin
<1>7. calls' \in Nat /\ raced' \in BOOLEAN
  BY <1>1 DEF TypeOK, Begin
<1>8. TypeOK'
  BY <1>1, <1>2, <1>4, <1>5, <1>6, <1>7 DEF TypeOK
<1>9. Pending'
  BY <1>1, <1>2, <1>5, <1>6 DEF Pending
<1>10. Covered'
  BY <1>1, <1>6 DEF Covered
<1> QED
  BY <1>6, <1>8, <1>9, <1>10 DEF IInv

(* A name is found.                                                        *)
LEMMA HitInv ==
  ASSUME IInv, NEW t \in Threads, Hit(t)
  PROVE  IInv'
<1>1. TypeOK /\ Pending /\ Covered
  BY DEF IInv
<1>2. t \in DOMAIN call
  BY DEF Hit, At
<1>3. PICK n \in DOMAIN nameToCode :
        /\ given' = given \cup {[code |-> nameToCode[n], name |-> call[t].arg]}
        /\ call' = Done(t)
  BY DEF Hit, Return
<1>4. UNCHANGED <<isOpen, file, codeToName, nameToCode, raced, ambiguous, calls>>
  BY DEF Hit
<1>5. nameToCode[n] \in Nat /\ call[t].arg \in Name
  BY <1>1, <1>2, NamesAssumption DEF TypeOK, CallState
<1>6. given' \subseteq Entry
  BY <1>1, <1>3, <1>5 DEF TypeOK, Entry
<1>7. TypeOK'
  BY <1>1, <1>2, <1>3, <1>4, <1>6, EndOfCall DEF TypeOK
<1>8. Pending'
  BY <1>1, <1>2, <1>3, <1>4, EndOfCall DEF Pending
<1>9. Covered'
  BY <1>1, <1>3, <1>4 DEF Covered
<1> QED
  BY <1>4, <1>7, <1>8, <1>9 DEF IInv

(* A name is not found, or a call ends with an exception.                  *)
LEMMA MissInv ==
  ASSUME IInv, NEW t \in Threads, Miss(t)
  PROVE  IInv'
<1>1. TypeOK /\ Pending /\ Covered
  BY DEF IInv
<1> DEFINE c == [call[t] EXCEPT !.pc = "enter"]
<1>2. /\ t \in DOMAIN call /\ c \in CallState /\ c.pc = "enter"
      /\ call' = [u \in DOMAIN call |-> IF u = t THEN c ELSE call[u]]
  BY <1>1 DEF Miss, At, TypeOK, CallState
<1>3. UNCHANGED <<isOpen, file, codeToName, nameToCode, given, raced, ambiguous, calls>>
  BY DEF Miss
<1> HIDE DEF c
<1>4. TypeOK'
  BY <1>1, <1>2, <1>3, StepOfCall DEF TypeOK
<1>5. Pending' /\ Covered'
  BY <1>1, <1>2, <1>3 DEF Pending, Covered
<1> QED
  BY <1>3, <1>4, <1>5 DEF IInv

LEMMA FailureInv ==
  ASSUME IInv, NEW t \in Threads, AppendFails(t) \/ ClosedFails(t)
  PROVE  IInv'
<1>1. TypeOK /\ Pending /\ Covered
  BY DEF IInv
<1>2. /\ t \in DOMAIN call /\ call' = Done(t)
      /\ UNCHANGED <<isOpen, file, codeToName, nameToCode, given, raced, ambiguous, calls>>
  BY DEF AppendFails, ClosedFails, At
<1>3. TypeOK'
  BY <1>1, <1>2, EndOfCall DEF TypeOK
<1>4. Pending' /\ Covered'
  BY <1>1, <1>2, EndOfCall DEF Pending, Covered
<1> QED
  BY <1>2, <1>3, <1>4 DEF IInv

(* The line is written.                                                    *)
LEMMA AppendLineInv ==
  ASSUME IInv, NEW t \in Threads, AppendLine(t)
  PROVE  IInv'
<1>1. TypeOK /\ Pending /\ Covered /\ IsFiniteSet(DOMAIN nameToCode)
  BY DEF IInv
<1> DEFINE k    == Cardinality(DOMAIN nameToCode)
           line == [code |-> k, name |-> call[t].arg]
           c    == [call[t] EXCEPT !.pc = "putCode", !.code = k]
<1>2. k \in Nat
  BY <1>1, FS_CardinalityType
<1>3. file' = Append(file, line) /\ ambiguous' \in BOOLEAN
  BY <1>1 DEF AppendLine, TypeOK
<1>4. UNCHANGED <<isOpen, codeToName, nameToCode, given, raced, calls>>
  BY DEF AppendLine
<1> HIDE DEF k
<1>5. /\ t \in DOMAIN call /\ call[t] \in CallState
      /\ call' = [u \in DOMAIN call |-> IF u = t THEN c ELSE call[u]]
  BY <1>1 DEF AppendLine, At, TypeOK, k
<1>6. c \in CallState /\ c.pc = "putCode" /\ c.code = k
  BY <1>2, <1>5 DEF CallState
<1>7. line \in Entry /\ line.code = k
  BY <1>2, <1>5, NamesAssumption DEF CallState, Entry
<1> HIDE DEF c, line
<1>8. file' \in Seq(Entry) /\ FileCodes(file') = FileCodes(file) \cup {k}
  BY <1>1, <1>3, <1>7, AppendCodes DEF TypeOK
<1>9. TypeOK'
  BY <1>1, <1>3, <1>4, <1>5, <1>6, <1>8, StepOfCall DEF TypeOK
<1>10. Pending'
  BY <1>1, <1>4, <1>5, <1>6, <1>8 DEF Pending
<1>11. Covered'
  BY <1>1, <1>4, <1>8 DEF Covered
<1> QED
  BY <1>1, <1>4, <1>9, <1>10, <1>11 DEF IInv

(* The code gets its name.                                                 *)
LEMMA PutCodeInv ==
  ASSUME IInv, NEW t \in Threads, PutCode(t)
  PROVE  IInv'
<1>1. TypeOK /\ Pending /\ Covered /\ IsFiniteSet(DOMAIN nameToCode)
  BY DEF IInv
<1>2. t \in DOMAIN call /\ call[t] \in CallState /\ call[t].pc = "putCode" /\ isOpen
  BY <1>1 DEF PutCode, At, TypeOK
<1>3. PICK n \in Found(t) :
        /\ codeToName' = Put(codeToName, call[t].code, n)
        /\ call' = [call EXCEPT ![t].pc = "putName", ![t].name = n]
  BY DEF PutCode
<1>4. UNCHANGED <<isOpen, file, nameToCode, given, raced, ambiguous, calls>>
  BY DEF PutCode
<1>5. n \in Name
  BY <1>1, <1>2, FoundIsName
<1> DEFINE c == [call[t] EXCEPT !.pc = "putName", !.name = n]
<1>6. /\ c \in CallState /\ c.code = call[t].code /\ c.code \in Nat
      /\ call' = [u \in DOMAIN call |-> IF u = t THEN c ELSE call[u]]
  BY <1>2, <1>3, <1>5 DEF CallState
<1> HIDE DEF c
<1>7. /\ DOMAIN codeToName' = DOMAIN codeToName \cup {c.code}
      /\ \A x \in DOMAIN codeToName' : codeToName'[x] \in Name
      /\ DOMAIN codeToName' \subseteq Nat
  BY <1>1, <1>3, <1>5, <1>6 DEF TypeOK, Put
<1>8. TypeOK'
  BY <1>1, <1>2, <1>4, <1>6, <1>7, StepOfCall DEF TypeOK
<1>9. c.code \in FileCodes(file)
  BY <1>1, <1>2, <1>6 DEF Pending
<1>10. Pending'
  BY <1>1, <1>4, <1>6, <1>7, <1>9 DEF Pending
<1>11. Covered'
  BY <1>1, <1>4, <1>7, <1>9 DEF Covered
<1> QED
  BY <1>1, <1>4, <1>8, <1>10, <1>11 DEF IInv

(* The name gets its code.                                                 *)
LEMMA PutNameInv ==
  ASSUME IInv, NEW t \in Threads, PutName(t)
  PROVE  IInv'
<1>1. TypeOK /\ Pending /\ Covered /\ IsFiniteSet(DOMAIN nameToCode)
  BY DEF IInv
<1>2. t \in DOMAIN call /\ call[t] \in CallState /\ call[t].pc = "putName" /\ isOpen
  BY <1>1 DEF PutName, At, TypeOK
<1> DEFINE k == call[t].code
           n == call[t].name
<1>3. k \in Nat /\ n \in Name /\ call[t].arg \in Name
  BY <1>2, NamesAssumption DEF CallState
<1>4. k \in FileCodes(file) /\ k \in DOMAIN codeToName
  BY <1>1, <1>2 DEF Pending
<1>5. /\ nameToCode' = Put(nameToCode, n, k)
      /\ given' = given \cup {[code |-> k, name |-> call[t].arg]}
      /\ call' = Done(t)
      /\ UNCHANGED <<isOpen, file, codeToName, raced, ambiguous, calls>>
  BY DEF PutName, Return
<1> HIDE DEF k, n
<1>6. /\ DOMAIN nameToCode' = DOMAIN nameToCode \cup {n}
      /\ \A x \in DOMAIN nameToCode' :
           nameToCode'[x] = IF x = n THEN k ELSE nameToCode[x]
  BY <1>5 DEF Put
<1>7. IsFiniteSet(DOMAIN nameToCode')
  BY <1>1, <1>6, FS_AddElement
<1>8. given' \subseteq Entry
  BY <1>1, <1>3, <1>5 DEF TypeOK, Entry
<1>9. TypeOK'
  BY <1>1, <1>2, <1>3, <1>5, <1>6, <1>8, EndOfCall DEF TypeOK
<1>10. Pending'
  BY <1>1, <1>2, <1>5, EndOfCall DEF Pending
<1>11. Covered'
  BY <1>1, <1>4, <1>5, <1>6 DEF Covered
<1> QED
  BY <1>7, <1>9, <1>10, <1>11 DEF IInv

-----------------------------------------------------------------------------
(* Every step keeps the invariant.                                         *)
LEMMA NextInv == IInv /\ [Next]_vars => IInv'
<1> SUFFICES ASSUME IInv, [Next]_vars PROVE IInv'
  OBVIOUS
<1>1. CASE Open
  BY <1>1, OpenInv
<1>2. CASE Close \/ Crash
  BY <1>2, UnloadInv
<1>3. ASSUME NEW t \in Threads, NEW n \in Names, Begin(t, n) PROVE IInv'
  BY <1>3, BeginInv
<1>4. ASSUME NEW t \in Threads, Hit(t) PROVE IInv'
  BY <1>4, HitInv
<1>5. ASSUME NEW t \in Threads, Miss(t) PROVE IInv'
  BY <1>5, MissInv
<1>6. ASSUME NEW t \in Threads, AppendLine(t) PROVE IInv'
  BY <1>6, AppendLineInv
<1>7. ASSUME NEW t \in Threads, AppendFails(t) \/ ClosedFails(t) PROVE IInv'
  BY <1>7, FailureInv
<1>8. ASSUME NEW t \in Threads, PutCode(t) PROVE IInv'
  BY <1>8, PutCodeInv
<1>9. ASSUME NEW t \in Threads, PutName(t) PROVE IInv'
  BY <1>9, PutNameInv
<1>10. CASE UNCHANGED vars
  BY <1>10 DEF vars, IInv, TypeOK, Pending, Covered
<1> QED
  BY <1>1, <1>2, <1>3, <1>4, <1>5, <1>6, <1>7, <1>8, <1>9, <1>10 DEF Next

(* The invariant of the name store holds whatever fails and when.          *)
LEMMA Invariant == Spec => []IInv
  BY InitInv, NextInv, PTL DEF Spec

(* The state of a table is well typed: in particular codes are natural     *)
(* numbers and whatever mixture a thread stores is a name.                 *)
THEOREM TypeCorrect == Spec => []TypeOK
<1>1. IInv => TypeOK
  BY DEF IInv
<1> QED
  BY <1>1, Invariant, PTL

(* Every code that was handed out leads to a name, in memory and on file,  *)
(* for any number of overlapping calls, failures, closes and crashes.      *)
THEOREM CodesAlwaysResolve == Spec => []CodesResolve
<1>1. IInv => CodesResolve
  BY DEF IInv, Covered, FileCodes, CodesResolve
<1> QED
  BY <1>1, Invariant, PTL

-----------------------------------------------------------------------------
(* Memory and file, in a table like that of the prefixes.                  *)

Lines(f) == {f[i] : i \in DOMAIN f}

(* The maps, and the line of a thread that is filling them.                *)
OnFile ==
  /\ \A c \in DOMAIN codeToName :
       [code |-> c, name |-> codeToName[c]] \in Lines(file)
  /\ \A n \in DOMAIN nameToCode :
       [code |-> nameToCode[n], name |-> n] \in Lines(file)
  /\ \A t \in DOMAIN call :
       /\ call[t].pc \in {"putCode", "putName"} =>
            [code |-> call[t].code, name |-> call[t].arg] \in Lines(file)
       /\ call[t].pc = "putName" => call[t].name = call[t].arg

(* Where lines are read back as they were written, open reads only lines.  *)
LEMMA ReadLines ==
  ASSUME NEW f \in Seq(Entry), \A n \in Name : ReadBack[n] = n
  PROVE  /\ \A c \in DOMAIN CodesOf(f) : [code |-> c, name |-> CodesOf(f)[c]] \in Lines(f)
         /\ \A n \in DOMAIN NamesOf(f) : [code |-> NamesOf(f)[n], name |-> n] \in Lines(f)
<1>1. Len(f) \in Nat /\ DOMAIN f = 1 .. Len(f)
  BY LenProperties
<1>2. \A i \in DOMAIN f : f[i] \in Entry
  BY <1>1, ElementOfSeq
<1>3. \A i \in DOMAIN f : /\ f[i].name \in Name
                         /\ f[i] = [code |-> f[i].code, name |-> f[i].name]
  BY <1>2 DEF Entry
<1>4. ASSUME NEW c \in DOMAIN CodesOf(f)
      PROVE  [code |-> c, name |-> CodesOf(f)[c]] \in Lines(f)
  <2> DEFINE I == {i \in DOMAIN f : f[i].code = c}
  <2>1. I \in SUBSET DOMAIN f /\ I # {}
    BY <1>4 DEF CodesOf
  <2>2. PICK i \in I : Last(f, I) = f[i]
    BY <2>1, LastIsOneOfThem
  <2>3. CodesOf(f)[c] = ReadBack[Last(f, I).name]
    BY <1>4 DEF CodesOf
  <2>4. CodesOf(f)[c] = f[i].name /\ c = f[i].code
    BY <1>3, <2>2, <2>3
  <2> QED
    BY <1>3, <2>4 DEF Lines
<1>5. ASSUME NEW n \in DOMAIN NamesOf(f)
      PROVE  [code |-> NamesOf(f)[n], name |-> n] \in Lines(f)
  <2> DEFINE I == {i \in DOMAIN f : ReadBack[f[i].name] = n}
  <2>1. I \in SUBSET DOMAIN f /\ I # {}
    BY <1>5 DEF NamesOf
  <2>2. PICK i \in I : Last(f, I) = f[i]
    BY <2>1, LastIsOneOfThem
  <2>3. NamesOf(f)[n] = Last(f, I).code
    BY <1>5 DEF NamesOf
  <2>4. n = f[i].name /\ NamesOf(f)[n] = f[i].code
    BY <1>3, <2>2, <2>3
  <2> QED
    BY <1>3, <2>4 DEF Lines
<1> QED
  BY <1>4, <1>5

LEMMA AppendLines ==
  ASSUME NEW f \in Seq(Entry), NEW e \in Entry
  PROVE  Lines(Append(f, e)) = Lines(f) \cup {e}
<1>1. /\ Len(f) \in Nat /\ DOMAIN f = 1 .. Len(f)
      /\ DOMAIN Append(f, e) = 1 .. Len(f) + 1
      /\ \A i \in 1 .. Len(f) : Append(f, e)[i] = f[i]
      /\ Append(f, e)[Len(f) + 1] = e
  BY LenProperties
<1>2. 1 .. Len(f) + 1 = (1 .. Len(f)) \cup {Len(f) + 1}
  BY <1>1
<1> QED
  BY <1>1, <1>2 DEF Lines

(* The steps that change a map, the file or where a thread is.             *)
LEMMA NextOnFile ==
  ASSUME ~Shared, \A n \in Name : ReadBack[n] = n,
         IInv, OnFile, [Next]_vars
  PROVE  OnFile'
<1>1. TypeOK /\ IsFiniteSet(DOMAIN nameToCode)
  BY DEF IInv
<1>2. CASE Open
  <2>1. file' \in Seq(Entry) /\ (file # << >> => file' = file)
    BY <1>1, <1>2, NewFile DEF TypeOK, Open
  <2>2. Lines(file) \subseteq Lines(file')
    BY <2>1 DEF Lines
  <2>3. codeToName' = CodesOf(file') /\ nameToCode' = NamesOf(file') /\ call' = call
    BY <1>2 DEF Open
  <2> QED
    BY <2>1, <2>2, <2>3, ReadLines DEF OnFile
<1>3. CASE Close \/ Crash
  <2>1. /\ codeToName' = << >> /\ nameToCode' = << >> /\ file' = file
        /\ call' = call \/ call' = << >>
    BY <1>3 DEF Close, Crash, Unload
  <2>2. DOMAIN << >> = {}
    OBVIOUS
  <2> QED
    BY <2>1, <2>2 DEF OnFile
<1>4. ASSUME NEW t \in Threads, NEW n \in Names, Begin(t, n) PROVE OnFile'
  <2>1. /\ DOMAIN call' = DOMAIN call \cup {t} /\ t \notin DOMAIN call
        /\ call'[t].pc = "get"
        /\ \A u \in DOMAIN call : call'[u] = [call[u] EXCEPT !.seen = @ \cup {n}]
        /\ UNCHANGED <<file, codeToName, nameToCode>>
    BY <1>4 DEF Begin
  <2>2. ASSUME NEW u \in DOMAIN call
        PROVE  /\ call'[u].pc = call[u].pc /\ call'[u].code = call[u].code
               /\ call'[u].arg = call[u].arg /\ call'[u].name = call[u].name
    BY <1>1, <2>1 DEF TypeOK, CallState
  <2> QED
    BY <2>1, <2>2 DEF OnFile
<1>5. ASSUME NEW t \in Threads, Hit(t) \/ AppendFails(t) \/ ClosedFails(t) PROVE OnFile'
  <2>1. /\ t \in DOMAIN call /\ call' = Done(t)
        /\ UNCHANGED <<file, codeToName, nameToCode>>
    BY <1>5 DEF Hit, Return, AppendFails, ClosedFails, At
  <2>2. DOMAIN call' \subseteq DOMAIN call /\ \A u \in DOMAIN call' : call'[u] = call[u]
    BY <1>1, <2>1, EndOfCall
  <2> QED
    BY <2>1, <2>2 DEF OnFile
<1>6. ASSUME NEW t \in Threads, Miss(t) PROVE OnFile'
  <2> DEFINE c == [call[t] EXCEPT !.pc = "enter"]
  <2>1. /\ t \in DOMAIN call /\ c.pc = "enter"
        /\ call' = [u \in DOMAIN call |-> IF u = t THEN c ELSE call[u]]
        /\ UNCHANGED <<file, codeToName, nameToCode>>
    BY <1>1, <1>6 DEF Miss, At, TypeOK, CallState
  <2> HIDE DEF c
  <2> QED
    BY <2>1 DEF OnFile
<1>7. ASSUME NEW t \in Threads, AppendLine(t) PROVE OnFile'
  <2> DEFINE k    == Cardinality(DOMAIN nameToCode)
             line == [code |-> k, name |-> call[t].arg]
             c    == [call[t] EXCEPT !.pc = "putCode", !.code = k]
  <2>1. k \in Nat
    BY <1>1, FS_CardinalityType
  <2>2. file' = Append(file, line) /\ UNCHANGED <<codeToName, nameToCode>>
    BY <1>7 DEF AppendLine
  <2> HIDE DEF k
  <2>3. /\ t \in DOMAIN call /\ call[t] \in CallState
        /\ call' = [u \in DOMAIN call |-> IF u = t THEN c ELSE call[u]]
    BY <1>1, <1>7 DEF AppendLine, At, TypeOK, k
  <2>4. c.pc = "putCode" /\ c.code = k /\ c.arg = call[t].arg
    BY <2>3 DEF CallState
  <2>5. line \in Entry /\ [code |-> c.code, name |-> c.arg] = line
    BY <2>1, <2>3, <2>4, NamesAssumption DEF CallState, Entry
  <2> HIDE DEF c, line
  <2>6. Lines(file') = Lines(file) \cup {line}
    BY <1>1, <2>2, <2>5, AppendLines DEF TypeOK
  <2> QED
    BY <2>2, <2>3, <2>4, <2>5, <2>6 DEF OnFile
<1>8. ASSUME NEW t \in Threads, PutCode(t) PROVE OnFile'
  <2>1. t \in DOMAIN call /\ call[t] \in CallState /\ call[t].pc = "putCode"
    BY <1>1, <1>8 DEF PutCode, At, TypeOK
  <2>2. Found(t) = {call[t].arg}
    BY DEF Found
  <2> DEFINE n == call[t].arg
             c == [call[t] EXCEPT !.pc = "putName", !.name = n]
  <2>3. /\ codeToName' = Put(codeToName, call[t].code, n)
        /\ call' = [call EXCEPT ![t].pc = "putName", ![t].name = n]
        /\ UNCHANGED <<file, nameToCode>>
    BY <1>8, <2>2 DEF PutCode
  <2>4. call' = [u \in DOMAIN call |-> IF u = t THEN c ELSE call[u]]
    BY <2>1, <2>3
  <2>5. c.code = call[t].code /\ c.arg = call[t].arg /\ c.name = call[t].arg
    BY <2>1 DEF CallState
  <2> HIDE DEF c
  <2>6. [code |-> call[t].code, name |-> n] \in Lines(file)
    BY <2>1 DEF OnFile
  <2>7. /\ DOMAIN codeToName' = DOMAIN codeToName \cup {call[t].code}
        /\ \A x \in DOMAIN codeToName' :
             codeToName'[x] = IF x = call[t].code THEN n ELSE codeToName[x]
    BY <2>3 DEF Put
  <2>8. \A x \in DOMAIN codeToName' :
          [code |-> x, name |-> codeToName'[x]] \in Lines(file')
    BY <2>3, <2>6, <2>7 DEF OnFile
  <2> QED
    BY <2>3, <2>4, <2>5, <2>6, <2>8 DEF OnFile
<1>9. ASSUME NEW t \in Threads, PutName(t) PROVE OnFile'
  <2>1. t \in DOMAIN call /\ call[t].pc = "putName"
    BY <1>9 DEF PutName, At
  <2>2. [code |-> call[t].code, name |-> call[t].name] \in Lines(file)
    BY <2>1 DEF OnFile
  <2>3. /\ nameToCode' = Put(nameToCode, call[t].name, call[t].code)
        /\ call' = Done(t)
        /\ UNCHANGED <<file, codeToName>>
    BY <1>9 DEF PutName, Return
  <2>4. /\ DOMAIN nameToCode' = DOMAIN nameToCode \cup {call[t].name}
        /\ \A x \in DOMAIN nameToCode' :
             nameToCode'[x] = IF x = call[t].name THEN call[t].code ELSE nameToCode[x]
    BY <2>3 DEF Put
  <2>5. \A x \in DOMAIN nameToCode' :
          [code |-> nameToCode'[x], name |-> x] \in Lines(file')
    BY <2>2, <2>3, <2>4 DEF OnFile
  <2>6. DOMAIN call' \subseteq DOMAIN call /\ \A u \in DOMAIN call' : call'[u] = call[u]
    BY <1>1, <2>1, <2>3, EndOfCall
  <2> QED
    BY <2>3, <2>5, <2>6 DEF OnFile
<1>10. CASE UNCHANGED vars
  BY <1>10 DEF vars, OnFile
<1> QED
  BY <1>2, <1>3, <1>4, <1>5, <1>6, <1>7, <1>8, <1>9, <1>10 DEF Next

(* In a table that does not use the shared field and whose lines are read  *)
(* back as they were written (the prefixes), the maps never say anything   *)
(* that a line of the file does not say, however calls overlap.            *)
THEOREM PrefixesOnFile ==
  ASSUME ~Shared, \A n \in Name : ReadBack[n] = n
  PROVE  Spec => []MemoryIsOnFile
<1>1. Init => OnFile
  <2>1. DOMAIN << >> = {}
    OBVIOUS
  <2> QED
    BY <2>1 DEF Init, OnFile
<1>2. IInv /\ OnFile /\ [Next]_vars => OnFile'
  BY NextOnFile
<1>3. OnFile => MemoryIsOnFile
  BY DEF OnFile, Lines, MemoryIsOnFile
<1> QED
  BY <1>1, <1>2, <1>3, Invariant, PTL DEF Spec

-----------------------------------------------------------------------------
(* Codes and their meaning, while calls do not overlap and lines can be    *)
(* told apart.                                                             *)

(* The lines whose code can be looked up: a call that is filling the maps  *)
(* has written the last one.                                               *)
InMemory == IF Locked THEN Len(file) - 1 ELSE Len(file)

(* At most one call is in progress, and the store is open for it.          *)
AloneInv ==
  \A t \in DOMAIN call :
    isOpen /\ call[t].seen = {call[t].arg} /\ \A u \in DOMAIN call : u = t

(* The code of a line is its place, and lines are read back differently.   *)
Placed(f) ==
  \A i \in 1 .. Len(f) :
    /\ f[i].code = i - 1
    /\ \A j \in 1 .. Len(f) : ReadBack[f[i].name] = ReadBack[f[j].name] => i = j

(* A call that goes on has found no code for its name, and is at work on   *)
(* the last line.                                                          *)
CallInv ==
  \A t \in DOMAIN call :
    /\ call[t].pc # "get" => call[t].arg \notin DOMAIN nameToCode
    /\ call[t].pc \in {"putCode", "putName"} =>
         /\ Len(file) > 0
         /\ call[t].code = Len(file) - 1
         /\ file[Len(file)].name = call[t].arg
    /\ call[t].pc = "putName" =>
         /\ call[t].name = call[t].arg
         /\ codeToName[call[t].code] = call[t].arg

(* What a line may stand for in memory.                                    *)
Sense(i) == {file[i].name, ReadBack[file[i].name]}

(* The two maps are inverse to each other, and say what the lines say.     *)
MapsInv ==
  isOpen =>
    /\ \A i \in 1 .. InMemory :
         /\ i - 1 \in DOMAIN codeToName
         /\ codeToName[i - 1] \in Sense(i)
         /\ codeToName[i - 1] \in DOMAIN nameToCode
         /\ nameToCode[codeToName[i - 1]] = i - 1
    /\ \A n \in DOMAIN nameToCode :
         nameToCode[n] < InMemory /\ codeToName[nameToCode[n]] = n

(* What was handed out has its line, and its meaning in memory.            *)
GivenInv ==
  \A e \in given :
    /\ e.code < Len(file) /\ e.name \in Sense(e.code + 1)
    /\ isOpen =>
         /\ e.code < InMemory
         /\ codeToName[e.code] \in {e.name, ReadBack[e.name]}
         /\ ReadBack[e.name] = e.name =>
              e.name \in DOMAIN nameToCode /\ nameToCode[e.name] = e.code

Kept == AloneInv /\ Placed(file) /\ CallInv /\ MapsInv /\ GivenInv

KInv == ~raced /\ ~ambiguous => Kept

(* The only call.                                                          *)
LEMMA OneCall ==
  ASSUME TypeOK, AloneInv, NEW t \in DOMAIN call
  PROVE  /\ isOpen /\ DOMAIN call = {t} /\ call[t] \in CallState
         /\ call[t].arg \in Name
         /\ Found(t) = {call[t].arg}
         /\ Locked <=> call[t].pc \in {"putCode", "putName"}
<1>1. isOpen /\ DOMAIN call = {t} /\ call[t].seen = {call[t].arg}
  BY DEF AloneInv
<1>2. call[t] \in CallState /\ call[t].arg \in Name
  BY NamesAssumption DEF TypeOK, CallState
<1>3. Found(t) = {call[t].arg}
  BY <1>1, <1>2 DEF Found, Name
<1>4. Locked <=> call[t].pc \in {"putCode", "putName"}
  BY <1>1 DEF Locked, At
<1> QED
  BY <1>1, <1>2, <1>3, <1>4

(* No call.                                                                *)
LEMMA NoCall == DOMAIN call = {} => ~Locked /\ AloneInv /\ CallInv
  BY DEF Locked, At, AloneInv, CallInv

LEMMA NoCallThen == (DOMAIN call = {} => ~Locked /\ AloneInv /\ CallInv)'
  BY NoCall, PTL

(* When the only call ends there is none.                                  *)
LEMMA LastCallEnds ==
  ASSUME TypeOK, AloneInv, NEW t \in DOMAIN call, call' = Done(t)
  PROVE  DOMAIN call' = {} /\ ~Locked' /\ AloneInv' /\ CallInv'
<1>1. DOMAIN call' = {}
  BY OneCall, EndOfCall
<1> QED
  BY <1>1, NoCallThen

(* The next code is the number of lines.                                   *)
LEMMA NextCode ==
  ASSUME TypeOK, MapsInv, isOpen, ~Locked
  PROVE  Cardinality(DOMAIN nameToCode) = Len(file)
<1> DEFINE n == Len(file)
           D == DOMAIN nameToCode
           f == [i \in 1 .. n |-> codeToName[i - 1]]
<1>1. n \in Nat /\ InMemory = n
  BY DEF TypeOK, InMemory
<1>2. \A i \in 1 .. n : f[i] \in D /\ nameToCode[f[i]] = i - 1
  BY <1>1 DEF MapsInv
<1>3. ASSUME NEW x \in D
      PROVE  \E i \in 1 .. n : f[i] = x
  <2>1. nameToCode[x] \in Nat /\ nameToCode[x] < n /\ codeToName[nameToCode[x]] = x
    BY <1>1 DEF TypeOK, MapsInv
  <2>2. nameToCode[x] + 1 \in 1 .. n /\ (nameToCode[x] + 1) - 1 = nameToCode[x]
    BY <1>1, <2>1
  <2>3. f[nameToCode[x] + 1] = x
    BY <2>1, <2>2
  <2> QED
    BY <2>2, <2>3
<1>4. f \in [1 .. n -> D]
  BY <1>2
<1>5. ASSUME NEW i \in 1 .. n, NEW j \in 1 .. n, f[i] = f[j]
      PROVE  i = j
  <2>1. i - 1 = j - 1
    BY <1>2, <1>5
  <2> QED
    BY <1>1, <2>1
<1> HIDE DEF f, D
<1>6. f \in Bijection(1 .. n, D)
  BY <1>3, <1>4, <1>5 DEF Bijection, Injection, Surjection, IsInjective
<1>7. ExistsBijection(1 .. n, D)
  BY <1>6 DEF ExistsBijection
<1> QED
  BY <1>1, <1>7, FS_CountingElements DEF D

(* Reading a file whose lines are in their places.                         *)
LEMMA ReadPlaced ==
  ASSUME NEW f \in Seq(Entry), Placed(f)
  PROVE  /\ \A i \in 1 .. Len(f) :
              /\ i - 1 \in DOMAIN CodesOf(f)
              /\ CodesOf(f)[i - 1] = ReadBack[f[i].name]
              /\ ReadBack[f[i].name] \in DOMAIN NamesOf(f)
              /\ NamesOf(f)[ReadBack[f[i].name]] = i - 1
         /\ \A n \in DOMAIN NamesOf(f) : \E i \in 1 .. Len(f) : n = ReadBack[f[i].name]
<1>1. Len(f) \in Nat /\ DOMAIN f = 1 .. Len(f)
  BY LenProperties
<1>2. ASSUME NEW i \in 1 .. Len(f)
      PROVE  /\ i - 1 \in DOMAIN CodesOf(f)
             /\ CodesOf(f)[i - 1] = ReadBack[f[i].name]
  <2> DEFINE I == {j \in DOMAIN f : f[j].code = i - 1}
  <2>1. f[i].code = i - 1
    BY DEF Placed
  <2>2. i - 1 \in DOMAIN CodesOf(f)
    BY <1>1, <2>1 DEF CodesOf
  <2>3. \A j \in DOMAIN f : f[j].code = j - 1
    BY <1>1 DEF Placed
  <2>4. I = {i}
    BY <1>1, <2>3
  <2>5. Last(f, I) = f[i]
    BY <1>1, <2>4, LastIsOneOfThem
  <2> QED
    BY <2>2, <2>5 DEF CodesOf
<1>3. ASSUME NEW i \in 1 .. Len(f)
      PROVE  /\ ReadBack[f[i].name] \in DOMAIN NamesOf(f)
             /\ NamesOf(f)[ReadBack[f[i].name]] = i - 1
  <2> DEFINE I == {j \in DOMAIN f : ReadBack[f[j].name] = ReadBack[f[i].name]}
  <2>1. ReadBack[f[i].name] \in DOMAIN NamesOf(f)
    BY <1>1 DEF NamesOf
  <2>2. I = {i}
    BY <1>1 DEF Placed
  <2>3. Last(f, I) = f[i]
    BY <1>1, <2>2, LastIsOneOfThem
  <2>4. NamesOf(f)[ReadBack[f[i].name]] = f[i].code
    BY <2>1, <2>3 DEF NamesOf
  <2> QED
    BY <2>1, <2>4 DEF Placed
<1>4. \A n \in DOMAIN NamesOf(f) : \E i \in 1 .. Len(f) : n = ReadBack[f[i].name]
  BY <1>1 DEF NamesOf
<1> QED
  BY <1>2, <1>3, <1>4

(* open: the table is new, or read again.                                  *)
LEMMA OpenKept ==
  ASSUME IInv, Kept, Open, ~raced', ~ambiguous'
  PROVE  Kept'
<1>1. TypeOK /\ AloneInv /\ Placed(file) /\ GivenInv
  BY DEF IInv, Kept
<1>2. ~isOpen /\ isOpen' /\ UNCHANGED <<call, given>>
  BY DEF Open
<1>3. DOMAIN call = {} /\ DOMAIN call' = {}
  BY <1>1, <1>2 DEF AloneInv
<1>4. ~Locked' /\ AloneInv' /\ CallInv'
  BY <1>3, NoCallThen
<1>5. /\ file' \in Seq(Entry)
      /\ file # << >> => file' = file
  BY <1>1, NewFile DEF TypeOK, Open
<1>6. Len(file) \in Nat /\ Len(file') \in Nat /\ (file = << >> <=> Len(file) = 0)
  BY <1>1, <1>5 DEF TypeOK
<1>7. Placed(file')
  <2>1. CASE file # << >>
    BY <1>1, <1>5, <2>1
  <2>2. CASE file = << >>
    <3>1. file' = [i \in DOMAIN First |-> [code |-> i - 1, name |-> First[i]]]
      BY <2>2 DEF Open
    <3>2. Len(First) \in Nat /\ DOMAIN First = 1 .. Len(First)
      BY NamesAssumption, LenProperties
    <3>3. Len(file') = Len(First)
      BY <1>5, <3>1, <3>2, LenProperties
    <3>4. \A i \in 1 .. Len(file') : file'[i].code = i - 1 /\ file'[i].name = First[i]
      BY <3>1, <3>2, <3>3
    <3> QED
      BY <3>2, <3>3, <3>4, NamesAssumption DEF Placed
  <2> QED
    BY <2>1, <2>2
<1>8. codeToName' = CodesOf(file') /\ nameToCode' = NamesOf(file')
  BY DEF Open
<1>9. /\ \A i \in 1 .. Len(file') :
           /\ i - 1 \in DOMAIN codeToName'
           /\ codeToName'[i - 1] = ReadBack[file'[i].name]
           /\ ReadBack[file'[i].name] \in DOMAIN nameToCode'
           /\ nameToCode'[ReadBack[file'[i].name]] = i - 1
      /\ \A n \in DOMAIN nameToCode' : \E i \in 1 .. Len(file') : n = ReadBack[file'[i].name]
  BY <1>5, <1>7, <1>8, ReadPlaced
<1>10. InMemory' = Len(file')
  BY <1>4 DEF InMemory
<1>11. MapsInv'
  <2>1. \A i \in 1 .. InMemory' :
          /\ i - 1 \in DOMAIN codeToName'
          /\ codeToName'[i - 1] \in Sense(i)'
          /\ codeToName'[i - 1] \in DOMAIN nameToCode'
          /\ nameToCode'[codeToName'[i - 1]] = i - 1
    BY <1>9, <1>10 DEF Sense
  <2>2. ASSUME NEW n \in DOMAIN nameToCode'
        PROVE  nameToCode'[n] < InMemory' /\ codeToName'[nameToCode'[n]] = n
    <3>1. PICK i \in 1 .. Len(file') : n = ReadBack[file'[i].name]
      BY <1>9
    <3>2. nameToCode'[n] = i - 1 /\ codeToName'[i - 1] = n
      BY <1>9, <3>1
    <3> QED
      BY <1>6, <1>10, <3>2
  <2> QED
    BY <2>1, <2>2 DEF MapsInv
<1>12. GivenInv'
  <2> SUFFICES ASSUME NEW e \in given
               PROVE  /\ e.code < Len(file') /\ e.name \in Sense(e.code + 1)'
                      /\ codeToName'[e.code] \in {e.name, ReadBack[e.name]}
                      /\ ReadBack[e.name] = e.name =>
                           e.name \in DOMAIN nameToCode' /\ nameToCode'[e.name] = e.code
    BY <1>2, <1>10 DEF GivenInv
  <2>1. e.code \in Nat
    BY <1>1 DEF TypeOK, Entry
  <2>2. e.code < Len(file) /\ e.name \in Sense(e.code + 1)
    BY <1>1 DEF GivenInv
  <2>3. file' = file
    BY <1>5, <1>6, <2>1, <2>2
  <2>4. /\ e.code + 1 \in 1 .. Len(file') /\ (e.code + 1) - 1 = e.code
    BY <1>6, <2>1, <2>2, <2>3
  <2> DEFINE m == file'[e.code + 1].name
  <2>5. e.name = m \/ e.name = ReadBack[m]
    BY <2>2, <2>3 DEF Sense
  <2>6. /\ codeToName'[e.code] = ReadBack[m]
        /\ ReadBack[m] \in DOMAIN nameToCode'
        /\ nameToCode'[ReadBack[m]] = e.code
    BY <1>9, <2>4
  <2>7. e.name \in Sense(e.code + 1)'
    BY <2>5 DEF Sense
  <2> HIDE DEF m
  <2> QED
    BY <2>2, <2>3, <2>5, <2>6, <2>7
<1> QED
  BY <1>4, <1>7, <1>11, <1>12 DEF Kept

(* close and the end of the process: only the file is left.                *)
LEMMA UnloadKept ==
  ASSUME IInv, Kept, Close \/ Crash, ~raced', ~ambiguous'
  PROVE  Kept'
<1>1. TypeOK /\ Placed(file) /\ GivenInv
  BY DEF IInv, Kept
<1>2. ~isOpen' /\ UNCHANGED <<file, given>>
  BY DEF Close, Crash, Unload
<1>3. DOMAIN << >> = {}
  OBVIOUS
<1>4. DOMAIN call' = {}
  BY <1>3 DEF Close, Crash
<1>5. AloneInv' /\ CallInv'
  BY <1>4, NoCallThen
<1>6. MapsInv'
  BY <1>2 DEF MapsInv
<1>7. GivenInv'
  BY <1>1, <1>2 DEF GivenInv, Sense
<1> QED
  BY <1>1, <1>2, <1>5, <1>6, <1>7 DEF Kept

(* The maps, the file and what was handed out stay, and so does the lock.  *)
LEMMA SameMaps ==
  ASSUME Kept, UNCHANGED <<isOpen, file, codeToName, nameToCode, given>>,
         Locked <=> Locked'
  PROVE  Placed(file') /\ MapsInv' /\ GivenInv'
<1>1. InMemory' = InMemory
  BY DEF InMemory
<1>2. MapsInv'
  BY <1>1 DEF Kept, MapsInv, Sense
<1>3. GivenInv'
  BY <1>1 DEF Kept, GivenInv, Sense
<1> QED
  BY <1>2, <1>3 DEF Kept

(* A call begins, alone.                                                   *)
LEMMA BeginKept ==
  ASSUME IInv, Kept, NEW t \in Threads, NEW n \in Names, Begin(t, n),
         ~raced', ~ambiguous'
  PROVE  Kept'
<1>1. /\ isOpen /\ DOMAIN call = {}
      /\ UNCHANGED <<isOpen, file, codeToName, nameToCode, given>>
  BY DEF Begin
<1>2. DOMAIN call' = {t} /\ call'[t].pc = "get" /\ call'[t].arg = n /\ call'[t].seen = {n}
  BY <1>1 DEF Begin
<1>3. AloneInv' /\ CallInv'
  BY <1>1, <1>2 DEF AloneInv, CallInv
<1>4. ~Locked /\ ~Locked'
  BY <1>1, <1>2 DEF Locked, At
<1> QED
  BY <1>1, <1>3, <1>4, SameMaps DEF Kept

(* A name that is found is given the code of its line.                     *)
LEMMA HitKept ==
  ASSUME IInv, Kept, NEW t \in Threads, Hit(t), ~raced', ~ambiguous'
  PROVE  Kept'
<1>1. TypeOK /\ AloneInv /\ Placed(file) /\ MapsInv /\ GivenInv
  BY DEF IInv, Kept
<1>2. t \in DOMAIN call /\ call[t].pc = "get"
  BY DEF Hit, At
<1>3. isOpen /\ call[t].arg \in Name /\ Found(t) = {call[t].arg} /\ ~Locked
  BY <1>1, <1>2, OneCall
<1> DEFINE m == call[t].arg
           k == nameToCode[m]
<1>4. /\ m \in DOMAIN nameToCode
      /\ given' = given \cup {[code |-> k, name |-> m]}
      /\ call' = Done(t)
      /\ UNCHANGED <<isOpen, file, codeToName, nameToCode>>
  BY <1>3 DEF Hit, Return
<1>5. ~Locked' /\ AloneInv' /\ CallInv'
  BY <1>1, <1>2, <1>4, LastCallEnds
<1>6. InMemory = Len(file) /\ InMemory' = Len(file) /\ Len(file) \in Nat
  BY <1>1, <1>3, <1>4, <1>5 DEF InMemory, TypeOK
<1>7. k \in Nat /\ k < Len(file) /\ codeToName[k] = m
  BY <1>1, <1>3, <1>4, <1>6 DEF TypeOK, MapsInv
<1>8. m \in Sense(k + 1)
  <2>1. k + 1 \in 1 .. InMemory /\ (k + 1) - 1 = k
    BY <1>6, <1>7
  <2>2. codeToName[(k + 1) - 1] \in Sense(k + 1)
    BY <1>1, <1>3, <2>1 DEF MapsInv
  <2> QED
    BY <1>7, <2>1, <2>2
<1>9. MapsInv'
  BY <1>1, <1>4, <1>6 DEF MapsInv, Sense
<1> HIDE DEF k, m
<1>10. GivenInv'
  <2>1. \A i : Sense(i)' = Sense(i)
    BY <1>4 DEF Sense
  <2>2. \A e \in given : /\ e.code < Len(file) /\ e.name \in Sense(e.code + 1)
                         /\ codeToName[e.code] \in {e.name, ReadBack[e.name]}
                         /\ ReadBack[e.name] = e.name =>
                              e.name \in DOMAIN nameToCode /\ nameToCode[e.name] = e.code
    BY <1>1, <1>3 DEF GivenInv
  <2>3. nameToCode[m] = k
    BY DEF k
  <2> QED
    BY <1>4, <1>6, <1>7, <1>8, <2>1, <2>2, <2>3 DEF GivenInv
<1> QED
  BY <1>1, <1>4, <1>5, <1>9, <1>10 DEF Kept

(* A call that misses has no code for its name.                            *)
LEMMA MissKept ==
  ASSUME IInv, Kept, NEW t \in Threads, Miss(t), ~raced', ~ambiguous'
  PROVE  Kept'
<1>1. TypeOK /\ AloneInv
  BY DEF IInv, Kept
<1>2. t \in DOMAIN call /\ call[t].pc = "get"
  BY DEF Miss, At
<1>3. /\ isOpen /\ DOMAIN call = {t} /\ call[t] \in CallState
      /\ Found(t) = {call[t].arg} /\ call[t].seen = {call[t].arg} /\ ~Locked
  BY <1>1, <1>2, OneCall DEF AloneInv
<1>4. Cardinality({call[t].arg}) = 1
  BY FS_Singleton
<1>5. call[t].arg \notin DOMAIN nameToCode
  BY <1>3, <1>4 DEF Miss
<1>6. /\ call' = [call EXCEPT ![t].pc = "enter"]
      /\ UNCHANGED <<isOpen, file, codeToName, nameToCode, given>>
  BY DEF Miss
<1>7. /\ DOMAIN call' = {t} /\ call'[t].pc = "enter"
      /\ call'[t].arg = call[t].arg /\ call'[t].seen = call[t].seen
  BY <1>3, <1>6 DEF CallState
<1>8. AloneInv' /\ CallInv'
  BY <1>3, <1>5, <1>6, <1>7 DEF AloneInv, CallInv
<1>9. ~Locked'
  BY <1>7 DEF Locked, At
<1> QED
  BY <1>3, <1>6, <1>8, <1>9, SameMaps DEF Kept

(* A call that fails leaves everything as it was.                          *)
LEMMA FailureKept ==
  ASSUME IInv, Kept, NEW t \in Threads, AppendFails(t) \/ ClosedFails(t),
         ~raced', ~ambiguous'
  PROVE  Kept'
<1>1. TypeOK /\ AloneInv
  BY DEF IInv, Kept
<1>2. /\ t \in DOMAIN call /\ call' = Done(t)
      /\ UNCHANGED <<isOpen, file, codeToName, nameToCode, given>>
  BY DEF AppendFails, ClosedFails, At
<1>3. isOpen
  BY <1>1, <1>2, OneCall
<1>4. ~Locked
  BY <1>3 DEF AppendFails, ClosedFails
<1>5. ~Locked' /\ AloneInv' /\ CallInv'
  BY <1>1, <1>2, LastCallEnds
<1> QED
  BY <1>2, <1>4, <1>5, SameMaps DEF Kept

(* The next line: its place is its code.                                   *)
LEMMA AppendLineKept ==
  ASSUME IInv, Kept, NEW t \in Threads, AppendLine(t), ~raced', ~ambiguous'
  PROVE  Kept'
<1>1. TypeOK /\ AloneInv /\ Placed(file) /\ CallInv /\ MapsInv /\ GivenInv
  BY DEF IInv, Kept
<1>2. t \in DOMAIN call /\ call[t].pc = "enter" /\ isOpen /\ ~Locked
  BY DEF AppendLine, At
<1> DEFINE k    == Len(file)
           m    == call[t].arg
           line == [code |-> k, name |-> m]
<1>3. /\ DOMAIN call = {t} /\ call[t] \in CallState /\ m \in Name
      /\ call[t].seen = {m} /\ k \in Nat
  <2>1. DOMAIN call = {t} /\ call[t] \in CallState /\ m \in Name
    BY <1>1, <1>2, OneCall
  <2>2. call[t].seen = {m} /\ k \in Nat
    BY <1>1, <1>2 DEF AloneInv, TypeOK
  <2> QED
    BY <2>1, <2>2
<1>4. Cardinality(DOMAIN nameToCode) = k
  BY <1>1, <1>2, NextCode
<1>5. /\ file' = Append(file, line)
      /\ call' = [call EXCEPT ![t].pc = "putCode", ![t].code = k]
      /\ \A i \in DOMAIN file : ReadBack[file[i].name] # ReadBack[m]
      /\ UNCHANGED <<isOpen, codeToName, nameToCode, given>>
  BY <1>4 DEF AppendLine
<1>6. /\ DOMAIN call' = {t} /\ call'[t].pc = "putCode" /\ call'[t].code = k
      /\ call'[t].arg = m /\ call'[t].seen = {m}
  BY <1>3, <1>5 DEF CallState
<1>7. Locked' /\ AloneInv'
  BY <1>2, <1>5, <1>6 DEF Locked, At, AloneInv
<1>8. line \in Entry
  BY <1>3 DEF Entry
<1>9. /\ DOMAIN file = 1 .. k
      /\ Len(file') = k + 1
      /\ \A i \in 1 .. k : file'[i] = file[i]
      /\ file'[k + 1] = line
  BY <1>1, <1>5, <1>8, AppendProperties, LenProperties DEF TypeOK
<1>10. InMemory = k /\ InMemory' = k
  BY <1>2, <1>3, <1>7, <1>9 DEF InMemory
<1> HIDE DEF k, m
<1>11. Placed(file')
  <2>1. 1 .. Len(file') = (1 .. k) \cup {k + 1}
    BY <1>3, <1>9
  <2>2. \A i \in 1 .. k : /\ file'[i].code = i - 1
                          /\ ReadBack[file'[i].name] # ReadBack[file'[k + 1].name]
    BY <1>1, <1>5, <1>9 DEF Placed, k
  <2>3. file'[k + 1].code = (k + 1) - 1
    BY <1>3, <1>9
  <2>4. \A i, j \in 1 .. k : ReadBack[file'[i].name] = ReadBack[file'[j].name] => i = j
    BY <1>1, <1>9 DEF Placed, k
  <2> HIDE DEF line
  <2> QED
    BY <2>1, <2>2, <2>3, <2>4 DEF Placed
<1>12. CallInv'
  <2>1. m \notin DOMAIN nameToCode'
    BY <1>1, <1>2, <1>5 DEF CallInv, m
  <2>2. Len(file') > 0 /\ k = Len(file') - 1 /\ file'[Len(file')].name = m
    BY <1>3, <1>9
  <2> QED
    BY <1>6, <2>1, <2>2 DEF CallInv
<1>13. \A i \in 1 .. k : Sense(i)' = Sense(i)
  BY <1>9 DEF Sense
<1>14. MapsInv'
  BY <1>1, <1>5, <1>10, <1>13 DEF MapsInv
<1>15. GivenInv'
  <2> SUFFICES ASSUME NEW e \in given
               PROVE  /\ e.code < Len(file') /\ e.name \in Sense(e.code + 1)'
                      /\ e.code < InMemory'
    BY <1>1, <1>2, <1>5 DEF GivenInv
  <2>1. e.code \in Nat
    BY <1>1 DEF TypeOK, Entry
  <2>2. e.code < k /\ e.name \in Sense(e.code + 1)
    BY <1>1 DEF GivenInv, k
  <2>3. e.code + 1 \in 1 .. k /\ e.code < k + 1
    BY <1>3, <2>1, <2>2
  <2> QED
    BY <1>9, <1>10, <1>13, <2>2, <2>3
<1> QED
  BY <1>7, <1>11, <1>12, <1>14, <1>15 DEF Kept

(* The code is looked up to its name.                                      *)
LEMMA PutCodeKept ==
  ASSUME IInv, Kept, NEW t \in Threads, PutCode(t), ~raced', ~ambiguous'
  PROVE  Kept'
<1>1. TypeOK /\ AloneInv /\ Placed(file) /\ CallInv /\ MapsInv /\ GivenInv
  BY DEF IInv, Kept
<1>2. t \in DOMAIN call /\ call[t].pc = "putCode" /\ isOpen
  BY DEF PutCode, At
<1> DEFINE k == call[t].code
           m == call[t].arg
<1>3. DOMAIN call = {t} /\ call[t] \in CallState /\ Found(t) = {m} /\ Locked
  BY <1>1, <1>2, OneCall
<1>4. call[t].seen = {m}
  BY <1>1, <1>2 DEF AloneInv
<1>5. /\ k = Len(file) - 1 /\ Len(file) > 0 /\ Len(file) \in Nat
      /\ file[Len(file)].name = m /\ m \notin DOMAIN nameToCode
  BY <1>1, <1>2 DEF CallInv, TypeOK
<1>6. /\ codeToName' = Put(codeToName, k, m)
      /\ call' = [call EXCEPT ![t].pc = "putName", ![t].name = m]
      /\ UNCHANGED <<isOpen, file, nameToCode, given>>
  BY <1>3 DEF PutCode
<1>7. /\ DOMAIN call' = {t} /\ call'[t].pc = "putName" /\ call'[t].name = m
      /\ call'[t].code = k /\ call'[t].arg = m /\ call'[t].seen = {m}
  BY <1>3, <1>4, <1>6 DEF CallState
<1>8. Locked' /\ AloneInv'
  BY <1>2, <1>6, <1>7 DEF Locked, At, AloneInv
<1>9. /\ DOMAIN codeToName' = DOMAIN codeToName \cup {k}
      /\ codeToName'[k] = m
      /\ \A x \in DOMAIN codeToName : x # k => codeToName'[x] = codeToName[x]
  BY <1>6 DEF Put
<1>10. InMemory = k /\ InMemory' = k
  BY <1>3, <1>5, <1>6, <1>8 DEF InMemory
<1> HIDE DEF k, m
<1>11. CallInv'
  BY <1>5, <1>6, <1>7, <1>9 DEF CallInv
<1>12. \A i : Sense(i)' = Sense(i)
  BY <1>6 DEF Sense
<1>13. MapsInv'
  <2>1. ASSUME NEW i \in 1 .. k
        PROVE  /\ i - 1 \in DOMAIN codeToName'
               /\ codeToName'[i - 1] = codeToName[i - 1]
    <3>1. i - 1 \in DOMAIN codeToName
      BY <1>1, <1>2, <1>10 DEF MapsInv
    <3>2. i - 1 # k
      BY <1>5
    <3> QED
      BY <1>9, <3>1, <3>2
  <2>2. \A i \in 1 .. k :
          /\ codeToName[i - 1] \in Sense(i)
          /\ codeToName[i - 1] \in DOMAIN nameToCode
          /\ nameToCode[codeToName[i - 1]] = i - 1
    BY <1>1, <1>2, <1>10 DEF MapsInv
  <2>3. ASSUME NEW n \in DOMAIN nameToCode
        PROVE  nameToCode[n] < k /\ codeToName'[nameToCode[n]] = n
    <3>1. nameToCode[n] < k /\ codeToName[nameToCode[n]] = n /\ nameToCode[n] \in Nat
      BY <1>1, <1>2, <1>10 DEF MapsInv, TypeOK
    <3>2. nameToCode[n] \in DOMAIN codeToName
      BY DEF IInv, Covered
    <3>3. nameToCode[n] # k
      BY <1>5, <3>1
    <3> QED
      BY <1>9, <3>1, <3>2, <3>3
  <2> QED
    BY <1>6, <1>10, <1>12, <2>1, <2>2, <2>3 DEF MapsInv
<1>14. GivenInv'
  <2> SUFFICES ASSUME NEW e \in given
               PROVE  /\ e.code < Len(file) /\ e.name \in Sense(e.code + 1)
                      /\ e.code < k
                      /\ codeToName'[e.code] \in {e.name, ReadBack[e.name]}
                      /\ ReadBack[e.name] = e.name =>
                           e.name \in DOMAIN nameToCode /\ nameToCode[e.name] = e.code
    BY <1>2, <1>6, <1>10, <1>12 DEF GivenInv
  <2>1. /\ e.code < Len(file) /\ e.name \in Sense(e.code + 1)
        /\ e.code < k
        /\ codeToName[e.code] \in {e.name, ReadBack[e.name]}
        /\ ReadBack[e.name] = e.name =>
             e.name \in DOMAIN nameToCode /\ nameToCode[e.name] = e.code
    BY <1>1, <1>2, <1>10 DEF GivenInv
  <2>2. e.code \in DOMAIN codeToName /\ e.code \in Nat
    BY <1>1, <1>2 DEF IInv, Covered, TypeOK, Entry
  <2>3. e.code # k
    BY <1>5, <2>1, <2>2
  <2> QED
    BY <1>9, <2>1, <2>2, <2>3
<1> QED
  BY <1>1, <1>6, <1>8, <1>11, <1>13, <1>14 DEF Kept

(* The name is looked up to its code, which is handed out.                 *)
LEMMA PutNameKept ==
  ASSUME IInv, Kept, NEW t \in Threads, PutName(t), ~raced', ~ambiguous'
  PROVE  Kept'
<1>1. TypeOK /\ AloneInv /\ Placed(file) /\ CallInv /\ MapsInv /\ GivenInv
  BY DEF IInv, Kept
<1>2. t \in DOMAIN call /\ call[t].pc = "putName" /\ isOpen
  BY DEF PutName, At
<1> DEFINE k == call[t].code
           m == call[t].arg
<1>3. Locked
  BY <1>1, <1>2, OneCall
<1>4. /\ k = Len(file) - 1 /\ Len(file) > 0 /\ Len(file) \in Nat
      /\ file[Len(file)].name = m /\ m \notin DOMAIN nameToCode
      /\ call[t].name = m /\ codeToName[k] = m
  BY <1>1, <1>2 DEF CallInv, TypeOK
<1>5. k \in DOMAIN codeToName
  BY <1>2 DEF IInv, Pending
<1>6. /\ nameToCode' = Put(nameToCode, m, k)
      /\ given' = given \cup {[code |-> k, name |-> m]}
      /\ call' = Done(t)
      /\ UNCHANGED <<isOpen, file, codeToName>>
  BY <1>4 DEF PutName, Return
<1>7. ~Locked' /\ AloneInv' /\ CallInv'
  BY <1>1, <1>2, <1>6, LastCallEnds
<1>8. /\ DOMAIN nameToCode' = DOMAIN nameToCode \cup {m}
      /\ nameToCode'[m] = k
      /\ \A x \in DOMAIN nameToCode : x # m => nameToCode'[x] = nameToCode[x]
  BY <1>6 DEF Put
<1>9. InMemory = k /\ InMemory' = k + 1
  BY <1>3, <1>4, <1>6, <1>7 DEF InMemory
<1>10. Len(file) = k + 1 /\ k \in Nat
  BY <1>4
<1> HIDE DEF k, m
<1>11. \A i : Sense(i)' = Sense(i)
  BY <1>6 DEF Sense
<1>12. m \in Sense(k + 1)
  BY <1>4, <1>10 DEF Sense
<1>13. MapsInv'
  <2>1. ASSUME NEW i \in 1 .. k + 1
        PROVE  /\ i - 1 \in DOMAIN codeToName
               /\ codeToName[i - 1] \in Sense(i)
               /\ codeToName[i - 1] \in DOMAIN nameToCode'
               /\ nameToCode'[codeToName[i - 1]] = i - 1
    <3>1. CASE i = k + 1
      <4>1. i - 1 = k
        BY <1>10, <3>1
      <4> QED
        BY <1>4, <1>5, <1>8, <1>12, <3>1, <4>1
    <3>2. CASE i # k + 1
      <4>1. i \in 1 .. k
        BY <1>10, <3>2
      <4>2. /\ i - 1 \in DOMAIN codeToName
            /\ codeToName[i - 1] \in Sense(i)
            /\ codeToName[i - 1] \in DOMAIN nameToCode
            /\ nameToCode[codeToName[i - 1]] = i - 1
        BY <1>1, <1>2, <1>9, <4>1 DEF MapsInv
      <4>3. codeToName[i - 1] # m
        BY <1>4, <4>2
      <4> QED
        BY <1>8, <4>2, <4>3
    <3> QED
      BY <3>1, <3>2
  <2>2. ASSUME NEW n \in DOMAIN nameToCode'
        PROVE  nameToCode'[n] < k + 1 /\ codeToName[nameToCode'[n]] = n
    <3>1. CASE n = m
      BY <1>4, <1>8, <1>10, <3>1
    <3>2. CASE n # m
      <4>1. n \in DOMAIN nameToCode /\ nameToCode'[n] = nameToCode[n]
        BY <1>8, <3>2
      <4>2. nameToCode[n] < k /\ codeToName[nameToCode[n]] = n /\ nameToCode[n] \in Nat
        BY <1>1, <1>2, <1>9, <4>1 DEF MapsInv, TypeOK
      <4>3. nameToCode[n] < k + 1
        BY <1>10, <4>2
      <4> QED
        BY <4>1, <4>2, <4>3
    <3> QED
      BY <3>1, <3>2
  <2> QED
    BY <1>6, <1>9, <1>11, <2>1, <2>2 DEF MapsInv
<1>14. GivenInv'
  <2> SUFFICES ASSUME NEW e \in given'
               PROVE  /\ e.code < k + 1 /\ e.name \in Sense(e.code + 1)
                      /\ codeToName[e.code] \in {e.name, ReadBack[e.name]}
                      /\ ReadBack[e.name] = e.name =>
                           e.name \in DOMAIN nameToCode' /\ nameToCode'[e.name] = e.code
    BY <1>2, <1>6, <1>9, <1>10, <1>11 DEF GivenInv
  <2>1. CASE e \in given
    <3>1. /\ e.code < k /\ e.name \in Sense(e.code + 1)
          /\ codeToName[e.code] \in {e.name, ReadBack[e.name]}
          /\ ReadBack[e.name] = e.name =>
               e.name \in DOMAIN nameToCode /\ nameToCode[e.name] = e.code
      BY <1>1, <1>2, <1>9, <2>1 DEF GivenInv
    <3>2. e.code \in Nat
      BY <1>1, <2>1 DEF TypeOK, Entry
    <3>3. e.code < k + 1
      BY <1>10, <3>1, <3>2
    <3>4. e.name \in DOMAIN nameToCode => e.name # m
      BY <1>4
    <3> QED
      BY <1>8, <3>1, <3>3, <3>4
  <2>2. CASE e = [code |-> k, name |-> m]
    <3>1. e.code = k /\ e.name = m /\ k < k + 1
      BY <1>10, <2>2
    <3> QED
      BY <1>4, <1>8, <1>12, <3>1
  <2> QED
    BY <1>6, <2>1, <2>2
<1> QED
  BY <1>1, <1>6, <1>7, <1>13, <1>14 DEF Kept

(* The invariant is inductive: what has raced stays so.                    *)
LEMMA NextKInv == IInv /\ KInv /\ [Next]_vars => KInv'
<1> SUFFICES ASSUME IInv, KInv, [Next]_vars, ~raced', ~ambiguous'
             PROVE  Kept'
  BY DEF KInv
<1>1. CASE UNCHANGED vars
  <2>1. UNCHANGED <<isOpen, file, codeToName, nameToCode, call, given, raced, ambiguous>>
    BY <1>1 DEF vars
  <2>2. Locked <=> Locked'
    BY <2>1 DEF Locked, At
  <2>3. Kept
    BY <2>1 DEF KInv
  <2>4. AloneInv' /\ CallInv'
    BY <2>1, <2>3 DEF Kept, AloneInv, CallInv
  <2> QED
    BY <2>1, <2>2, <2>3, <2>4, SameMaps DEF Kept
<1>2. CASE Next
  <2>1. ~raced /\ ~ambiguous
    <3>1. CASE Open \/ Close \/ Crash
      <4>1. CASE Open
        BY <4>1 DEF Open
      <4>2. CASE Close
        BY <4>2 DEF Close, Unload
      <4>3. CASE Crash
        BY <4>3 DEF Crash, Unload
      <4> QED
        BY <3>1, <4>1, <4>2, <4>3
    <3>2. ASSUME NEW t \in Threads, NEW n \in Names, Begin(t, n)
          PROVE  ~raced /\ ~ambiguous
      BY <3>2 DEF Begin
    <3>3. ASSUME NEW t \in Threads,
                 Hit(t) \/ Miss(t) \/ AppendFails(t) \/ ClosedFails(t)
          PROVE  ~raced /\ ~ambiguous
      BY <3>3 DEF Hit, Miss, AppendFails, ClosedFails
    <3>4. ASSUME NEW t \in Threads, AppendLine(t)
          PROVE  ~raced /\ ~ambiguous
      BY <3>4 DEF AppendLine
    <3>5. ASSUME NEW t \in Threads, PutCode(t) \/ PutName(t)
          PROVE  ~raced /\ ~ambiguous
      BY <3>5 DEF PutCode, PutName
    <3> QED
      BY <1>2, <3>1, <3>2, <3>3, <3>4, <3>5 DEF Next
  <2>2. Kept
    BY <2>1 DEF KInv
  <2>3. CASE Open \/ Close \/ Crash
    BY <2>2, <2>3, OpenKept, UnloadKept
  <2>4. ASSUME NEW t \in Threads, NEW n \in Names, Begin(t, n)
        PROVE  Kept'
    BY <2>2, <2>4, BeginKept
  <2>5. ASSUME NEW t \in Threads, Hit(t) \/ Miss(t)
        PROVE  Kept'
    BY <2>2, <2>5, HitKept, MissKept
  <2>6. ASSUME NEW t \in Threads, AppendLine(t)
        PROVE  Kept'
    BY <2>2, <2>6, AppendLineKept
  <2>7. ASSUME NEW t \in Threads, AppendFails(t) \/ ClosedFails(t)
        PROVE  Kept'
    BY <2>2, <2>7, FailureKept
  <2>8. ASSUME NEW t \in Threads, PutCode(t) \/ PutName(t)
        PROVE  Kept'
    BY <2>2, <2>8, PutCodeKept, PutNameKept
  <2> QED
    BY <1>2, <2>3, <2>4, <2>5, <2>6, <2>7, <2>8 DEF Next
<1> QED
  BY <1>1, <1>2

LEMMA InitKept == Init => KInv
<1> SUFFICES ASSUME Init PROVE Kept
  BY DEF KInv
<1>1. /\ ~isOpen /\ file = << >> /\ given = {} /\ call = << >>
      /\ DOMAIN << >> = {} /\ Len(<< >>) = 0
  BY DEF Init
<1>2. AloneInv /\ CallInv
  BY <1>1, NoCall
<1>3. Placed(file)
  BY <1>1 DEF Placed
<1>4. MapsInv /\ GivenInv
  BY <1>1 DEF MapsInv, GivenInv
<1> QED
  BY <1>2, <1>3, <1>4 DEF Kept

(* While no calls overlap and no two lines are read back alike, the file   *)
(* and the maps agree, line by line.                                       *)
THEOREM MapsAgree == Spec => []KInv
<1> QED
  BY Invariant, InitKept, NextKInv, PTL DEF Spec

(* A code keeps its meaning over failed calls, stops and restarts, and a   *)
(* name that is read back as itself keeps its code, as long as no calls    *)
(* overlap and no two lines are read back alike.                           *)
THEOREM CodesKeepTheirMeaning == Spec => []CodesKeepMeaning
<1>1. IInv /\ KInv => CodesKeepMeaning
  <2> SUFFICES ASSUME IInv, KInv, isOpen, ~raced, ~ambiguous, NEW e \in given
               PROVE  /\ e.code \in DOMAIN codeToName
                      /\ codeToName[e.code] \in {e.name, ReadBack[e.name]}
                      /\ ReadBack[e.name] = e.name =>
                           e.name \in DOMAIN nameToCode /\ nameToCode[e.name] = e.code
    BY DEF CodesKeepMeaning
  <2>1. e.code \in DOMAIN codeToName
    BY DEF IInv, Covered
  <2> QED
    BY <2>1 DEF KInv, Kept, GivenInv
<1> QED
  BY <1>1, Invariant, MapsAgree, PTL
=============================================================================
