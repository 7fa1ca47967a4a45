------------------------ MODULE NodeNumberingProofs ------------------------
(***************************************************************************)
(* Proofs about NodeNumbering, for every set of documents of every size    *)
(* and shape, and every number of additions.                               *)
(***************************************************************************)
EXTENDS NodeNumbering, FiniteSetTheorems, SequenceTheorems, WellFoundedInduction,
        TLAPS

-----------------------------------------------------------------------------
(* The stack of calls.                                                     *)

(* A call moves on to the next child.                                      *)
LEMMA AdvancedStack ==
  ASSUME TypeOK, stack # << >>
  PROVE  /\ Len(stack) \in 1 .. Len(stack)
         /\ Top \in Frame
         /\ Advanced \in Seq(Frame)
         /\ Len(Advanced) = Len(stack)
         /\ \A i \in 1 .. Len(stack) :
              /\ stack[i] \in Frame
              /\ Advanced[i].node = stack[i].node
              /\ Advanced[i].next = IF i = Len(stack) THEN stack[i].next + 1
                                    ELSE stack[i].next
<1>1. stack \in Seq(Frame) /\ Len(stack) \in 1 .. Len(stack)
  BY DEF TypeOK
<1>2. \A i \in 1 .. Len(stack) : stack[i] \in Frame
  BY <1>1
<1>3. Top \in Frame
  BY <1>1, <1>2 DEF Top
<1>4. [stack[Len(stack)] EXCEPT !.next = @ + 1] \in Frame
  BY <1>1, <1>2 DEF Frame
<1>5. Advanced \in Seq(Frame) /\ Len(Advanced) = Len(stack)
  BY <1>1, <1>4 DEF Advanced
<1>6. ASSUME NEW i \in 1 .. Len(stack)
      PROVE  /\ Advanced[i].node = stack[i].node
             /\ Advanced[i].next = IF i = Len(stack) THEN stack[i].next + 1
                                   ELSE stack[i].next
  BY <1>1, <1>2 DEF Advanced, Frame
<1> QED
  BY <1>1, <1>2, <1>3, <1>5, <1>6

(* A call moves on to the next child and calls itself on it.               *)
LEMMA PushedStack ==
  ASSUME TypeOK, stack # << >>, NEW c \in Nodes, NEW s,
         s = Append(Advanced, [node |-> c, next |-> 0])
  PROVE  /\ s \in Seq(Frame)
         /\ Len(s) = Len(stack) + 1
         /\ s[Len(s)] = [node |-> c, next |-> 0]
         /\ \A i \in 1 .. Len(stack) : s[i] = Advanced[i]
<1>1. [node |-> c, next |-> 0] \in Frame
  BY DEF Frame
<1> QED
  BY <1>1, AdvancedStack

(* A call returns.                                                         *)
LEMMA PoppedStack ==
  ASSUME TypeOK, stack # << >>
  PROVE  /\ Pop \in Seq(Frame)
         /\ Len(Pop) = Len(stack) - 1
         /\ \A i \in 1 .. Len(stack) - 1 : Pop[i] = stack[i]
<1>1. stack \in Seq(Frame) /\ Len(stack) \in Nat /\ Len(stack) >= 1
  BY DEF TypeOK
<1>2. DEFINE n == Len(stack) - 1
<1>3. 1 \in Int /\ n \in Int /\ \A i \in 1 .. n : stack[i] \in Frame
  BY <1>1
<1>4. /\ SubSeq(stack, 1, n) \in Seq(Frame)
      /\ Len(SubSeq(stack, 1, n)) = IF 1 <= n THEN n - 1 + 1 ELSE 0
      /\ \A i \in 1 .. n - 1 + 1 : SubSeq(stack, 1, n)[i] = stack[1 + i - 1]
  <2> HIDE DEF n
  <2> QED
    BY <1>3, SubSeqProperties
<1>5. /\ Len(SubSeq(stack, 1, n)) = n
      /\ \A i \in 1 .. n : SubSeq(stack, 1, n)[i] = stack[i]
  <2>1. n \in Nat
    BY <1>1
  <2> HIDE DEF n
  <2>2. \A i \in 1 .. n : i \in 1 .. n - 1 + 1 /\ 1 + i - 1 = i
    BY <2>1
  <2> QED
    BY <1>4, <2>1, <2>2
<1> QED
  BY <1>4, <1>5 DEF Pop

(* The child that is next.                                                 *)
LEMMA NextChild ==
  ASSUME TypeOK, HasChild
  PROVE  /\ Top.node \in Nodes /\ Top.next \in Nat
         /\ Top.next + 1 \in 1 .. Len(Children[Top.node])
         /\ Child \in Nodes /\ Child \notin Roots
<1>1. Top.node \in Nodes /\ Top.next \in Nat
  BY AdvancedStack DEF HasChild, Frame
<1>2. Children[Top.node] \in Seq(Nodes \ Roots)
  BY <1>1, ForestAssumption
<1>3. Top.next + 1 \in 1 .. Len(Children[Top.node])
  BY <1>1, <1>2 DEF HasChild
<1> QED
  BY <1>1, <1>2, <1>3 DEF Child

-----------------------------------------------------------------------------
(* The map of numbers.                                                     *)

(* Entering a node's numbers.                                              *)
LEMMA PutFacts ==
  ASSUME NEW f, DOMAIN f \subseteq Nodes,
         \A n \in DOMAIN f : f[n] \in UserData,
         NEW c \in Nodes, NEW data \in UserData
  PROVE  /\ DOMAIN Put(f, c, data) = DOMAIN f \cup {c}
         /\ Put(f, c, data)[c] = data
         /\ \A n \in DOMAIN f : n # c => Put(f, c, data)[n] = f[n]
         /\ \A n \in DOMAIN Put(f, c, data) : Put(f, c, data)[n] \in UserData
  BY DEF Put

(* A depth fits in a byte.                                                 *)
LEMMA ByteType ==
  ASSUME NEW x \in Int
  PROVE  Byte(x) \in Depths
  BY BoundsAssumption DEF Byte, Depths

(* The entry of the document element, and of a child.                      *)
LEMMA EntryType ==
  ASSUME TypeOK
  PROVE  /\ [depth |-> 2, left |-> nodeCounter, right |-> 0] \in UserData
         /\ \A p \in DOMAIN userDataMap :
              [depth |-> Byte(userDataMap[p].depth + 1), left |-> nodeCounter,
               right |-> 0] \in UserData
<1>1. nodeCounter \in Nat /\ \A p \in DOMAIN userDataMap : userDataMap[p] \in UserData
  BY DEF TypeOK
<1>2. \A p \in DOMAIN userDataMap : userDataMap[p].depth + 1 \in Int
  BY <1>1, BoundsAssumption DEF UserData, Depths
<1>3. \A p \in DOMAIN userDataMap : Byte(userDataMap[p].depth + 1) \in Depths
  BY <1>2, ByteType
<1>4. 2 \in Depths
  BY BoundsAssumption DEF Depths
<1> QED
  BY <1>1, <1>3, <1>4 DEF UserData

(* Entering a right number.                                                *)
LEMMA RightFacts ==
  ASSUME TypeOK, NEW c \in DOMAIN userDataMap, NEW f,
         f = [userDataMap EXCEPT ![c].right = nodeCounter]
  PROVE  /\ DOMAIN f = DOMAIN userDataMap
         /\ \A n \in DOMAIN f : f[n] \in UserData
         /\ \A n \in DOMAIN f : f[n].left = userDataMap[n].left
         /\ \A n \in DOMAIN f : n # c => f[n].right = userDataMap[n].right
         /\ f[c].right = nodeCounter
<1>1. nodeCounter \in Nat /\ \A p \in DOMAIN userDataMap : userDataMap[p] \in UserData
  BY DEF TypeOK
<1>2. DOMAIN f = DOMAIN userDataMap
  OBVIOUS
<1>3. f[c] = [userDataMap[c] EXCEPT !.right = nodeCounter]
  OBVIOUS
<1>4. \A n \in DOMAIN f : n # c => f[n] = userDataMap[n]
  OBVIOUS
<1>5. f[c] \in UserData /\ f[c].left = userDataMap[c].left /\ f[c].right = nodeCounter
  BY <1>1, <1>3 DEF UserData
<1> QED
  BY <1>1, <1>2, <1>4, <1>5
-----------------------------------------------------------------------------
(* The inductive invariant.                                                *)

(* The nodes numberNode is at work on.                                     *)
OpenNodes == IF phase = "number" THEN {stack[i].node : i \in 1 .. Len(stack)}
             ELSE {}

(* The calls in progress are on nodes that have a number.                  *)
CallsInv ==
  /\ phase = "number" => stack # << >>
  /\ phase # "idle" =>
       /\ root \in numbered
       /\ \A i \in 1 .. Len(stack) :
            /\ stack[i].node \in numbered
            /\ stack[i].next <= Len(Children[stack[i].node])

(* numberNode is done with the k-th child of p, or with p.                 *)
Passed(p, k) ==
  phase = "number" =>
    \A i \in 1 .. Len(stack) : stack[i].node = p => k <= stack[i].next

(* numberNode has numbered the children it has passed, and no other node;  *)
(* a node is numbered after its parent.                                    *)
ProgressInv ==
  /\ phase # "idle" =>
       \A p \in numbered : \A k \in 1 .. Len(Children[p]) :
         Children[p][k] \notin Blank /\ Passed(p, k) => Children[p][k] \in numbered
  /\ \A p \in Nodes : \A k \in 1 .. Len(Children[p]) :
       Children[p][k] \in numbered => p \in numbered /\ Passed(p, k)

(* The calls in progress have increasing left numbers, below the counter.  *)
CounterInv ==
  phase = "number" =>
    /\ \A i, j \in 1 .. Len(stack) :
         i < j => left(stack[i].node) < left(stack[j].node)
    /\ \A n \in numbered : left(n) < nodeCounter
    /\ \A n \in numbered \ OpenNodes : right(n) < nodeCounter

(* An interval that is complete is not empty, and what starts inside it is *)
(* complete and ends inside it.                                            *)
IntervalInv ==
  /\ \A n \in numbered \ OpenNodes : left(n) < right(n)
  /\ \A m \in numbered \ OpenNodes, n \in numbered :
       left(m) < left(n) =>
         right(m) < left(n) \/ (n \notin OpenNodes /\ right(n) < right(m))

(* A child starts inside its parent.                                       *)
EdgeInv ==
  \A p \in numbered : \A k \in 1 .. Len(Children[p]) :
    Children[p][k] \in numbered =>
      /\ left(p) < left(Children[p][k])
      /\ p \notin OpenNodes => left(Children[p][k]) < right(p)

IInv == TypeOK /\ CallsInv /\ ProgressInv /\ CounterInv /\ IntervalInv /\ EdgeInv

-----------------------------------------------------------------------------
(* numberNode.                                                             *)

(* The call on top of the stack, while numberNode is at work.              *)
LEMMA TopCall ==
  ASSUME IInv, phase = "number"
  PROVE  /\ stack # << >>
         /\ Len(stack) \in Nat /\ Len(stack) >= 1
         /\ Top = stack[Len(stack)]
         /\ Top.node \in numbered
         /\ Top.node \in DOMAIN userDataMap
         /\ OpenNodes \subseteq numbered
         /\ \A i \in 1 .. Len(stack) - 1 : stack[i].node # Top.node
<1>1. stack # << >> /\ stack \in Seq(Frame)
  BY DEF IInv, CallsInv, TypeOK
<1>2. Len(stack) \in Nat /\ Len(stack) >= 1
  BY <1>1
<1>3. \A i \in 1 .. Len(stack) : stack[i].node \in numbered
  BY DEF IInv, CallsInv
<1>4. Top = stack[Len(stack)] /\ Top.node \in numbered
  BY <1>2, <1>3 DEF Top
<1>5. numbered \subseteq DOMAIN userDataMap
  BY DEF IInv, TypeOK
<1>6. ASSUME NEW i \in 1 .. Len(stack) - 1, stack[i].node = Top.node
      PROVE  FALSE
  <2>1. i \in 1 .. Len(stack) /\ Len(stack) \in 1 .. Len(stack) /\ i < Len(stack)
    BY <1>2
  <2>2. left(stack[i].node) < left(stack[Len(stack)].node)
    BY <2>1 DEF IInv, CounterInv
  <2>3. left(Top.node) < left(Top.node) /\ left(Top.node) \in Nat
    BY <1>4, <1>5, <1>6, <2>2 DEF IInv, TypeOK, left, UserData
  <2> QED
    BY <2>3
<1> QED
  BY <1>1, <1>2, <1>3, <1>4, <1>5, <1>6 DEF OpenNodes

(* numberNode goes past a whitespace-only text node.                       *)
LEMMA SkipBlankInv ==
  ASSUME IInv, NumberChild, Child \in Blank
  PROVE  IInv'
<1> DEFINE t == Top.node
           len == Len(stack)
<1>1. /\ TypeOK /\ HasChild /\ stack # << >> /\ phase = "number" /\ phase' = "number"
      /\ UNCHANGED <<root, base, userDataMap, nodeCounter, numbered, written, additions>>
      /\ stack' = Advanced
  BY DEF IInv, NumberChild, HasChild
<1>2. len \in Nat /\ len >= 1 /\ Top = stack[len] /\ t \in numbered
      /\ \A i \in 1 .. len - 1 : stack[i].node # t
  BY <1>1, TopCall
<1>3. /\ Top.next + 1 \in 1 .. Len(Children[t]) /\ Top.next \in Nat
      /\ t \in Nodes /\ Children[t] \in Seq(Nodes \ Roots)
  BY <1>1, NextChild, ForestAssumption
<1>4. /\ stack' \in Seq(Frame) /\ Len(stack') = len
      /\ \A i \in 1 .. len :
           /\ stack[i] \in Frame
           /\ stack'[i].node = stack[i].node
           /\ stack'[i].next = IF i = len THEN stack[i].next + 1 ELSE stack[i].next
  BY <1>1, AdvancedStack
<1>5. TypeOK'
  BY <1>1, <1>4 DEF TypeOK
<1>6. CallsInv'
  <2>1. stack' # << >>
    BY <1>2, <1>4
  <2>2. ASSUME NEW i \in 1 .. Len(stack')
        PROVE  stack'[i].node \in numbered /\ stack'[i].next <= Len(Children[stack'[i].node])
    BY <1>1, <1>2, <1>3, <1>4 DEF IInv, CallsInv
  <2> QED
    BY <1>1, <2>1, <2>2 DEF IInv, CallsInv
<1>7. ProgressInv'
  <2>1. ASSUME NEW p \in numbered, NEW k \in 1 .. Len(Children[p]),
               Children[p][k] \notin Blank, Passed(p, k)'
        PROVE  Children[p][k] \in numbered
    <3>1. CASE Passed(p, k)
      BY <1>1, <2>1, <3>1 DEF IInv, ProgressInv
    <3>2. CASE ~Passed(p, k)
      <4>1. PICK i \in 1 .. len : stack[i].node = p /\ ~(k <= stack[i].next)
        BY <3>2 DEF Passed
      <4>2. k <= stack'[i].next
        BY <1>1, <1>4, <2>1, <4>1 DEF Passed
      <4>3. i = len /\ k = Top.next + 1 /\ p = t
        <5>1. p \in Nodes /\ Children[p] \in Seq(Nodes \ Roots)
          BY <1>1, ForestAssumption DEF TypeOK
        <5>2. k \in Nat /\ stack[i].next \in Nat
          BY <1>4, <5>1 DEF Frame
        <5> QED
          BY <1>2, <1>4, <4>1, <4>2, <5>2
      <4> QED
        BY <1>1, <2>1, <4>3 DEF Child, NumberChild
    <3> QED
      BY <3>1, <3>2
  <2>2. ASSUME NEW p \in Nodes, NEW k \in 1 .. Len(Children[p]), Passed(p, k)
        PROVE  Passed(p, k)'
    <3>1. k \in Nat
      BY ForestAssumption
    <3>2. \A i \in 1 .. len : stack[i].next \in Nat
      BY <1>4 DEF Frame
    <3> QED
      BY <1>1, <1>4, <2>2, <3>1, <3>2 DEF Passed
  <2> QED
    BY <1>1, <2>1, <2>2 DEF IInv, ProgressInv
<1>8. OpenNodes' = OpenNodes
  BY <1>1, <1>4 DEF OpenNodes
<1>9. CounterInv'
  BY <1>1, <1>4, <1>8 DEF IInv, CounterInv, left, right
<1>10. IntervalInv' /\ EdgeInv'
  BY <1>1, <1>8 DEF IInv, IntervalInv, EdgeInv, left, right
<1> QED
  BY <1>5, <1>6, <1>7, <1>9, <1>10 DEF IInv

(* numberNode numbers a child and goes on with its children.               *)
LEMMA NumberChildInv ==
  ASSUME IInv, NumberChild, Child \notin Blank
  PROVE  IInv'
<1> DEFINE t == Top.node
           c == Child
           len == Len(stack)
           left2(n) == userDataMap'[n].left
           right2(n) == userDataMap'[n].right
<1>1. /\ TypeOK /\ HasChild /\ stack # << >> /\ phase = "number" /\ phase' = "number"
      /\ UNCHANGED <<root, base, written, additions>>
      /\ stack' = Append(Advanced, [node |-> c, next |-> 0])
      /\ userDataMap' = Put(userDataMap, c,
                            [depth |-> Byte(userDataMap[t].depth + 1),
                             left |-> nodeCounter, right |-> 0])
      /\ nodeCounter' = nodeCounter + 1
      /\ numbered' = numbered \cup {c}
  BY DEF IInv, NumberChild, HasChild
<1>2. /\ len \in Nat /\ len >= 1 /\ Top = stack[len]
      /\ t \in numbered /\ t \in DOMAIN userDataMap
      /\ OpenNodes \subseteq numbered
      /\ \A i \in 1 .. len - 1 : stack[i].node # t
  BY <1>1, TopCall
<1>3. /\ Top.next + 1 \in 1 .. Len(Children[t]) /\ Top.next \in Nat
      /\ t \in Nodes /\ Children[t] \in Seq(Nodes \ Roots)
      /\ c \in Nodes /\ c \notin Roots /\ c = Children[t][Top.next + 1]
  BY <1>1, NextChild, ForestAssumption DEF Child
<1>4. c \notin numbered
  <2>1. SUFFICES ASSUME c \in numbered PROVE FALSE
    OBVIOUS
  <2>2. Passed(t, Top.next + 1)
    BY <1>2, <1>3, <2>1 DEF IInv, ProgressInv
  <2>3. Top.next + 1 <= Top.next
    BY <1>1, <1>2, <2>2 DEF Passed
  <2> QED
    BY <1>3, <2>3
<1>5. /\ stack' \in Seq(Frame) /\ Len(stack') = len + 1
      /\ stack'[len + 1].node = c /\ stack'[len + 1].next = 0
      /\ \A i \in 1 .. len :
           /\ stack[i] \in Frame
           /\ stack'[i].node = stack[i].node
           /\ stack'[i].next = IF i = len THEN stack[i].next + 1 ELSE stack[i].next
  <2>1. /\ stack' \in Seq(Frame) /\ Len(stack') = len + 1
        /\ stack'[Len(stack')] = [node |-> c, next |-> 0]
        /\ \A i \in 1 .. len : stack'[i] = Advanced[i]
    BY <1>1, <1>3, PushedStack
  <2>2. \A i \in 1 .. len :
          /\ stack[i] \in Frame
          /\ Advanced[i].node = stack[i].node
          /\ Advanced[i].next = IF i = len THEN stack[i].next + 1 ELSE stack[i].next
    BY <1>1, AdvancedStack
  <2> QED
    BY <2>1, <2>2
<1>6. /\ DOMAIN userDataMap' = DOMAIN userDataMap \cup {c}
      /\ \A n \in DOMAIN userDataMap' : userDataMap'[n] \in UserData
      /\ userDataMap'[c].left = nodeCounter
      /\ \A n \in numbered : userDataMap'[n] = userDataMap[n]
  <2>1. /\ DOMAIN userDataMap \subseteq Nodes
        /\ \A n \in DOMAIN userDataMap : userDataMap[n] \in UserData
        /\ numbered \subseteq DOMAIN userDataMap
    BY <1>1 DEF TypeOK
  <2> DEFINE data == [depth |-> Byte(userDataMap[t].depth + 1),
                      left |-> nodeCounter, right |-> 0]
  <2>2. data \in UserData /\ data.left = nodeCounter
    BY <1>1, <1>2, EntryType
  <2> HIDE DEF data
  <2>3. /\ DOMAIN Put(userDataMap, c, data) = DOMAIN userDataMap \cup {c}
        /\ Put(userDataMap, c, data)[c] = data
        /\ \A n \in DOMAIN userDataMap : n # c =>
             Put(userDataMap, c, data)[n] = userDataMap[n]
        /\ \A n \in DOMAIN Put(userDataMap, c, data) :
             Put(userDataMap, c, data)[n] \in UserData
    BY ZenonT(60), <1>3, <2>1, <2>2, PutFacts
  <2>4. userDataMap' = Put(userDataMap, c, data)
    BY <1>1 DEF data
  <2> QED
    BY <1>4, <2>1, <2>2, <2>3, <2>4
<1>7. nodeCounter \in Nat /\ \A n \in numbered : left(n) \in Nat /\ right(n) \in Nat
  BY <1>1 DEF TypeOK, UserData, left, right
<1>8. /\ left2(c) = nodeCounter
      /\ \A n \in numbered : left2(n) = left(n) /\ right2(n) = right(n)
  BY <1>6 DEF left, right
<1>9. TypeOK'
  <2>1. /\ DOMAIN userDataMap' \subseteq Nodes
        /\ numbered' \in SUBSET (DOMAIN userDataMap')
    BY <1>1, <1>3, <1>6 DEF TypeOK
  <2>2. nodeCounter' \in Nat /\ stack' \in Seq(Frame)
    BY <1>1, <1>5 DEF TypeOK
  <2>3. /\ phase' \in {"idle", "number", "index"}
        /\ root' \in Roots /\ base' \in Nat /\ additions' \in Nat
        /\ written' \in Seq(LuceneDocument)
    BY <1>1 DEF TypeOK
  <2> QED
    BY <1>6, <2>1, <2>2, <2>3 DEF TypeOK
<1>10. CallsInv'
  <2>1. stack' # << >>
    BY <1>2, <1>5
  <2>2. ASSUME NEW i \in 1 .. Len(stack')
        PROVE  /\ stack'[i].node \in numbered'
               /\ stack'[i].next <= Len(Children[stack'[i].node])
    <3>1. CASE i \in 1 .. len
      <4>1. /\ stack[i].node \in numbered /\ stack[i].next <= Len(Children[stack[i].node])
            /\ stack'[i].node = stack[i].node
        BY <1>1, <1>5, <3>1 DEF IInv, CallsInv
      <4>2. CASE i = len
        <5>1. stack[i].node = t /\ stack[i].next + 1 <= Len(Children[t])
          BY <1>2, <1>3, <4>2
        <5> QED
          BY <1>1, <1>5, <3>1, <4>1, <4>2, <5>1
      <4>3. CASE i # len
        BY <1>1, <1>5, <3>1, <4>1, <4>3
      <4> QED
        BY <4>2, <4>3
    <3>2. CASE i = len + 1
      <4>1. Children[c] \in Seq(Nodes \ Roots)
        BY <1>3, ForestAssumption
      <4> QED
        BY <1>1, <1>5, <3>2, <4>1
    <3> QED
      BY <1>2, <1>5, <3>1, <3>2
  <2> QED
    BY <1>1, <2>1, <2>2 DEF IInv, CallsInv
<1>11. ProgressInv'
  <2>1. ASSUME NEW p \in numbered', NEW k \in 1 .. Len(Children[p]),
               Children[p][k] \notin Blank, Passed(p, k)'
        PROVE  Children[p][k] \in numbered'
    <3>0. p \in Nodes /\ Children[p] \in Seq(Nodes \ Roots) /\ k \in Nat /\ k >= 1
      <4>1. p \in Nodes
        BY <1>1, <1>3 DEF TypeOK
      <4>2. Children[p] \in Seq(Nodes \ Roots)
        BY <4>1, ForestAssumption
      <4> QED
        BY <4>1, <4>2
    <3>1. CASE p = c
      <4>1. len + 1 \in 1 .. Len(stack')
        BY <1>2, <1>5
      <4>2. k <= 0
        BY <1>1, <1>5, <2>1, <3>1, <4>1 DEF Passed
      <4> QED
        BY <3>0, <4>2
    <3>2. CASE p # c /\ Passed(p, k)
      BY <1>1, <2>1, <3>2 DEF IInv, ProgressInv
    <3>3. CASE p # c /\ ~Passed(p, k)
      <4>1. PICK i \in 1 .. len : stack[i].node = p /\ ~(k <= stack[i].next)
        BY <3>3 DEF Passed
      <4>2. i \in 1 .. Len(stack')
        BY <1>2, <1>5
      <4>3. k <= stack'[i].next
        BY <1>1, <1>5, <2>1, <4>1, <4>2 DEF Passed
      <4>4. stack[i].next \in Nat
        BY <1>5 DEF Frame
      <4>5. stack'[i].next = IF i = len THEN stack[i].next + 1 ELSE stack[i].next
        BY <1>5
      <4>6. i = len /\ k = stack[i].next + 1
        BY <3>0, <4>1, <4>3, <4>4, <4>5
      <4>7. k = Top.next + 1 /\ p = t
        BY <1>2, <4>1, <4>6
      <4> QED
        BY <1>1, <1>3, <4>7
    <3> QED
      BY <3>1, <3>2, <3>3
  <2>2. ASSUME NEW p \in Nodes, NEW k \in 1 .. Len(Children[p]),
               Children[p][k] \in numbered'
        PROVE  p \in numbered' /\ Passed(p, k)'
    <3>0. Children[p] \in Seq(Nodes \ Roots) /\ k \in Nat
      BY ForestAssumption
    <3>1. CASE Children[p][k] = c
      <4>1. p = t /\ k = Top.next + 1
        BY SMTT(30), <1>3, <3>1, ForestAssumption
      <4>2. ASSUME NEW i \in 1 .. Len(stack'), stack'[i].node = t
            PROVE  k <= stack'[i].next
        <5>1. i # len + 1
          BY <1>2, <1>4, <1>5, <4>2
        <5>2. i \in 1 .. len
          BY <1>2, <1>5, <5>1
        <5>3. i = len
          BY <1>2, <1>5, <4>2, <5>2
        <5> QED
          BY <1>2, <1>3, <1>5, <4>1, <5>2, <5>3
      <4> QED
        BY <1>1, <1>2, <4>1, <4>2 DEF Passed
    <3>2. CASE Children[p][k] \in numbered
      <4>1. p \in numbered /\ Passed(p, k)
        BY <3>2 DEF IInv, ProgressInv
      <4>2. ASSUME NEW i \in 1 .. Len(stack'), stack'[i].node = p
            PROVE  k <= stack'[i].next
        <5>1. i # len + 1
          BY <1>2, <1>4, <1>5, <4>1, <4>2
        <5>2. i \in 1 .. len
          BY <1>2, <1>5, <5>1
        <5>3. k <= stack[i].next /\ stack[i].next \in Nat
          BY <1>1, <1>5, <4>1, <4>2, <5>2 DEF Passed, Frame
        <5> QED
          BY <1>5, <3>0, <5>2, <5>3
      <4> QED
        BY <1>1, <4>1, <4>2 DEF Passed
    <3> QED
      BY <1>1, <2>2, <3>1, <3>2
  <2> QED
    BY <1>1, <2>1, <2>2 DEF ProgressInv
<1>12. OpenNodes' = OpenNodes \cup {c}
  <2>1. 1 .. Len(stack') = (1 .. len) \cup {len + 1}
    BY <1>2, <1>5
  <2>2. \A i \in 1 .. len : stack'[i].node = stack[i].node
    BY <1>5
  <2> QED
    BY SMTT(30), <1>1, <1>5, <2>1, <2>2 DEF OpenNodes
<1>13. numbered' \ OpenNodes' = numbered \ OpenNodes
  BY <1>1, <1>4, <1>12
<1>14. CounterInv'
  <2>1. ASSUME NEW i \in 1 .. Len(stack'), NEW j \in 1 .. Len(stack'), i < j
        PROVE  left2(stack'[i].node) < left2(stack'[j].node)
    <3>1. i \in 1 .. len /\ stack[i].node \in numbered
      BY <1>1, <1>2, <1>5, <2>1 DEF IInv, CallsInv
    <3>2. left2(stack'[i].node) = left(stack[i].node)
      BY <1>5, <1>8, <3>1
    <3>3. CASE j \in 1 .. len
      <4>1. stack[j].node \in numbered
        BY <1>1, <3>3 DEF IInv, CallsInv
      <4>2. left2(stack'[j].node) = left(stack[j].node)
        BY <1>5, <1>8, <3>3, <4>1
      <4> QED
        BY <1>1, <2>1, <3>1, <3>2, <3>3, <4>2 DEF IInv, CounterInv
    <3>4. CASE j = len + 1
      <4>1. left(stack[i].node) < nodeCounter
        BY <1>1, <3>1 DEF IInv, CounterInv
      <4>2. left2(stack'[j].node) = nodeCounter
        BY <1>5, <1>8, <3>4
      <4> QED
        BY <3>2, <4>1, <4>2
    <3> QED
      BY <1>2, <1>5, <3>3, <3>4
  <2>2. ASSUME NEW n \in numbered'
        PROVE  left2(n) < nodeCounter'
    BY <1>1, <1>7, <1>8 DEF IInv, CounterInv
  <2>3. ASSUME NEW n \in numbered \ OpenNodes
        PROVE  right2(n) < nodeCounter'
    <3>1. right(n) < nodeCounter /\ right2(n) = right(n) /\ right(n) \in Nat
      BY <1>1, <1>7, <1>8 DEF IInv, CounterInv
    <3> QED
      BY <1>1, <1>7, <3>1
  <2> QED
    BY <2>1, <2>2, <2>3, <1>13 DEF CounterInv, left, right
<1>15. IntervalInv'
  <2>1. ASSUME NEW n \in numbered \ OpenNodes
        PROVE  left2(n) < right2(n)
    BY <1>8 DEF IInv, IntervalInv
  <2>2. ASSUME NEW m \in numbered \ OpenNodes, NEW n \in numbered',
               left2(m) < left2(n)
        PROVE  right2(m) < left2(n) \/ (n \notin OpenNodes' /\ right2(n) < right2(m))
    <3>1. CASE n = c
      BY <1>1, <1>8, <3>1 DEF IInv, CounterInv
    <3>2. CASE n # c
      BY <1>1, <1>8, <1>12, <2>2, <3>2 DEF IInv, IntervalInv
    <3> QED
      BY <3>1, <3>2
  <2> QED
    BY <1>13, <2>1, <2>2 DEF IntervalInv, left, right
<1>16. EdgeInv'
  <2>1. ASSUME NEW p \in numbered', NEW k \in 1 .. Len(Children[p]),
               Children[p][k] \in numbered'
        PROVE  /\ left2(p) < left2(Children[p][k])
               /\ p \notin OpenNodes' => left2(Children[p][k]) < right2(p)
    <3>0. p \in Nodes
      BY <1>1, <1>3 DEF TypeOK
    <3>1. CASE Children[p][k] = c
      <4>1. p = t
        BY SMTT(30), <1>3, <3>0, <3>1, ForestAssumption
      <4>2. t \in OpenNodes
        BY <1>1, <1>2 DEF OpenNodes
      <4>3. left(t) < nodeCounter
        BY <1>1, <1>2 DEF IInv, CounterInv
      <4> QED
        BY <1>2, <1>8, <1>12, <3>1, <4>1, <4>2, <4>3
    <3>2. CASE Children[p][k] \in numbered
      <4>1. p \in numbered
        BY <3>0, <3>2 DEF IInv, ProgressInv
      <4> QED
        BY <1>8, <1>12, <3>2, <4>1 DEF IInv, EdgeInv
    <3> QED
      BY <1>1, <2>1, <3>1, <3>2
  <2> QED
    BY <2>1 DEF EdgeInv, left, right
<1> QED
  BY <1>9, <1>10, <1>11, <1>14, <1>15, <1>16 DEF IInv

(* numberNode returns.                                                     *)
LEMMA NumberReturnInv ==
  ASSUME IInv, NumberReturn
  PROVE  IInv'
<1> DEFINE t == Top.node
           len == Len(stack)
           left2(n) == userDataMap'[n].left
           right2(n) == userDataMap'[n].right
<1>1. /\ TypeOK /\ stack # << >> /\ phase = "number"
      /\ Top.next = Len(Children[t])
      /\ UNCHANGED <<root, base, numbered, written, additions>>
      /\ stack' = Pop
      /\ userDataMap' = [userDataMap EXCEPT ![t].right = nodeCounter]
      /\ nodeCounter' = nodeCounter + 1
      /\ phase' = IF len = 1 THEN "index" ELSE "number"
  BY DEF IInv, NumberReturn, Returns
<1>2. /\ len \in Nat /\ len >= 1 /\ Top = stack[len]
      /\ t \in numbered /\ t \in DOMAIN userDataMap
      /\ OpenNodes \subseteq numbered
      /\ \A i \in 1 .. len - 1 : stack[i].node # t
  BY <1>1, TopCall
<1>3. /\ stack' \in Seq(Frame) /\ Len(stack') = len - 1
      /\ \A i \in 1 .. len - 1 : stack'[i] = stack[i]
  BY <1>1, PoppedStack
<1>4. /\ DOMAIN userDataMap' = DOMAIN userDataMap
      /\ \A n \in DOMAIN userDataMap' : userDataMap'[n] \in UserData
      /\ \A n \in DOMAIN userDataMap' : userDataMap'[n].left = userDataMap[n].left
      /\ \A n \in DOMAIN userDataMap' : n # t => userDataMap'[n].right = userDataMap[n].right
      /\ userDataMap'[t].right = nodeCounter
  BY <1>1, <1>2, RightFacts
<1>5. nodeCounter \in Nat /\ \A n \in numbered : left(n) \in Nat /\ right(n) \in Nat
  BY <1>1 DEF TypeOK, UserData, left, right
<1>6. /\ right2(t) = nodeCounter
      /\ \A n \in numbered : left2(n) = left(n)
      /\ \A n \in numbered : n # t => right2(n) = right(n)
  BY <1>1, <1>4 DEF TypeOK, left, right
<1>7. TypeOK'
  <2>1. /\ phase' \in {"idle", "number", "index"} /\ nodeCounter' \in Nat
        /\ UNCHANGED <<root, base, numbered, written, additions>>
    BY <1>1, <1>5
  <2>2. /\ DOMAIN userDataMap' \subseteq Nodes
        /\ numbered' \in SUBSET (DOMAIN userDataMap')
    BY <1>1, <1>4, <2>1 DEF TypeOK
  <2> QED
    BY <1>1, <1>3, <1>4, <2>1, <2>2 DEF TypeOK
<1>8. CallsInv'
  <2>1. phase' = "number" => stack' # << >>
    BY <1>1, <1>2, <1>3
  <2>2. ASSUME NEW i \in 1 .. Len(stack')
        PROVE  stack'[i].node \in numbered /\ stack'[i].next <= Len(Children[stack'[i].node])
    <3>1. i \in 1 .. len /\ i \in 1 .. len - 1
      BY <1>2, <1>3
    <3> QED
      BY <1>1, <1>3, <3>1 DEF IInv, CallsInv
  <2>3. root \in numbered
    BY <1>1 DEF IInv, CallsInv
  <2> QED
    BY <1>1, <2>1, <2>2, <2>3 DEF CallsInv
<1>9. ProgressInv'
  <2>1. ASSUME NEW p \in numbered, NEW k \in 1 .. Len(Children[p]),
               Children[p][k] \notin Blank, Passed(p, k)'
        PROVE  Children[p][k] \in numbered
    <3>1. ASSUME NEW i \in 1 .. len, stack[i].node = p
          PROVE  k <= stack[i].next
      <4>1. CASE i = len
        <5>1. p \in Nodes
          BY <1>1 DEF TypeOK
        <5>2. Children[p] \in Seq(Nodes \ Roots)
          BY <5>1, ForestAssumption
        <5>3. stack[i].next = Len(Children[p])
          BY <1>1, <1>2, <3>1, <4>1
        <5> QED
          BY <5>2, <5>3
      <4>2. CASE i # len
        <5>1. i \in 1 .. len - 1 /\ len # 1 /\ i \in 1 .. Len(stack')
          BY <1>2, <1>3, <4>2
        <5> QED
          BY <1>1, <1>3, <2>1, <3>1, <5>1 DEF Passed
      <4> QED
        BY <4>1, <4>2
    <3>2. Passed(p, k)
      BY <3>1 DEF Passed
    <3> QED
      BY <1>1, <2>1, <3>2 DEF IInv, ProgressInv
  <2>2. ASSUME NEW p \in Nodes, NEW k \in 1 .. Len(Children[p]), Passed(p, k)
        PROVE  Passed(p, k)'
    <3>1. \A i \in 1 .. Len(stack') : i \in 1 .. len /\ stack'[i] = stack[i]
      BY <1>2, <1>3
    <3> QED
      BY <1>1, <2>2, <3>1 DEF Passed
  <2> QED
    BY <1>1, <2>1, <2>2 DEF IInv, ProgressInv
<1>10. OpenNodes' = OpenNodes \ {t}
  <2>1. CASE len = 1
    BY <1>1, <1>2, <2>1 DEF OpenNodes
  <2>2. CASE len # 1
    <3>1. 1 .. len = (1 .. len - 1) \cup {len} /\ 1 .. Len(stack') = 1 .. len - 1
      BY <1>2, <1>3
    <3>2. OpenNodes = {stack[i].node : i \in 1 .. len - 1} \cup {t}
      BY <1>1, <1>2, <3>1 DEF OpenNodes
    <3>3. OpenNodes' = {stack[i].node : i \in 1 .. len - 1}
      BY <1>1, <1>3, <2>2, <3>1 DEF OpenNodes
    <3>4. t \notin {stack[i].node : i \in 1 .. len - 1}
      BY <1>2
    <3> QED
      BY <3>2, <3>3, <3>4
  <2> QED
    BY <2>1, <2>2
<1>11. t \in OpenNodes
  BY <1>1, <1>2 DEF OpenNodes
<1>12. \A n \in OpenNodes : n # t => left(n) < left(t)
  <2>1. ASSUME NEW i \in 1 .. len, stack[i].node # t
        PROVE  left(stack[i].node) < left(t)
    <3>1. i < len /\ len \in 1 .. len
      BY <1>2, <2>1
    <3> QED
      BY <1>1, <1>2, <3>1 DEF IInv, CounterInv
  <2> QED
    BY <1>1, <2>1 DEF OpenNodes
<1>13. CounterInv'
  <2>1. SUFFICES ASSUME phase' = "number" PROVE CounterInv'
    BY DEF CounterInv
  <2>2. ASSUME NEW i \in 1 .. Len(stack'), NEW j \in 1 .. Len(stack'), i < j
        PROVE  left2(stack'[i].node) < left2(stack'[j].node)
    <3>1. /\ i \in 1 .. len /\ j \in 1 .. len
          /\ stack'[i] = stack[i] /\ stack'[j] = stack[j]
      BY <1>2, <1>3
    <3>2. stack[i].node \in numbered /\ stack[j].node \in numbered
      BY <1>1, <3>1 DEF IInv, CallsInv
    <3>3. left(stack[i].node) < left(stack[j].node)
      BY <1>1, <2>2, <3>1 DEF IInv, CounterInv
    <3> QED
      BY <1>6, <3>1, <3>2, <3>3
  <2>3. ASSUME NEW n \in numbered
        PROVE  left2(n) < nodeCounter'
    <3>1. left(n) < nodeCounter
      BY <1>1 DEF IInv, CounterInv
    <3> QED
      BY <1>1, <1>5, <1>6, <3>1
  <2>4. ASSUME NEW n \in numbered \ OpenNodes'
        PROVE  right2(n) < nodeCounter'
    <3>1. CASE n = t
      BY <1>1, <1>5, <1>6, <3>1
    <3>2. CASE n # t
      <4>1. right(n) < nodeCounter
        BY <1>1, <1>10, <3>2 DEF IInv, CounterInv
      <4> QED
        BY <1>1, <1>5, <1>6, <3>2, <4>1
    <3> QED
      BY <3>1, <3>2
  <2> QED
    BY <1>1, <2>2, <2>3, <2>4 DEF CounterInv, left, right
<1>14. IntervalInv'
  <2>1. ASSUME NEW n \in numbered \ OpenNodes'
        PROVE  left2(n) < right2(n)
    <3>1. CASE n = t
      BY <1>1, <1>6, <3>1 DEF IInv, CounterInv
    <3>2. CASE n # t
      BY <1>6, <1>10, <3>2 DEF IInv, IntervalInv
    <3> QED
      BY <3>1, <3>2
  <2>2. ASSUME NEW m \in numbered \ OpenNodes', NEW n \in numbered,
               left2(m) < left2(n)
        PROVE  right2(m) < left2(n) \/ (n \notin OpenNodes' /\ right2(n) < right2(m))
    <3>1. CASE m = t
      <4>1. n # t
        BY <1>5, <1>6, <2>2, <3>1
      <4>2. n \notin OpenNodes
        BY <1>5, <1>6, <1>12, <2>2, <3>1, <4>1
      <4>3. right(n) < nodeCounter
        BY <1>1, <4>2 DEF IInv, CounterInv
      <4> QED
        BY <1>6, <1>10, <3>1, <4>1, <4>2, <4>3
    <3>2. CASE m # t
      <4>1. m \notin OpenNodes /\ left(m) < left(n)
        BY <1>6, <1>10, <2>2, <3>2
      <4>2. right(m) < left(n) \/ (n \notin OpenNodes /\ right(n) < right(m))
        BY <4>1 DEF IInv, IntervalInv
      <4> QED
        BY <1>6, <1>10, <1>11, <3>2, <4>2
    <3> QED
      BY <3>1, <3>2
  <2> QED
    BY <1>1, <2>1, <2>2 DEF IntervalInv, left, right
<1>15. EdgeInv'
  <2>1. ASSUME NEW p \in numbered, NEW k \in 1 .. Len(Children[p]),
               Children[p][k] \in numbered
        PROVE  /\ left2(p) < left2(Children[p][k])
               /\ p \notin OpenNodes' => left2(Children[p][k]) < right2(p)
    <3>1. left(p) < left(Children[p][k])
      BY <2>1 DEF IInv, EdgeInv
    <3>2. CASE p = t
      <4>1. left(Children[p][k]) < nodeCounter
        BY <1>1, <2>1 DEF IInv, CounterInv
      <4> QED
        BY <1>6, <2>1, <3>1, <3>2, <4>1
    <3>3. CASE p # t
      <4>1. p \notin OpenNodes => left(Children[p][k]) < right(p)
        BY <2>1 DEF IInv, EdgeInv
      <4> QED
        BY <1>6, <1>10, <2>1, <3>1, <3>3, <4>1
    <3> QED
      BY <3>2, <3>3
  <2> QED
    BY <1>1, <2>1 DEF EdgeInv, left, right
<1> QED
  BY <1>7, <1>8, <1>9, <1>13, <1>14, <1>15 DEF IInv

-----------------------------------------------------------------------------
(* The other steps.                                                        *)

(* Nothing that was done while numberNode is not at work can disturb what  *)
(* it has left: the intervals, and that the children are numbered.         *)
LEMMA Settled ==
  ASSUME IInv, phase # "number", phase' # "number",
         UNCHANGED <<userDataMap, numbered>>,
         phase' # "idle" => phase # "idle"
  PROVE  ProgressInv' /\ CounterInv' /\ IntervalInv' /\ EdgeInv'
<1>1. OpenNodes = {} /\ OpenNodes' = {}
  BY DEF OpenNodes
<1>2. \A p, k : Passed(p, k) /\ Passed(p, k)'
  BY DEF Passed
<1>3. ProgressInv'
  BY <1>2 DEF IInv, ProgressInv
<1>4. CounterInv'
  BY DEF CounterInv
<1>5. IntervalInv' /\ EdgeInv'
  BY <1>1 DEF IInv, IntervalInv, EdgeInv, left, right
<1> QED
  BY <1>3, <1>4, <1>5

(* The Lucene document of a numbered node is well typed.                   *)
LEMMA RecordType ==
  ASSUME IInv, phase = "index", NEW n \in numbered, NEW parent \in Nat
  PROVE  Record(n, parent) \in LuceneDocument
<1>1. /\ n \in DOMAIN userDataMap /\ root \in DOMAIN userDataMap /\ n \in Nodes
      /\ \A m \in DOMAIN userDataMap : userDataMap[m] \in UserData
  BY DEF IInv, TypeOK, CallsInv
<1>2. userDataMap[n] \in UserData /\ userDataMap[root] \in UserData
  BY <1>1
<1> QED
  BY <1>1, <1>2 DEF Record, LuceneDocument, UserData

(* indexNode is called on the document element.                            *)
LEMMA IndexRootInv ==
  ASSUME IInv, IndexRoot
  PROVE  IInv'
<1>1. /\ TypeOK /\ phase = "index" /\ phase' = "index"
      /\ UNCHANGED <<root, base, userDataMap, nodeCounter, numbered, additions>>
      /\ written' = << Record(root, RootLeft) >>
      /\ stack' = << [node |-> root, next |-> 0] >>
  BY DEF IInv, IndexRoot
<1>2. root \in numbered /\ root \in Nodes
  BY <1>1 DEF IInv, CallsInv, TypeOK
<1>3. TypeOK'
  <2>1. Record(root, RootLeft) \in LuceneDocument
    BY <1>1, <1>2, RecordType DEF RootLeft
  <2>2. written' \in Seq(LuceneDocument)
    BY <1>1, <2>1
  <2>3. [node |-> root, next |-> 0] \in Frame
    BY <1>2 DEF Frame
  <2>4. stack' \in Seq(Frame)
    BY <1>1, <2>3
  <2> QED
    BY <1>1, <2>2, <2>4 DEF TypeOK
<1>4. CallsInv'
  <2>1. Children[root] \in Seq(Nodes \ Roots)
    BY <1>2, ForestAssumption
  <2>2. \A i \in 1 .. Len(stack') : stack'[i] = [node |-> root, next |-> 0]
    BY <1>1
  <2> QED
    BY <1>1, <1>2, <2>1, <2>2 DEF CallsInv
<1> QED
  BY <1>1, <1>3, <1>4, Settled DEF IInv

(* indexNode goes on to a child.                                           *)
LEMMA IndexChildInv ==
  ASSUME IInv, IndexChild
  PROVE  IInv'
<1> DEFINE t == Top.node
           c == Child
           len == Len(stack)
<1>1. /\ TypeOK /\ HasChild /\ stack # << >> /\ phase = "index" /\ phase' = "index"
      /\ UNCHANGED <<root, base, userDataMap, nodeCounter, numbered, additions>>
  BY DEF IInv, IndexChild, HasChild
<1>2. /\ Top.next + 1 \in 1 .. Len(Children[t]) /\ Top.next \in Nat
      /\ t \in Nodes /\ Children[t] \in Seq(Nodes \ Roots)
      /\ c \in Nodes /\ c = Children[t][Top.next + 1]
  BY <1>1, NextChild, ForestAssumption DEF Child
<1>3. /\ len \in 1 .. len /\ len \in Nat /\ Top = stack[len]
      /\ Advanced \in Seq(Frame) /\ Len(Advanced) = len
      /\ \A i \in 1 .. len :
           /\ stack[i] \in Frame
           /\ Advanced[i].node = stack[i].node
           /\ Advanced[i].next = IF i = len THEN stack[i].next + 1 ELSE stack[i].next
  BY <1>1, AdvancedStack DEF Top
<1>4. t \in numbered
  BY <1>1, <1>3 DEF IInv, CallsInv
<1>5. \A i \in 1 .. len :
        /\ Advanced[i].node \in numbered
        /\ Advanced[i].next <= Len(Children[Advanced[i].node])
  <2>1. ASSUME NEW i \in 1 .. len
        PROVE  /\ Advanced[i].node \in numbered
               /\ Advanced[i].next <= Len(Children[Advanced[i].node])
    <3>1. stack[i].node \in numbered /\ stack[i].next <= Len(Children[stack[i].node])
      BY <1>1 DEF IInv, CallsInv
    <3>2. CASE i = len
      <4>1. stack[i].node = t /\ stack[i].next + 1 <= Len(Children[t])
        BY <1>2, <1>3, <3>2
      <4> QED
        BY <1>3, <3>1, <3>2, <4>1
    <3>3. CASE i # len
      BY <1>3, <3>1, <3>3
    <3> QED
      BY <3>2, <3>3
  <2> QED
    BY <2>1
<1>6. CASE c \in Blank
  <2>1. stack' = Advanced /\ written' = written
    BY <1>6 DEF IndexChild
  <2>2. TypeOK'
    BY <1>1, <1>3, <2>1 DEF TypeOK
  <2>3. CallsInv'
    BY <1>1, <1>3, <1>5, <2>1 DEF IInv, CallsInv
  <2> QED
    BY <1>1, <2>2, <2>3, Settled DEF IInv
<1>7. CASE c \notin Blank
  <2>1. /\ stack' = Append(Advanced, [node |-> c, next |-> 0])
        /\ written' = Append(written, Record(c, userDataMap[t].left))
    BY <1>7 DEF IndexChild
  <2>2. c \in numbered
    <3>1. Passed(t, Top.next + 1)
      BY <1>1 DEF Passed
    <3> QED
      BY <1>1, <1>2, <1>4, <1>7, <3>1 DEF IInv, ProgressInv
  <2>3. /\ stack' \in Seq(Frame) /\ Len(stack') = len + 1
        /\ stack'[Len(stack')] = [node |-> c, next |-> 0]
        /\ \A i \in 1 .. len : stack'[i] = Advanced[i]
    BY <1>1, <1>2, <2>1, PushedStack
  <2>4. Record(c, userDataMap[t].left) \in LuceneDocument
    <3>1. userDataMap[t].left \in Nat
      BY <1>1, <1>4 DEF TypeOK, UserData
    <3> QED
      BY <1>1, <2>2, <3>1, RecordType
  <2>5. written' \in Seq(LuceneDocument)
    BY <1>1, <2>1, <2>4 DEF TypeOK
  <2>6. TypeOK'
    BY <1>1, <2>3, <2>5 DEF TypeOK
  <2>7. CallsInv'
    <3>1. ASSUME NEW i \in 1 .. Len(stack')
          PROVE  stack'[i].node \in numbered /\ stack'[i].next <= Len(Children[stack'[i].node])
      <4>1. CASE i \in 1 .. len
        BY <1>5, <2>3, <4>1
      <4>2. CASE i = len + 1
        <5>1. Children[c] \in Seq(Nodes \ Roots)
          BY <1>2, ForestAssumption
        <5> QED
          BY <2>2, <2>3, <4>2, <5>1
      <4> QED
        BY <1>3, <2>3, <4>1, <4>2
    <3>2. root \in numbered
      BY <1>1 DEF IInv, CallsInv
    <3> QED
      BY <1>1, <3>1, <3>2 DEF CallsInv
  <2> QED
    BY <1>1, <2>6, <2>7, Settled DEF IInv
<1> QED
  BY <1>6, <1>7

(* indexNode returns.                                                      *)
LEMMA IndexReturnInv ==
  ASSUME IInv, IndexReturn
  PROVE  IInv'
<1>1. /\ TypeOK /\ stack # << >> /\ phase = "index" /\ phase' \in {"idle", "index"}
      /\ UNCHANGED <<root, base, userDataMap, nodeCounter, numbered, written, additions>>
      /\ stack' = Pop
  BY DEF IInv, IndexReturn, Returns
<1>2. /\ stack' \in Seq(Frame) /\ Len(stack') = Len(stack) - 1
      /\ \A i \in 1 .. Len(stack') : i \in 1 .. Len(stack) /\ stack'[i] = stack[i]
  <2>1. /\ stack' \in Seq(Frame) /\ Len(stack') = Len(stack) - 1
        /\ \A i \in 1 .. Len(stack) - 1 : stack'[i] = stack[i]
    BY <1>1, PoppedStack
  <2>2. Len(stack) \in Nat
    BY <1>1 DEF TypeOK
  <2> QED
    BY <2>1, <2>2
<1>3. TypeOK'
  BY <1>1, <1>2 DEF TypeOK
<1>4. CallsInv'
  BY <1>1, <1>2 DEF IInv, CallsInv
<1> QED
  BY <1>1, <1>3, <1>4, Settled DEF IInv

(* indexNode throws an exception.                                          *)
LEMMA FailInv ==
  ASSUME IInv, Fail
  PROVE  IInv'
<1>1. /\ TypeOK /\ phase = "index" /\ phase' = "idle"
      /\ UNCHANGED <<root, base, userDataMap, numbered, additions>>
      /\ nodeCounter' = base /\ stack' = << >> /\ written' = << >>
  BY DEF IInv, Fail
<1>2. TypeOK'
  BY <1>1 DEF TypeOK
<1>3. CallsInv'
  BY <1>1 DEF CallsInv
<1> QED
  BY <1>1, <1>2, <1>3, Settled DEF IInv

(* numberNode or indexNode overflows the stack.                            *)
LEMMA ErrorInv ==
  ASSUME IInv, Error
  PROVE  IInv'
<1>1. /\ TypeOK /\ phase' = "idle" /\ stack' = << >>
      /\ numbered' = {} /\ written' = << >>
      /\ UNCHANGED <<root, base, userDataMap, nodeCounter, additions>>
  BY DEF IInv, Error
<1>2. TypeOK'
  BY <1>1 DEF TypeOK
<1>3. CallsInv' /\ CounterInv' /\ IntervalInv' /\ EdgeInv' /\ ProgressInv'
  BY <1>1 DEF CallsInv, CounterInv, IntervalInv, EdgeInv, ProgressInv
<1> QED
  BY <1>2, <1>3 DEF IInv

(* The stream cannot be parsed.                                            *)
LEMMA ParseErrorInv ==
  ASSUME IInv, ParseError
  PROVE  IInv'
<1>1. /\ TypeOK /\ phase = "idle" /\ phase' = "idle" /\ additions' = additions + 1
      /\ UNCHANGED <<root, base, stack, nodeCounter>>
      /\ userDataMap' = << >> /\ numbered' = {} /\ written' = << >>
  BY DEF IInv, ParseError
<1>2. TypeOK'
  BY <1>1 DEF TypeOK
<1>3. CallsInv' /\ ProgressInv' /\ CounterInv'
  BY <1>1 DEF CallsInv, ProgressInv, CounterInv
<1>4. IntervalInv' /\ EdgeInv'
  BY <1>1 DEF IntervalInv, EdgeInv
<1> QED
  BY <1>2, <1>3, <1>4 DEF IInv

(* numberNode is called on the document element.                           *)
LEMMA BeginInv ==
  ASSUME IInv, NEW r \in Roots, NEW isStream \in BOOLEAN, Begin(r, isStream)
  PROVE  IInv'
<1> DEFINE frame == [node |-> r, next |-> 0]
           data == [depth |-> 2, left |-> nodeCounter, right |-> 0]
           old == IF isStream THEN << >> ELSE userDataMap
<1>1. /\ TypeOK /\ phase' = "number" /\ additions' = additions + 1
      /\ root' = r /\ base' = nodeCounter /\ nodeCounter' = nodeCounter + 1
      /\ userDataMap' = Put(old, r, data)
      /\ stack' = << frame >> /\ numbered' = {r} /\ written' = << >>
  BY DEF IInv, Begin
<1>2. r \in Nodes /\ Children[r] \in Seq(Nodes \ Roots)
  BY ForestAssumption
<1>3. /\ stack' \in Seq(Frame) /\ Len(stack') = 1 /\ stack' # << >>
      /\ \A i \in 1 .. Len(stack') : stack'[i] = frame /\ i = 1
  <2>1. frame \in Frame
    BY <1>2 DEF Frame
  <2> HIDE DEF frame
  <2> QED
    BY <1>1, <2>1
<1>4. data \in UserData /\ nodeCounter \in Nat /\ data.left = nodeCounter
  BY <1>1, EntryType DEF TypeOK
<1>5. /\ DOMAIN userDataMap' = DOMAIN old \cup {r}
      /\ userDataMap'[r] = data
      /\ \A n \in DOMAIN userDataMap' : userDataMap'[n] \in UserData
      /\ DOMAIN old \subseteq Nodes
  <2>1. DOMAIN old \subseteq Nodes /\ \A n \in DOMAIN old : old[n] \in UserData
    BY <1>1 DEF TypeOK
  <2>2. userDataMap' = Put(old, r, data)
    BY <1>1
  <2>3. r \in Nodes /\ data \in UserData
    BY <1>2, <1>4
  <2> HIDE DEF old, data
  <2>4. /\ DOMAIN Put(old, r, data) = DOMAIN old \cup {r}
        /\ Put(old, r, data)[r] = data
        /\ \A n \in DOMAIN Put(old, r, data) : Put(old, r, data)[n] \in UserData
    BY <2>1, <2>3, PutFacts
  <2> QED
    BY <2>1, <2>2, <2>4
<1>6. TypeOK'
  <2>1. /\ DOMAIN userDataMap' \subseteq Nodes
        /\ numbered' \in SUBSET (DOMAIN userDataMap')
    BY <1>1, <1>2, <1>5
  <2>2. written' \in Seq(LuceneDocument) /\ additions' \in Nat /\ nodeCounter' \in Nat
    BY <1>1, <1>4 DEF TypeOK
  <2> HIDE DEF frame, data, old
  <2> QED
    BY <1>1, <1>3, <1>4, <1>5, <2>1, <2>2 DEF TypeOK
<1>7. CallsInv'
  BY <1>1, <1>2, <1>3 DEF CallsInv
<1>8. OpenNodes' = {r}
  BY <1>1, <1>3 DEF OpenNodes
<1>9. \A p \in Nodes : \A k \in 1 .. Len(Children[p]) : Children[p][k] \notin numbered'
  BY <1>1, ForestAssumption, ElementOfSeq
<1>10. ProgressInv'
  <2>1. ASSUME NEW k \in 1 .. Len(Children[r]), Passed(r, k)'
        PROVE  FALSE
    <3>1. k <= 0
      BY <1>1, <1>3, <2>1 DEF Passed
    <3> QED
      BY <1>2, <3>1
  <2> QED
    BY <1>1, <1>9, <2>1 DEF ProgressInv
<1>11. CounterInv'
  BY <1>1, <1>3, <1>4, <1>5, <1>8 DEF CounterInv, left, right
<1>12. IntervalInv'
  BY <1>1, <1>8 DEF IntervalInv
<1>13. EdgeInv'
  BY <1>1, <1>2, <1>9 DEF EdgeInv
<1> QED
  BY <1>6, <1>7, <1>10, <1>11, <1>12, <1>13 DEF IInv

-----------------------------------------------------------------------------
(* The theorems.                                                           *)

(* Initially.                                                              *)
LEMMA InitInv == Init => IInv
<1> SUFFICES ASSUME Init PROVE IInv
  OBVIOUS
<1>1. TypeOK
  BY DEF Init, TypeOK, FirstLeft
<1>2. CallsInv /\ ProgressInv /\ CounterInv
  BY DEF Init, CallsInv, ProgressInv, CounterInv
<1>3. IntervalInv /\ EdgeInv
  BY DEF Init, IntervalInv, EdgeInv
<1> QED
  BY <1>1, <1>2, <1>3 DEF IInv

(* And then at every step.                                                 *)
LEMMA StepInv == IInv /\ [Next]_vars => IInv'
<1> SUFFICES ASSUME IInv, [Next]_vars PROVE IInv'
  OBVIOUS
<1>1. CASE \E r \in Roots, isStream \in BOOLEAN : Begin(r, isStream)
  BY <1>1, BeginInv
<1>2. CASE ParseError
  BY <1>2, ParseErrorInv
<1>3. CASE NumberChild
  BY <1>3, SkipBlankInv, NumberChildInv
<1>4. CASE NumberReturn
  BY <1>4, NumberReturnInv
<1>5. CASE IndexRoot
  BY <1>5, IndexRootInv
<1>6. CASE IndexChild
  BY <1>6, IndexChildInv
<1>7. CASE IndexReturn
  BY <1>7, IndexReturnInv
<1>8. CASE Fail
  BY <1>8, FailInv
<1>10. CASE Error
  BY <1>10, ErrorInv
<1>9. CASE UNCHANGED vars
  <2>1. /\ TypeOK' = TypeOK /\ CallsInv' = CallsInv /\ CounterInv' = CounterInv
        /\ IntervalInv' = IntervalInv /\ EdgeInv' = EdgeInv
    BY <1>9 DEF vars, TypeOK, CallsInv, CounterInv, IntervalInv, EdgeInv,
                OpenNodes, left, right
  <2>2. ProgressInv' = ProgressInv
    BY <1>9 DEF vars, ProgressInv, Passed
  <2> QED
    BY <2>1, <2>2 DEF IInv
<1> QED
  BY <1>1, <1>2, <1>3, <1>4, <1>5, <1>6, <1>7, <1>8, <1>9, <1>10 DEF Next

(* The inductive invariant holds.                                          *)
THEOREM Invariant == Spec => []IInv
  BY InitInv, StepInv, PTL DEF Spec

(* Numbers, depths, calls in progress and Lucene documents are well typed; *)
(* above all, indexNode never asks userDataMap for a node that numberNode  *)
(* has not entered there.                                                  *)
THEOREM TypeCorrect == Spec => []TypeOK
<1>1. IInv => TypeOK
  BY DEF IInv
<1> QED
  BY <1>1, Invariant, PTL

(* Open and OpenNodes are the same thing.                                  *)
LEMMA OpenIsOpenNodes ==
  ASSUME NEW n PROVE Open(n) <=> n \in OpenNodes
  BY DEF Open, OpenNodes

(* In every document, of whatever shape, the intervals of two nodes are    *)
(* disjoint or one contains the other, at every point of the numbering.    *)
THEOREM IntervalsLaminar == Spec => []Laminar
<1>1. IInv => Laminar
  BY OpenIsOpenNodes DEF IInv, IntervalInv, Laminar, Closed
<1> QED
  BY <1>1, Invariant, PTL

(* In every document, of whatever shape, the interval of a child lies      *)
(* strictly inside its parent's.                                           *)
THEOREM ChildrenInside == Spec => []ChildInsideParent
<1>1. ASSUME IInv, NEW p \in numbered, NEW k \in 1 .. Len(Children[p]),
             Children[p][k] \in numbered, Closed(p)
      PROVE  /\ Closed(Children[p][k])
             /\ left(p) < left(Children[p][k])
             /\ left(Children[p][k]) < right(Children[p][k])
             /\ right(Children[p][k]) < right(p)
  <2> DEFINE c == Children[p][k]
  <2>1. p \notin OpenNodes
    BY <1>1, OpenIsOpenNodes DEF Closed
  <2>2. left(p) < left(c) /\ left(c) < right(p)
    BY <1>1, <2>1 DEF IInv, EdgeInv
  <2>3. right(p) < left(c) \/ (c \notin OpenNodes /\ right(c) < right(p))
    BY <1>1, <2>1, <2>2 DEF IInv, IntervalInv
  <2>4. left(c) \in Nat /\ right(p) \in Nat
    BY <1>1 DEF IInv, TypeOK, UserData, left, right
  <2>5. c \notin OpenNodes /\ right(c) < right(p)
    BY <2>2, <2>3, <2>4
  <2>6. left(c) < right(c)
    BY <1>1, <2>5 DEF IInv, IntervalInv
  <2> QED
    BY <1>1, <2>2, <2>5, <2>6, OpenIsOpenNodes DEF Closed
<1>2. IInv => ChildInsideParent
  BY <1>1 DEF ChildInsideParent
<1> QED
  BY <1>2, Invariant, PTL

-----------------------------------------------------------------------------
(* The order of the walk.  The numbers also tell the order in which        *)
(* indexNode writes the nodes, how many there are, and which node is the   *)
(* parent of which: the theorems below need a second inductive invariant,  *)
(* on top of the first.                                                    *)

(* Every numbered node but the document element has a numbered parent, and *)
(* none is whitespace; the intervals of siblings follow one another; no    *)
(* interval around a child is inside that of its parent.                   *)
KinInv ==
  /\ \A n \in numbered :
       /\ n \notin Blank
       /\ n # root =>
            \E p \in numbered : \E k \in 1 .. Len(Children[p]) : n = Children[p][k]
  /\ \A p \in numbered : \A k, h \in 1 .. Len(Children[p]) :
       k < h /\ Children[p][k] \in numbered /\ Children[p][h] \in numbered =>
         /\ Children[p][k] \notin OpenNodes
         /\ right(Children[p][k]) < left(Children[p][h])
  /\ \A p, m \in numbered : \A k \in 1 .. Len(Children[p]) :
       /\ Children[p][k] \in numbered
       /\ left(m) < left(Children[p][k])
       /\ m \in OpenNodes \/ left(Children[p][k]) < right(m)
       => left(m) <= left(p)

(* The last document is being numbered or indexed, or was indexed.         *)
InHand == phase # "idle" \/ written # << >>

(* Two numbers are used for each node, all of them between base and        *)
(* nodeCounter; a call in progress has used one.                           *)
CountInv ==
  /\ IsFiniteSet(numbered)
  /\ InHand =>
       /\ root \in numbered
       /\ left(root) = base
       /\ \A n \in numbered : base <= left(n)
       /\ \A n \in numbered \ OpenNodes : right(n) < nodeCounter
       /\ phase = "number" =>
            /\ nodeCounter = base + 2 * Cardinality(numbered) - Len(stack)
            /\ stack[1].node = root
       /\ phase # "number" =>
            /\ nodeCounter = base + 2 * Cardinality(numbered)
            /\ right(root) = nodeCounter - 1

(* indexNode still has to come to the k-th child of p.                     *)
Pending(p, k) ==
  /\ phase = "index"
  /\ \E s \in 1 .. Len(stack) : stack[s].node = p /\ stack[s].next < k

(* What is written says what userDataMap says, by increasing left number,  *)
(* parents first; a child of a written node is written or pending.         *)
WrittenInv ==
  /\ phase = "number" => written = << >>
  /\ phase = "index" => (stack = << >> <=> written = << >>)
  /\ written # << >> => written[1].node = root
  /\ \A i \in 1 .. Len(written) :
       /\ written[i].node \in numbered
       /\ written[i].left = left(written[i].node)
       /\ written[i].right = right(written[i].node)
       /\ written[i].docLeft = left(root)
       /\ written[i].docRight = right(root)
  /\ \A i \in 2 .. Len(written) : \E j \in 1 .. i - 1 :
       /\ written[i].parent = written[j].left
       /\ \E k \in 1 .. Len(Children[written[j].node]) :
            written[i].node = Children[written[j].node][k]
  /\ \A i, j \in 1 .. Len(written) : i < j => written[i].left < written[j].left
  /\ \A j \in 1 .. Len(written) : \A k \in 1 .. Len(Children[written[j].node]) :
       \/ Children[written[j].node][k] \in Blank
       \/ \E i \in 1 .. Len(written) :
            written[i].node = Children[written[j].node][k]
       \/ Pending(written[j].node, k)

(* The calls of indexNode are on written nodes; a child one of them has    *)
(* not come to starts after all that is written, and after the end of the  *)
(* nodes of the inner calls.                                               *)
WalkInv ==
  phase = "index" =>
    \A s \in 1 .. Len(stack) :
      /\ \E j \in 1 .. Len(written) : written[j].node = stack[s].node
      /\ \A k \in 1 .. Len(Children[stack[s].node]) :
           stack[s].next < k /\ Children[stack[s].node][k] \notin Blank =>
             /\ \A j \in 1 .. Len(written) :
                  written[j].left < left(Children[stack[s].node][k])
             /\ \A r \in 1 .. Len(stack) : s < r =>
                  right(stack[r].node) < left(Children[stack[s].node][k])

WInv == KinInv /\ CountInv /\ WrittenInv /\ WalkInv

(* Numbers are numbers, and children are nodes.                            *)
LEMMA Numbers ==
  ASSUME IInv
  PROVE  /\ nodeCounter \in Nat /\ base \in Nat
         /\ \A n \in numbered : n \in Nodes /\ left(n) \in Nat /\ right(n) \in Nat
  BY DEF IInv, TypeOK, UserData, left, right

LEMMA ChildNodes ==
  ASSUME NEW p \in Nodes
  PROVE  /\ Len(Children[p]) \in Nat
         /\ \A k \in 1 .. Len(Children[p]) :
              k \in Nat /\ k >= 1 /\ Children[p][k] \in Nodes /\ Children[p][k] \notin Roots
<1>1. Children[p] \in Seq(Nodes \ Roots)
  BY ForestAssumption
<1> QED
  BY <1>1

(* A node is the child of one node, at one place.                          *)
LEMMA OnePlace ==
  ASSUME NEW p \in Nodes, NEW q \in Nodes,
         NEW i \in 1 .. Len(Children[p]), NEW j \in 1 .. Len(Children[q]),
         Children[p][i] = Children[q][j]
  PROVE  p = q /\ i = j
  BY ForestAssumption

(* What numberNode does with a child c of t that is not whitespace.        *)
LEMMA NewChild ==
  ASSUME IInv, NumberChild, Child \notin Blank,
         NEW t, t = Top.node, NEW c, c = Child, NEW k, k = Top.next + 1
  PROVE  /\ phase = "number" /\ phase' = "number"
         /\ UNCHANGED <<root, base, written, additions>>
         /\ nodeCounter' = nodeCounter + 1
         /\ numbered' = numbered \cup {c} /\ c \notin numbered
         /\ t \in numbered /\ k \in 1 .. Len(Children[t]) /\ c = Children[t][k]
         /\ Len(stack) \in Nat /\ Len(stack) >= 1
         /\ Len(stack') = Len(stack) + 1 /\ stack'[1].node = stack[1].node
         /\ OpenNodes' = OpenNodes \cup {c} /\ OpenNodes \subseteq numbered
         /\ userDataMap'[c].left = nodeCounter
         /\ \A n \in numbered : userDataMap'[n] = userDataMap[n]
         /\ \A n \in OpenNodes : left(n) <= left(t)
         /\ \A h \in 1 .. Len(Children[t]) : k < h => Children[t][h] \notin numbered
<1> DEFINE len == Len(stack)
<1>1. /\ TypeOK /\ HasChild /\ stack # << >> /\ phase = "number" /\ phase' = "number"
      /\ UNCHANGED <<root, base, written, additions>>
      /\ stack' = Append(Advanced, [node |-> c, next |-> 0])
      /\ userDataMap' = Put(userDataMap, c,
                            [depth |-> Byte(userDataMap[t].depth + 1),
                             left |-> nodeCounter, right |-> 0])
      /\ nodeCounter' = nodeCounter + 1
      /\ numbered' = numbered \cup {c}
  BY DEF IInv, NumberChild, HasChild
<1>2. /\ len \in Nat /\ len >= 1 /\ Top = stack[len]
      /\ t \in numbered /\ t \in DOMAIN userDataMap
      /\ OpenNodes \subseteq numbered
  BY <1>1, TopCall
<1>3. /\ k \in 1 .. Len(Children[t]) /\ Top.next \in Nat
      /\ t \in Nodes /\ c \in Nodes /\ c = Children[t][k]
  BY <1>1, NextChild DEF Child
<1>4. \A h \in 1 .. Len(Children[t]) : k <= h => Children[t][h] \notin numbered
  <2>1. SUFFICES ASSUME NEW h \in 1 .. Len(Children[t]), k <= h,
                        Children[t][h] \in numbered
                 PROVE  FALSE
    OBVIOUS
  <2>2. Passed(t, h)
    BY <1>3, <2>1 DEF IInv, ProgressInv
  <2>3. h <= Top.next
    BY <1>1, <1>2, <2>2 DEF Passed
  <2>4. h \in Nat
    BY <1>3, ChildNodes
  <2> QED
    BY <1>3, <2>1, <2>3, <2>4
<1>5. c \notin numbered
  BY <1>3, <1>4
<1>6. /\ Len(stack') = len + 1
      /\ stack'[len + 1].node = c
      /\ \A i \in 1 .. len : stack'[i].node = stack[i].node
  <2>1. /\ Len(stack') = len + 1
        /\ stack'[Len(stack')] = [node |-> c, next |-> 0]
        /\ \A i \in 1 .. len : stack'[i] = Advanced[i]
    BY <1>1, <1>3, PushedStack
  <2>2. \A i \in 1 .. len : Advanced[i].node = stack[i].node
    BY <1>1, AdvancedStack
  <2> QED
    BY <2>1, <2>2
<1>7. userDataMap'[c].left = nodeCounter /\ \A n \in numbered : userDataMap'[n] = userDataMap[n]
  <2>1. /\ DOMAIN userDataMap \subseteq Nodes
        /\ \A n \in DOMAIN userDataMap : userDataMap[n] \in UserData
        /\ numbered \subseteq DOMAIN userDataMap
    BY <1>1 DEF TypeOK
  <2> DEFINE data == [depth |-> Byte(userDataMap[t].depth + 1),
                      left |-> nodeCounter, right |-> 0]
  <2>2. data \in UserData /\ data.left = nodeCounter
    BY <1>1, <1>2, EntryType
  <2>3. userDataMap' = Put(userDataMap, c, data)
    BY <1>1
  <2> HIDE DEF data
  <2>4. /\ Put(userDataMap, c, data)[c] = data
        /\ \A n \in DOMAIN userDataMap : n # c =>
             Put(userDataMap, c, data)[n] = userDataMap[n]
    BY DEF Put
  <2> QED
    BY <1>5, <2>1, <2>2, <2>3, <2>4
<1>8. OpenNodes' = OpenNodes \cup {c}
  <2>1. 1 .. Len(stack') = (1 .. len) \cup {len + 1}
    BY <1>2, <1>6
  <2> QED
    BY SMTT(30), <1>1, <1>6, <2>1 DEF OpenNodes
<1>9. \A n \in OpenNodes : left(n) <= left(t)
  <2>1. ASSUME NEW i \in 1 .. len
        PROVE  left(stack[i].node) <= left(t)
    <3>1. left(t) \in Nat /\ len \in 1 .. len /\ stack[i].node \in numbered
      BY <1>1, <1>2, Numbers DEF IInv, CallsInv
    <3>2. left(stack[i].node) \in Nat
      BY <3>1, Numbers
    <3>3. CASE i = len
      BY <1>2, <3>1, <3>3
    <3>4. CASE i # len
      BY <1>1, <1>2, <3>1, <3>2, <3>4 DEF IInv, CounterInv
    <3> QED
      BY <3>3, <3>4
  <2> QED
    BY <1>1, <2>1 DEF OpenNodes
<1>10. stack'[1].node = stack[1].node
  BY <1>2, <1>6
<1>11. \A h \in 1 .. Len(Children[t]) : k < h => Children[t][h] \notin numbered
  <2>1. \A h \in 1 .. Len(Children[t]) : h \in Int /\ k \in Int
    BY <1>3, ChildNodes
  <2> QED
    BY <1>4, <2>1
<1> QED
  BY <1>1, <1>2, <1>3, <1>5, <1>6, <1>7, <1>8, <1>9, <1>10, <1>11

(* What the return of numberNode on t does.                                *)
LEMMA DoneNode ==
  ASSUME IInv, NumberReturn, NEW t, t = Top.node
  PROVE  /\ phase = "number"
         /\ UNCHANGED <<root, base, numbered, written, additions>>
         /\ nodeCounter' = nodeCounter + 1
         /\ t \in OpenNodes /\ t \in numbered
         /\ OpenNodes' = OpenNodes \ {t}
         /\ userDataMap'[t].right = nodeCounter
         /\ \A n \in numbered : userDataMap'[n].left = userDataMap[n].left
         /\ \A n \in numbered : n # t => userDataMap'[n].right = userDataMap[n].right
         /\ Len(stack) \in Nat /\ Len(stack') = Len(stack) - 1
         /\ Len(stack) = 1 => phase' = "index" /\ stack[1].node = t /\ stack' = << >>
         /\ Len(stack) # 1 => /\ Len(stack) > 1 /\ phase' = "number"
                              /\ stack'[1] = stack[1]
<1> DEFINE len == Len(stack)
<1>1. /\ TypeOK /\ stack # << >> /\ phase = "number"
      /\ UNCHANGED <<root, base, numbered, written, additions>>
      /\ stack' = Pop
      /\ userDataMap' = [userDataMap EXCEPT ![t].right = nodeCounter]
      /\ nodeCounter' = nodeCounter + 1
      /\ phase' = IF len = 1 THEN "index" ELSE "number"
  BY DEF IInv, NumberReturn, Returns
<1>2. /\ len \in Nat /\ len >= 1 /\ Top = stack[len]
      /\ t \in numbered /\ t \in DOMAIN userDataMap
      /\ \A i \in 1 .. len - 1 : stack[i].node # t
  BY <1>1, TopCall
<1>3. /\ stack' \in Seq(Frame) /\ Len(stack') = len - 1
      /\ \A i \in 1 .. len - 1 : stack'[i] = stack[i]
  BY <1>1, PoppedStack
<1>4. /\ userDataMap'[t].right = nodeCounter
      /\ \A n \in numbered : userDataMap'[n].left = userDataMap[n].left
      /\ \A n \in numbered : n # t => userDataMap'[n].right = userDataMap[n].right
  <2>1. numbered \subseteq DOMAIN userDataMap
    BY <1>1 DEF TypeOK
  <2> QED
    BY <1>1, <1>2, <2>1, RightFacts
<1>5. OpenNodes' = OpenNodes \ {t} /\ t \in OpenNodes
  <2>1. OpenNodes = {stack[i].node : i \in 1 .. len - 1} \cup {t}
    <3>1. 1 .. len = (1 .. len - 1) \cup {len}
      BY <1>2
    <3> QED
      BY <1>1, <1>2, <3>1 DEF OpenNodes
  <2>2. t \notin {stack[i].node : i \in 1 .. len - 1}
    BY <1>2
  <2>3. OpenNodes' = {stack[i].node : i \in 1 .. len - 1}
    <3>1. CASE len = 1
      BY <1>1, <1>2, <3>1 DEF OpenNodes
    <3>2. CASE len # 1
      <4>1. 1 .. Len(stack') = 1 .. len - 1
        BY <1>3
      <4> QED
        BY <1>1, <1>3, <3>2, <4>1 DEF OpenNodes
    <3> QED
      BY <3>1, <3>2
  <2> QED
    BY <2>1, <2>2, <2>3
<1>6. len = 1 => phase' = "index" /\ stack[1].node = t /\ stack' = << >>
  BY <1>1, <1>2, <1>3
<1>7. len # 1 => len > 1 /\ phase' = "number" /\ stack'[1] = stack[1]
  BY <1>1, <1>2, <1>3
<1> QED
  BY <1>1, <1>2, <1>3, <1>4, <1>5, <1>6, <1>7

(* numberNode on a child keeps the order of siblings and of parents.       *)
LEMMA NumberChildKin ==
  ASSUME IInv, KinInv, NumberChild, Child \notin Blank
  PROVE  KinInv'
<1> PICK t : t = Top.node
  OBVIOUS
<1> PICK c : c = Child
  OBVIOUS
<1> PICK x : x = Top.next + 1
  OBVIOUS
<1> DEFINE left2(n) == userDataMap'[n].left
           right2(n) == userDataMap'[n].right
<1>1. /\ root' = root /\ numbered' = numbered \cup {c} /\ c \notin numbered
      /\ t \in numbered /\ x \in 1 .. Len(Children[t]) /\ c = Children[t][x]
      /\ OpenNodes' = OpenNodes \cup {c} /\ OpenNodes \subseteq numbered
      /\ \A n \in OpenNodes : left(n) <= left(t)
      /\ \A h \in 1 .. Len(Children[t]) : x < h => Children[t][h] \notin numbered
      /\ phase = "number"
  BY NewChild
<1>2. /\ left2(c) = nodeCounter
      /\ \A n \in numbered : left2(n) = left(n) /\ right2(n) = right(n)
  BY NewChild DEF left, right
<1>3. /\ nodeCounter \in Nat
      /\ \A n \in numbered : n \in Nodes /\ left(n) \in Nat /\ right(n) \in Nat
      /\ \A n \in numbered : left(n) < nodeCounter
      /\ \A n \in numbered \ OpenNodes : right(n) < nodeCounter
  BY <1>1, Numbers DEF IInv, CounterInv
<1>4. ASSUME NEW p \in numbered', NEW k \in 1 .. Len(Children[p])
      PROVE  /\ k \in Int /\ p \in Nodes
             /\ Children[p][k] = c => p = t /\ k = x
             /\ Children[p][k] \in numbered => p \in numbered
  <2>1. c \in Nodes
    BY <1>1, <1>3, ChildNodes
  <2>2. p \in Nodes
    BY <1>1, <1>3, <2>1
  <2>3. Children[p][k] = c => p = t /\ k = x
    BY <1>1, <1>3, <2>2, OnePlace
  <2>4. k \in Int
    BY <2>2, ChildNodes
  <2>5. Children[p][k] \in numbered => p \in numbered
    BY <2>2, ChildNodes DEF IInv, ProgressInv
  <2> QED
    BY <2>2, <2>3, <2>4, <2>5
<1>5. ASSUME NEW n \in numbered'
      PROVE  /\ n \notin Blank
             /\ n # root' =>
                  \E p \in numbered' : \E k \in 1 .. Len(Children[p]) :
                    n = Children[p][k]
  BY <1>1 DEF KinInv
<1>6. ASSUME NEW p \in numbered', NEW k \in 1 .. Len(Children[p]),
             NEW h \in 1 .. Len(Children[p]), k < h,
             Children[p][k] \in numbered', Children[p][h] \in numbered'
      PROVE  /\ Children[p][k] \notin OpenNodes'
             /\ right2(Children[p][k]) < left2(Children[p][h])
  <2> DEFINE d == Children[p][k]
  <2>1. CASE Children[p][h] = c
    <3>1. p = t /\ d # c
      BY <1>4, <1>6, <2>1
    <3>2. d \in numbered
      BY <1>1, <1>6, <3>1
    <3>3. left(t) < left(d)
      BY <1>1, <3>1, <3>2 DEF IInv, EdgeInv
    <3>4. d \notin OpenNodes
      BY <1>1, <1>3, <3>2, <3>3
    <3> QED
      BY <1>1, <1>2, <1>3, <2>1, <3>1, <3>2, <3>4
  <2>2. CASE d = c
    <3>1. p = t /\ k = x
      BY <1>4, <2>2
    <3>2. Children[p][h] # c
      BY <1>4, <1>6, <3>1
    <3> QED
      BY <1>1, <1>6, <3>1, <3>2
  <2>3. CASE d # c /\ Children[p][h] # c
    <3>1. d \in numbered /\ Children[p][h] \in numbered
      BY <1>1, <1>6, <2>3
    <3>2. p \in numbered
      BY <1>4, <3>1
    <3>3. d \notin OpenNodes /\ right(d) < left(Children[p][h])
      BY <1>6, <3>1, <3>2 DEF KinInv
    <3> QED
      BY <1>1, <1>2, <2>3, <3>1, <3>3
  <2> QED
    BY <2>1, <2>2, <2>3
<1>7. ASSUME NEW p \in numbered', NEW m \in numbered', NEW k \in 1 .. Len(Children[p]),
             Children[p][k] \in numbered', left2(m) < left2(Children[p][k]),
             m \in OpenNodes' \/ left2(Children[p][k]) < right2(m)
      PROVE  left2(m) <= left2(p)
  <2>1. m # c
    <3>1. left2(Children[p][k]) \in Nat /\ left2(Children[p][k]) <= nodeCounter
      <4>1. CASE Children[p][k] = c
        BY <1>2, <1>3, <4>1
      <4>2. CASE Children[p][k] \in numbered
        <5> DEFINE d == Children[p][k]
        <5>1. left2(d) = left(d) /\ left(d) \in Nat /\ left(d) < nodeCounter
          BY <1>2, <1>3, <4>2
        <5> HIDE DEF left2
        <5> QED
          BY <1>3, <5>1
      <4> QED
        BY <1>1, <1>7, <4>1, <4>2
    <3> QED
      BY <1>2, <1>3, <1>7, <3>1
  <2>2. m \in numbered /\ (m \in OpenNodes' => m \in OpenNodes)
    BY <1>1, <2>1
  <2>3. CASE Children[p][k] = c
    <3>1. p = t
      BY <1>4, <2>3
    <3>2. m \in OpenNodes
      BY <1>2, <1>3, <1>7, <2>2, <2>3
    <3> QED
      BY <1>1, <1>2, <2>2, <3>1, <3>2
  <2>4. CASE Children[p][k] \in numbered
    <3>1. p \in numbered
      BY <1>4, <2>4
    <3> QED
      BY <1>2, <1>7, <2>2, <2>4, <3>1 DEF KinInv
  <2> QED
    BY <1>1, <1>7, <2>3, <2>4
<1> QED
  BY <1>5, <1>6, <1>7 DEF KinInv, left, right

(* A number for a new node and a new call, or for a call that ends.        *)
LEMMA OneNumber ==
  ASSUME NEW v \in Nat, NEW a \in Nat, NEW b \in Nat, NEW l \in Nat,
         v = a + 2 * b - l
  PROVE  v + 1 = a + 2 * (b + 1) - (l + 1) /\ v + 1 = a + 2 * b - (l - 1)
  OBVIOUS

(* numberNode on a child uses one number and starts one call.              *)
LEMMA NumberChildCount ==
  ASSUME IInv, CountInv, NumberChild, Child \notin Blank
  PROVE  CountInv'
<1> PICK t : t = Top.node
  OBVIOUS
<1> PICK c : c = Child
  OBVIOUS
<1> PICK x : x = Top.next + 1
  OBVIOUS
<1>1. /\ phase = "number" /\ phase' = "number"
      /\ UNCHANGED <<root, base>>
      /\ nodeCounter' = nodeCounter + 1
      /\ numbered' = numbered \cup {c} /\ c \notin numbered
      /\ Len(stack) \in Nat /\ Len(stack') = Len(stack) + 1
      /\ stack'[1].node = stack[1].node
      /\ OpenNodes' = OpenNodes \cup {c}
      /\ userDataMap'[c].left = nodeCounter
      /\ \A n \in numbered : userDataMap'[n] = userDataMap[n]
  BY NewChild
<1>2. /\ nodeCounter \in Nat /\ base \in Nat
      /\ \A n \in numbered : left(n) \in Nat /\ right(n) \in Nat /\ left(n) < nodeCounter
  BY <1>1, Numbers DEF IInv, CounterInv
<1>3. /\ IsFiniteSet(numbered) /\ root \in numbered /\ left(root) = base
      /\ \A n \in numbered : base <= left(n)
      /\ \A n \in numbered \ OpenNodes : right(n) < nodeCounter
      /\ nodeCounter = base + 2 * Cardinality(numbered) - Len(stack)
      /\ stack[1].node = root
  BY <1>1 DEF CountInv, InHand
<1>4. /\ IsFiniteSet(numbered') /\ Cardinality(numbered') = Cardinality(numbered) + 1
      /\ Cardinality(numbered) \in Nat
  BY <1>1, <1>3, FS_AddElement, FS_CardinalityType
<1>5. nodeCounter' = base + 2 * Cardinality(numbered') - Len(stack')
  <2>1. nodeCounter + 1 = base + 2 * (Cardinality(numbered) + 1) - (Len(stack) + 1)
    <3>1. PICK v, b, k, l : /\ v = nodeCounter /\ b = base
                            /\ k = Cardinality(numbered) /\ l = Len(stack)
      OBVIOUS
    <3>2. /\ v \in Nat /\ b \in Nat /\ k \in Nat /\ l \in Nat
          /\ v = b + 2 * k - l
      BY <1>1, <1>2, <1>3, <1>4, <3>1
    <3>3. v + 1 = b + 2 * (k + 1) - (l + 1)
      BY ONLY <3>2
    <3> QED
      BY <3>1, <3>3
  <2> QED
    BY <1>1, <1>4, <2>1
<1>6. \A n \in numbered' : base <= userDataMap'[n].left
  BY <1>1, <1>2, <1>3 DEF left
<1>7. \A n \in numbered' \ OpenNodes' : userDataMap'[n].right < nodeCounter'
  BY <1>1, <1>2, <1>3 DEF right
<1>8. root' \in numbered' /\ userDataMap'[root'].left = base'
  BY <1>1, <1>3 DEF left
<1> QED
  BY <1>1, <1>3, <1>4, <1>5, <1>6, <1>7, <1>8 DEF CountInv, left, right

(* A skipped whitespace node changes nothing but the call on top.          *)
LEMMA SkipBlankOrder ==
  ASSUME IInv, KinInv, CountInv, NumberChild, Child \in Blank
  PROVE  KinInv' /\ CountInv'
<1>1. /\ TypeOK /\ stack # << >> /\ phase = "number" /\ phase' = "number"
      /\ UNCHANGED <<root, base, userDataMap, nodeCounter, numbered>>
      /\ stack' = Advanced
  BY DEF IInv, NumberChild, HasChild
<1>2. /\ Len(stack') = Len(stack) /\ 1 \in 1 .. Len(stack)
      /\ \A i \in 1 .. Len(stack) : stack'[i].node = stack[i].node
  BY <1>1, AdvancedStack
<1>3. OpenNodes' = OpenNodes
  BY <1>1, <1>2 DEF OpenNodes
<1>4. KinInv'
  BY <1>1, <1>3 DEF KinInv, left, right
<1>5. CountInv'
  BY <1>1, <1>2, <1>3 DEF CountInv, InHand, left, right
<1> QED
  BY <1>4, <1>5

(* The return of numberNode keeps the order of siblings and of parents.    *)
LEMMA NumberReturnKin ==
  ASSUME IInv, KinInv, NumberReturn
  PROVE  KinInv'
<1> PICK t : t = Top.node
  OBVIOUS
<1> DEFINE left2(n) == userDataMap'[n].left
           right2(n) == userDataMap'[n].right
<1>1. /\ root' = root /\ numbered' = numbered
      /\ t \in OpenNodes /\ OpenNodes' = OpenNodes \ {t}
  BY DoneNode
<1>2. \A n \in numbered : left2(n) = left(n) /\ (n # t => right2(n) = right(n))
  BY DoneNode DEF left, right
<1>3. ASSUME NEW p \in numbered, NEW k \in 1 .. Len(Children[p]),
             NEW h \in 1 .. Len(Children[p]), k < h,
             Children[p][k] \in numbered, Children[p][h] \in numbered
      PROVE  /\ Children[p][k] \notin OpenNodes'
             /\ right2(Children[p][k]) < left2(Children[p][h])
  <2>1. Children[p][k] \notin OpenNodes /\ right(Children[p][k]) < left(Children[p][h])
    BY <1>3 DEF KinInv
  <2> QED
    BY <1>1, <1>2, <1>3, <2>1
<1>4. ASSUME NEW p \in numbered, NEW m \in numbered, NEW k \in 1 .. Len(Children[p]),
             Children[p][k] \in numbered, left2(m) < left2(Children[p][k]),
             m \in OpenNodes' \/ left2(Children[p][k]) < right2(m)
      PROVE  left2(m) <= left2(p)
  <2>1. left(m) < left(Children[p][k])
    BY <1>2, <1>4
  <2>2. m \in OpenNodes \/ left(Children[p][k]) < right(m)
    BY <1>1, <1>2, <1>4
  <2> QED
    BY <1>2, <1>4, <2>1, <2>2 DEF KinInv
<1> QED
  BY <1>1, <1>3, <1>4 DEF KinInv, left, right

(* The return of numberNode uses one number and ends one call; the last is *)
(* that of the document element.                                           *)
LEMMA NumberReturnCount ==
  ASSUME IInv, CountInv, NumberReturn
  PROVE  CountInv'
<1> PICK t : t = Top.node
  OBVIOUS
<1> DEFINE len == Len(stack)
<1>1. /\ phase = "number" /\ UNCHANGED <<root, base, numbered>>
      /\ nodeCounter' = nodeCounter + 1
      /\ t \in OpenNodes /\ t \in numbered /\ OpenNodes' = OpenNodes \ {t}
      /\ userDataMap'[t].right = nodeCounter
      /\ \A n \in numbered : userDataMap'[n].left = userDataMap[n].left
      /\ \A n \in numbered : n # t => userDataMap'[n].right = userDataMap[n].right
      /\ len \in Nat /\ Len(stack') = len - 1
      /\ len = 1 => phase' = "index" /\ stack[1].node = t
      /\ len # 1 => phase' = "number" /\ stack'[1] = stack[1]
  BY DoneNode
<1>2. /\ nodeCounter \in Nat /\ base \in Nat
      /\ \A n \in numbered : left(n) \in Nat /\ right(n) \in Nat
  BY Numbers
<1>3. /\ IsFiniteSet(numbered) /\ root \in numbered /\ left(root) = base
      /\ \A n \in numbered : base <= left(n)
      /\ \A n \in numbered \ OpenNodes : right(n) < nodeCounter
      /\ nodeCounter = base + 2 * Cardinality(numbered) - len
      /\ stack[1].node = root
  BY <1>1 DEF CountInv, InHand
<1>4. Cardinality(numbered) \in Nat
  BY <1>3, FS_CardinalityType
<1>5. \A n \in numbered : base <= userDataMap'[n].left
  BY <1>1, <1>3 DEF left
<1>6. ASSUME NEW n \in numbered \ OpenNodes'
      PROVE  userDataMap'[n].right < nodeCounter'
  <2>1. CASE n = t
    BY <1>1, <1>2, <2>1
  <2>2. CASE n # t
    <3>1. right(n) < nodeCounter /\ userDataMap'[n].right = right(n)
      BY <1>1, <1>3, <2>2 DEF right
    <3> QED
      BY <1>1, <1>2, <3>1
  <2> QED
    BY <2>1, <2>2
<1>7. phase' = "number" => /\ nodeCounter' = base + 2 * Cardinality(numbered) - Len(stack')
                           /\ stack'[1].node = root
  <2>1. nodeCounter + 1 = base + 2 * Cardinality(numbered) - (len - 1)
    <3>1. /\ nodeCounter \in Nat /\ base \in Nat /\ Cardinality(numbered) \in Nat
          /\ len \in Nat
          /\ nodeCounter = base + 2 * Cardinality(numbered) - len
      BY <1>1, <1>2, <1>3, <1>4
    <3> HIDE DEF len
    <3> QED
      BY ONLY <3>1, OneNumber
  <2>2. len # 1 => stack'[1].node = root
    BY <1>1, <1>3
  <2>3. phase' = "number" => len # 1
    BY <1>1
  <2> HIDE DEF len
  <2> QED
    BY <1>1, <2>1, <2>2, <2>3
<1>8. phase' # "number" => /\ nodeCounter' = base + 2 * Cardinality(numbered)
                           /\ userDataMap'[root].right = nodeCounter' - 1
  <2>1. SUFFICES ASSUME phase' # "number"
                 PROVE  /\ nodeCounter' = base + 2 * Cardinality(numbered)
                        /\ userDataMap'[root].right = nodeCounter' - 1
    OBVIOUS
  <2>2. len = 1 /\ t = root
    BY <1>1, <1>3, <2>1
  <2> HIDE DEF len
  <2> QED
    BY <1>1, <1>2, <1>3, <1>4, <2>2
<1>9. userDataMap'[root].left = base
  BY <1>1, <1>3 DEF left
<1> QED
  BY <1>1, <1>3, <1>5, <1>6, <1>7, <1>8, <1>9 DEF CountInv, left, right

(* Nothing changes in the numbers once numberNode has returned.            *)
LEMMA SettledOrder ==
  ASSUME KinInv, CountInv, phase = "index", phase' # "number",
         UNCHANGED <<root, base, userDataMap, numbered>>,
         nodeCounter' = nodeCounter \/ (phase' = "idle" /\ written' = << >>)
  PROVE  KinInv' /\ CountInv'
<1>1. OpenNodes = {} /\ OpenNodes' = {}
  BY DEF OpenNodes
<1>2. KinInv'
  BY <1>1 DEF KinInv, left, right
<1>3. /\ IsFiniteSet(numbered)
      /\ root \in numbered /\ left(root) = base
      /\ \A n \in numbered : base <= left(n)
      /\ \A n \in numbered : right(n) < nodeCounter
      /\ nodeCounter = base + 2 * Cardinality(numbered)
      /\ right(root) = nodeCounter - 1
  BY <1>1 DEF CountInv, InHand
<1>4. CASE nodeCounter' = nodeCounter
  BY <1>1, <1>2, <1>3, <1>4 DEF CountInv, left, right
<1>5. CASE phase' = "idle" /\ written' = << >>
  BY <1>2, <1>3, <1>5 DEF CountInv, InHand
<1> QED
  BY <1>2, <1>4, <1>5

(* indexNode on the document element.                                      *)
LEMMA IndexRootOrder ==
  ASSUME IInv, WInv, IndexRoot
  PROVE  WInv'
<1>1. /\ phase = "index" /\ phase' = "index"
      /\ UNCHANGED <<root, base, userDataMap, nodeCounter, numbered>>
      /\ written' = << Record(root, RootLeft) >>
      /\ stack' = << [node |-> root, next |-> 0] >>
      /\ root \in numbered
  BY DEF IInv, CallsInv, IndexRoot
<1>2. KinInv' /\ CountInv'
  BY <1>1, SettledOrder DEF WInv
<1>3. /\ Len(written') = 1 /\ written' # << >> /\ written'[1].node = root
      /\ written'[1].left = userDataMap[root].left
      /\ written'[1].right = userDataMap[root].right
      /\ written'[1].docLeft = userDataMap[root].left
      /\ written'[1].docRight = userDataMap[root].right
  BY <1>1 DEF Record
<1>4. Len(stack') = 1 /\ stack' # << >> /\ stack'[1].node = root /\ stack'[1].next = 0
  BY <1>1
<1>5. /\ root \in Nodes /\ Len(Children[root]) \in Nat
      /\ \A k \in 1 .. Len(Children[root]) : k \in Nat /\ 0 < k
  <2>1. root \in Nodes
    BY <1>1, Numbers
  <2> QED
    BY <2>1, ChildNodes
<1>6. WrittenInv'
  <2>1. ASSUME NEW k \in 1 .. Len(Children[root])
        PROVE  Pending(root, k)'
    BY <1>1, <1>4, <1>5 DEF Pending
  <2>2. \A i \in 1 .. Len(written') :
          /\ written'[i].node \in numbered'
          /\ written'[i].left = left(written[i].node)'
          /\ written'[i].right = right(written[i].node)'
          /\ written'[i].docLeft = left(root)'
          /\ written'[i].docRight = right(root)'
    BY <1>1, <1>3 DEF left, right
  <2>3. 1 .. Len(written') = {1} /\ 2 .. Len(written') = {}
    BY <1>3
  <2> QED
    BY <1>1, <1>3, <1>4, <2>1, <2>2, <2>3 DEF WrittenInv
<1>7. WalkInv'
  <2>1. ASSUME NEW k \in 1 .. Len(Children[root]), Children[root][k] \notin Blank
        PROVE  userDataMap[root].left < userDataMap[Children[root][k]].left
    <3>1. Passed(root, k)
      BY <1>1 DEF Passed
    <3>2. Children[root][k] \in numbered
      BY <1>1, <2>1, <3>1 DEF IInv, ProgressInv
    <3> QED
      BY <1>1, <3>2 DEF IInv, EdgeInv, left
  <2>2. 1 .. Len(written') = {1} /\ 1 .. Len(stack') = {1}
    BY <1>3, <1>4
  <2> QED
    BY <1>1, <1>3, <1>4, <2>1, <2>2 DEF WalkInv, left, right
<1> QED
  BY <1>2, <1>6, <1>7 DEF WInv

(* What indexNode does with a child c of t.                                *)
LEMMA NextCall ==
  ASSUME IInv, IndexChild,
         NEW t, t = Top.node, NEW c, c = Child, NEW x, x = Top.next + 1
  PROVE  /\ phase = "index" /\ phase' = "index"
         /\ UNCHANGED <<root, base, userDataMap, nodeCounter, numbered>>
         /\ t \in numbered /\ x \in 1 .. Len(Children[t]) /\ c = Children[t][x]
         /\ Len(stack) \in Nat /\ Len(stack) >= 1
         /\ Len(Advanced) = Len(stack)
         /\ stack[Len(stack)].node = t /\ stack[Len(stack)].next + 1 = x
         /\ \A s \in 1 .. Len(stack) :
              /\ stack[s].node \in numbered /\ stack[s].next \in Nat
              /\ Advanced[s].node = stack[s].node
              /\ Advanced[s].next = IF s = Len(stack) THEN stack[s].next + 1
                                    ELSE stack[s].next
         /\ c \in Blank => stack' = Advanced /\ written' = written
         /\ c \notin Blank =>
              /\ Len(stack') = Len(stack) + 1
              /\ stack'[Len(stack) + 1] = [node |-> c, next |-> 0]
              /\ \A s \in 1 .. Len(stack) : stack'[s] = Advanced[s]
              /\ written' = Append(written, Record(c, left(t)))
              /\ written \in Seq(LuceneDocument)
<1>1. /\ TypeOK /\ HasChild /\ stack # << >> /\ phase = "index" /\ phase' = "index"
      /\ UNCHANGED <<root, base, userDataMap, nodeCounter, numbered>>
      /\ c \in Blank => stack' = Advanced /\ written' = written
      /\ c \notin Blank => /\ stack' = Append(Advanced, [node |-> c, next |-> 0])
                           /\ written' = Append(written, Record(c, left(t)))
  BY DEF IInv, IndexChild, HasChild, left
<1>2. /\ x \in 1 .. Len(Children[t]) /\ c = Children[t][x] /\ c \in Nodes
  BY <1>1, NextChild DEF Child
<1>3. /\ Len(stack) \in Nat /\ Len(stack) >= 1
      /\ Len(Advanced) = Len(stack)
      /\ \A s \in 1 .. Len(stack) :
           /\ stack[s] \in Frame
           /\ Advanced[s].node = stack[s].node
           /\ Advanced[s].next = IF s = Len(stack) THEN stack[s].next + 1
                                 ELSE stack[s].next
  BY <1>1, AdvancedStack
<1>4. \A s \in 1 .. Len(stack) : stack[s].node \in numbered /\ stack[s].next \in Nat
  BY <1>1, <1>3 DEF IInv, CallsInv, Frame
<1>5. /\ stack[Len(stack)].node = t /\ stack[Len(stack)].next + 1 = x
      /\ t \in numbered
  BY <1>3, <1>4 DEF Top
<1>6. ASSUME c \notin Blank
      PROVE  /\ Len(stack') = Len(stack) + 1
             /\ stack'[Len(stack) + 1] = [node |-> c, next |-> 0]
             /\ \A s \in 1 .. Len(stack) : stack'[s] = Advanced[s]
  BY <1>1, <1>2, <1>6, PushedStack
<1> QED
  BY <1>1, <1>2, <1>3, <1>4, <1>5, <1>6 DEF TypeOK

(* Once numberNode has returned, a child that is not whitespace has its    *)
(* interval, inside its parent's.                                          *)
LEMMA ChildInterval ==
  ASSUME IInv, phase # "number", NEW p \in numbered, NEW k \in 1 .. Len(Children[p]),
         NEW c, c = Children[p][k], c \in numbered
  PROVE  left(p) < left(c) /\ left(c) < right(c) /\ right(c) < right(p)
<1>1. OpenNodes = {}
  BY DEF OpenNodes
<1>2. left(p) < left(c) /\ left(c) < right(p)
  BY <1>1 DEF IInv, EdgeInv
<1>3. left(c) < right(c)
  BY <1>1 DEF IInv, IntervalInv
<1>4. right(p) < left(c) \/ right(c) < right(p)
  BY <1>1, <1>2 DEF IInv, IntervalInv
<1>5. left(c) \in Nat /\ right(p) \in Nat
  BY Numbers
<1> QED
  BY <1>2, <1>3, <1>4, <1>5

(* ... and it has a number.                                                *)
LEMMA ChildNumbered ==
  ASSUME IInv, phase = "index", NEW p \in numbered, NEW k \in 1 .. Len(Children[p]),
         Children[p][k] \notin Blank
  PROVE  Children[p][k] \in numbered
<1>1. Passed(p, k)
  BY DEF Passed
<1> QED
  BY <1>1 DEF IInv, ProgressInv

(* The interval of the child that indexNode comes to starts after all that *)
(* is written, and ends before any child that a call has not come to.      *)
LEMMA NextInOrder ==
  ASSUME IInv, WInv, IndexChild,
         NEW t, t = Top.node, NEW c, c = Child, NEW x, x = Top.next + 1, c \notin Blank
  PROVE  /\ c \in numbered
         /\ \A j \in 1 .. Len(written) : written[j].left < left(c)
         /\ \A s \in 1 .. Len(stack) : \A k \in 1 .. Len(Children[stack[s].node]) :
              Advanced[s].next < k /\ Children[stack[s].node][k] \notin Blank =>
                /\ left(c) < left(Children[stack[s].node][k])
                /\ right(c) < left(Children[stack[s].node][k])
<1> DEFINE len == Len(stack)
<1>1. /\ phase = "index" /\ t \in numbered
      /\ x \in 1 .. Len(Children[t]) /\ c = Children[t][x]
      /\ len \in Nat /\ len >= 1 /\ stack[len].node = t /\ stack[len].next + 1 = x
      /\ \A s \in 1 .. len :
           /\ stack[s].node \in numbered /\ stack[s].next \in Nat
           /\ Advanced[s].next = IF s = len THEN stack[s].next + 1 ELSE stack[s].next
  <2>1. \A s \in 1 .. len :
          /\ stack[s].node \in numbered /\ stack[s].next \in Nat
          /\ Advanced[s].node = stack[s].node
          /\ Advanced[s].next = IF s = len THEN stack[s].next + 1 ELSE stack[s].next
    BY NextCall
  <2>2. /\ phase = "index" /\ t \in numbered
        /\ x \in 1 .. Len(Children[t]) /\ c = Children[t][x]
        /\ len \in Nat /\ len >= 1 /\ stack[len].node = t /\ stack[len].next + 1 = x
    BY NextCall
  <2> QED
    BY <2>1, <2>2
<1>2. c \in numbered
  BY <1>1, ChildNumbered
<1>3. len \in 1 .. len /\ stack[len].next < x
  BY <1>1
<1>4. \A j \in 1 .. Len(written) : written[j].left < left(c)
  BY <1>1, <1>3 DEF WInv, WalkInv
<1>5. left(c) < right(c) /\ right(c) < right(t)
  BY <1>1, <1>2, ChildInterval
<1>6. left(c) \in Nat /\ right(c) \in Nat /\ right(t) \in Nat
  BY <1>1, <1>2, Numbers
<1>7. ASSUME NEW s \in 1 .. len, NEW k \in 1 .. Len(Children[stack[s].node]),
             Advanced[s].next < k, Children[stack[s].node][k] \notin Blank
      PROVE  /\ left(c) < left(Children[stack[s].node][k])
             /\ right(c) < left(Children[stack[s].node][k])
  <2> DEFINE p == stack[s].node
             d == Children[p][k]
  <2>1. p \in numbered /\ d \in numbered
    BY <1>1, <1>7, ChildNumbered
  <2>2. left(d) \in Nat
    BY <2>1, Numbers
  <2>3. CASE s = len
    <3>1. p = t /\ x < k
      BY <1>1, <1>7, <2>3
    <3>2. right(c) < left(d)
      BY <1>1, <1>2, <1>7, <2>1, <3>1 DEF WInv, KinInv
    <3> QED
      BY <1>5, <1>6, <2>2, <3>2
  <2>4. CASE s # len
    <3>1. s < len /\ stack[s].next < k
      BY <1>1, <1>7, <2>4
    <3>2. right(stack[len].node) < left(d)
      BY <1>1, <1>3, <1>7, <3>1 DEF WInv, WalkInv
    <3>3. right(t) < left(d)
      BY <1>1, <3>2
    <3> HIDE DEF d, p
    <3>4. left(c) < left(d) /\ right(c) < left(d)
      BY <1>5, <1>6, <2>2, <3>3
    <3> QED
      BY <3>4 DEF d, p
  <2> QED
    BY <2>3, <2>4
<1> QED
  BY <1>2, <1>4, <1>7

(* indexNode skips a whitespace node.                                      *)
LEMMA IndexSkipOrder ==
  ASSUME IInv, WInv, IndexChild, Child \in Blank
  PROVE  WInv'
<1> PICK t : t = Top.node
  OBVIOUS
<1> PICK c : c = Child
  OBVIOUS
<1> PICK x : x = Top.next + 1
  OBVIOUS
<1> DEFINE len == Len(stack)
<1>1. /\ phase = "index" /\ phase' = "index"
      /\ UNCHANGED <<root, base, userDataMap, nodeCounter, numbered, written>>
      /\ x \in 1 .. Len(Children[t]) /\ c = Children[t][x] /\ c \in Blank
      /\ len \in Nat /\ len >= 1 /\ Len(stack') = len
      /\ stack[len].node = t /\ stack[len].next + 1 = x
      /\ \A s \in 1 .. len :
           /\ stack[s].next \in Nat /\ stack[s].node \in Nodes
           /\ stack'[s].node = stack[s].node
           /\ stack'[s].next = IF s = len THEN stack[s].next + 1 ELSE stack[s].next
  BY NextCall, Numbers
<1>2. KinInv' /\ CountInv'
  BY <1>1, SettledOrder DEF WInv
<1>3. ASSUME NEW p, NEW k \in 1 .. Len(Children[p]), Pending(p, k), Children[p][k] \notin Blank
      PROVE  Pending(p, k)'
  <2>1. PICK s \in 1 .. len : stack[s].node = p /\ stack[s].next < k
    BY <1>3 DEF Pending
  <2>2. k \in Nat
    BY <1>1, <2>1, ChildNodes
  <2>3. s = len => k # x
    BY <1>1, <1>3, <2>1
  <2>4. stack'[s].node = p /\ stack'[s].next < k
    BY <1>1, <2>1, <2>2, <2>3
  <2> QED
    BY <1>1, <2>1, <2>4 DEF Pending
<1>4. stack # << >> /\ stack' # << >>
  BY <1>1
<1>5. WrittenInv'
  <2>1. \A j \in 1 .. Len(written) : \A k \in 1 .. Len(Children[written[j].node]) :
          \/ Children[written[j].node][k] \in Blank
          \/ \E i \in 1 .. Len(written) : written[i].node = Children[written[j].node][k]
          \/ Pending(written[j].node, k)'
    <3>1. SUFFICES ASSUME NEW j \in 1 .. Len(written),
                          NEW k \in 1 .. Len(Children[written[j].node]),
                          Children[written[j].node][k] \notin Blank,
                          ~ \E i \in 1 .. Len(written) :
                              written[i].node = Children[written[j].node][k]
                   PROVE  Pending(written[j].node, k)'
      OBVIOUS
    <3> PICK p : p = written[j].node
      OBVIOUS
    <3>2. Pending(p, k)
      BY <3>1 DEF WInv, WrittenInv
    <3>3. Pending(p, k)'
      BY <1>3, <3>1, <3>2
    <3>4. p = written'[j].node
      BY <1>1
    <3> QED
      BY <3>3, <3>4 DEF Pending
  <2>2. \A j \in 1 .. Len(written') : \A k \in 1 .. Len(Children[written'[j].node]) :
          \/ Children[written'[j].node][k] \in Blank
          \/ \E i \in 1 .. Len(written') : written'[i].node = Children[written'[j].node][k]
          \/ Pending(written[j].node, k)'
    BY <1>1, <2>1
  <2>3. /\ phase' = "number" => written' = << >>
        /\ phase' = "index" => (stack' = << >> <=> written' = << >>)
        /\ written' # << >> => written'[1].node = root'
    BY <1>1, <1>4 DEF WInv, WrittenInv
  <2>4. \A i \in 1 .. Len(written') :
          /\ written'[i].node \in numbered'
          /\ written'[i].left = left(written[i].node)'
          /\ written'[i].right = right(written[i].node)'
          /\ written'[i].docLeft = left(root)'
          /\ written'[i].docRight = right(root)'
    BY <1>1 DEF WInv, WrittenInv, left, right
  <2>5. /\ \A i \in 2 .. Len(written') : \E j \in 1 .. i - 1 :
             /\ written'[i].parent = written'[j].left
             /\ \E k \in 1 .. Len(Children[written'[j].node]) :
                  written'[i].node = Children[written'[j].node][k]
        /\ \A i, j \in 1 .. Len(written') : i < j => written'[i].left < written'[j].left
    BY <1>1 DEF WInv, WrittenInv
  <2> QED
    BY <2>2, <2>3, <2>4, <2>5 DEF WrittenInv
<1>6. ASSUME NEW s \in 1 .. len, NEW k \in 1 .. Len(Children[stack[s].node]),
             stack'[s].next < k
      PROVE  stack[s].next < k
  <2>1. k \in Nat
    BY <1>1, ChildNodes
  <2> QED
    BY <1>1, <1>6, <2>1
<1>7. WalkInv'
  <2>1. WalkInv /\ phase = "index"
    BY <1>1 DEF WInv
  <2>2. \A m : left(m)' = left(m) /\ right(m)' = right(m)
    BY <1>1 DEF left, right
  <2>3. ASSUME NEW s \in 1 .. len
        PROVE  /\ stack'[s].node = stack[s].node
               /\ \E j \in 1 .. Len(written) : written[j].node = stack[s].node
    BY <1>1, <2>1 DEF WalkInv
  <2>4. ASSUME NEW s \in 1 .. len, NEW k \in 1 .. Len(Children[stack[s].node]),
               stack'[s].next < k, Children[stack[s].node][k] \notin Blank
        PROVE  /\ \A j \in 1 .. Len(written) :
                    written[j].left < left(Children[stack[s].node][k])
               /\ \A r \in 1 .. len : s < r =>
                    right(stack[r].node) < left(Children[stack[s].node][k])
    <3>1. stack[s].next < k
      BY <1>6, <2>4
    <3> QED
      BY <2>1, <2>4, <3>1 DEF WalkInv
  <2> HIDE DEF left, right
  <2> QED
    BY <1>1, <2>2, <2>3, <2>4 DEF WalkInv
<1> QED
  BY <1>2, <1>5, <1>7 DEF WInv

(* indexNode writes a child: what is written.                              *)
LEMMA IndexWriteWritten ==
  ASSUME IInv, WInv, IndexChild, Child \notin Blank
  PROVE  WrittenInv'
<1> PICK t : t = Top.node
  OBVIOUS
<1> PICK c : c = Child
  OBVIOUS
<1> PICK x : x = Top.next + 1
  OBVIOUS
<1> DEFINE len == Len(stack)
           n == Len(written)
<1>1. /\ phase = "index" /\ phase' = "index"
      /\ UNCHANGED <<root, base, userDataMap, nodeCounter, numbered>>
      /\ x \in 1 .. Len(Children[t]) /\ c = Children[t][x] /\ c \notin Blank
      /\ len \in Nat /\ len >= 1 /\ Len(stack') = len + 1
      /\ stack[len].node = t /\ stack[len].next + 1 = x
      /\ stack'[len + 1] = [node |-> c, next |-> 0]
      /\ \A s \in 1 .. len :
           /\ stack[s].next \in Nat /\ stack[s].node \in Nodes
           /\ stack'[s].node = stack[s].node
           /\ stack'[s].next = IF s = len THEN stack[s].next + 1 ELSE stack[s].next
  <2>1. \A s \in 1 .. len :
          /\ stack[s].node \in numbered /\ stack[s].next \in Nat
          /\ Advanced[s].node = stack[s].node
          /\ Advanced[s].next = IF s = len THEN stack[s].next + 1 ELSE stack[s].next
    BY NextCall
  <2>2. \A s \in 1 .. len : stack'[s] = Advanced[s]
    BY NextCall
  <2>3. /\ phase = "index" /\ phase' = "index"
        /\ UNCHANGED <<root, base, userDataMap, nodeCounter, numbered>>
        /\ x \in 1 .. Len(Children[t]) /\ c = Children[t][x] /\ c \notin Blank
        /\ len \in Nat /\ len >= 1 /\ Len(stack') = len + 1
        /\ stack[len].node = t /\ stack[len].next + 1 = x
        /\ stack'[len + 1] = [node |-> c, next |-> 0]
    BY NextCall
  <2> QED
    BY <2>1, <2>2, <2>3, Numbers
<1>2. /\ c \in numbered /\ c \in Nodes
      /\ \A j \in 1 .. n : written[j].left < left(c)
  BY <1>1, NextInOrder, Numbers
<1>3. /\ n \in Nat /\ Len(written') = n + 1
      /\ written'[n + 1] = Record(c, left(t))
      /\ \A i \in 1 .. n : written'[i] = written[i]
  <2>1. written \in Seq(LuceneDocument) /\ written' = Append(written, Record(c, left(t)))
    BY <1>1, NextCall
  <2> QED
    BY <2>1
<1>4. n >= 1 /\ written # << >> /\ written' # << >> /\ stack' # << >>
  BY <1>1, <1>3 DEF WInv, WrittenInv
<1>5. /\ written'[n + 1].node = c
      /\ written'[n + 1].left = left(c) /\ written'[n + 1].right = right(c)
      /\ written'[n + 1].docLeft = left(root) /\ written'[n + 1].docRight = right(root)
      /\ written'[n + 1].parent = left(t)
  BY <1>3 DEF Record, left, right
<1>6. \A m : left(m)' = left(m) /\ right(m)' = right(m)
  BY <1>1 DEF left, right
<1>7. written'[1].node = root
  BY <1>3, <1>4 DEF WInv, WrittenInv
<1>8. ASSUME NEW i \in 1 .. Len(written')
      PROVE  /\ written'[i].node \in numbered
             /\ written'[i].left = left(written'[i].node)
             /\ written'[i].right = right(written'[i].node)
             /\ written'[i].docLeft = left(root)
             /\ written'[i].docRight = right(root)
  <2>1. CASE i = n + 1
    BY <1>2, <1>5, <2>1
  <2>2. CASE i \in 1 .. n
    BY <1>3, <2>2 DEF WInv, WrittenInv
  <2> QED
    BY <1>3, <2>1, <2>2
<1>9. ASSUME NEW i \in 2 .. Len(written')
      PROVE  \E j \in 1 .. i - 1 :
               /\ written'[i].parent = written'[j].left
               /\ \E k \in 1 .. Len(Children[written'[j].node]) :
                    written'[i].node = Children[written'[j].node][k]
  <2>1. CASE i = n + 1
    <3>1. PICK j \in 1 .. n : written[j].node = t
      <4>1. WalkInv /\ phase = "index" /\ len \in 1 .. Len(stack) /\ stack[len].node = t
        BY <1>1 DEF WInv
      <4> QED
        BY <4>1 DEF WalkInv
    <3>2. written[j].left = left(t)
      BY <3>1 DEF WInv, WrittenInv
    <3>3. j \in 1 .. i - 1 /\ written'[j] = written[j]
      BY <1>3, <2>1
    <3>4. /\ written'[i].parent = written'[j].left
          /\ x \in 1 .. Len(Children[written'[j].node])
          /\ written'[i].node = Children[written'[j].node][x]
      BY <1>1, <1>5, <2>1, <3>1, <3>2, <3>3
    <3> QED
      BY <3>3, <3>4
  <2>2. CASE i \in 2 .. n
    <3>1. PICK j \in 1 .. i - 1 :
            /\ written[i].parent = written[j].left
            /\ \E k \in 1 .. Len(Children[written[j].node]) :
                 written[i].node = Children[written[j].node][k]
      BY <2>2 DEF WInv, WrittenInv
    <3>2. written'[i] = written[i] /\ written'[j] = written[j]
      BY <1>3, <2>2
    <3> QED
      BY <3>1, <3>2
  <2>3. i = n + 1 \/ i \in 2 .. n
    BY <1>3
  <2> QED
    BY <2>1, <2>2, <2>3
<1>10. ASSUME NEW i \in 1 .. Len(written'), NEW j \in 1 .. Len(written'), i < j
       PROVE  written'[i].left < written'[j].left
  <2>1. i \in 1 .. n
    BY <1>3, <1>10
  <2>2. CASE j = n + 1
    BY <1>2, <1>3, <1>5, <2>1, <2>2
  <2>3. CASE j \in 1 .. n
    BY <1>3, <1>10, <2>1, <2>3 DEF WInv, WrittenInv
  <2> QED
    BY <1>3, <2>2, <2>3
<1>11. ASSUME NEW p, NEW k \in 1 .. Len(Children[p]), Pending(p, k)
       PROVE  Pending(p, k)' \/ written'[n + 1].node = Children[p][k]
  <2>1. PICK s \in 1 .. len : stack[s].node = p /\ stack[s].next < k
    BY <1>11 DEF Pending
  <2>2. k \in Nat
    BY <1>1, <2>1, ChildNodes
  <2>3. CASE s = len /\ k = x
    BY <1>1, <1>5, <2>1, <2>3
  <2>4. CASE ~(s = len /\ k = x)
    <3>1. stack'[s].node = p /\ stack'[s].next < k
      BY <1>1, <2>1, <2>2, <2>4
    <3>2. s \in 1 .. Len(stack')
      BY <1>1
    <3> QED
      BY <1>1, <3>1, <3>2 DEF Pending
  <2> QED
    BY <2>3, <2>4
<1>12. ASSUME NEW k \in 1 .. Len(Children[c])
       PROVE  Pending(c, k)'
  <2>1. k \in Nat /\ k >= 1
    BY <1>2, ChildNodes
  <2>2. len + 1 \in 1 .. Len(stack')
    BY <1>1
  <2>3. stack'[len + 1].node = c /\ stack'[len + 1].next < k
    BY <1>1, <2>1
  <2> QED
    BY <1>1, <2>2, <2>3 DEF Pending
<1>13. ASSUME NEW j \in 1 .. Len(written'), NEW k \in 1 .. Len(Children[written'[j].node])
       PROVE  \/ Children[written'[j].node][k] \in Blank
              \/ \E i \in 1 .. Len(written') :
                   written'[i].node = Children[written'[j].node][k]
              \/ Pending(written[j].node, k)'
  <2> PICK p : p = written'[j].node
    OBVIOUS
  <2>1. CASE j = n + 1
    <3>1. Pending(p, k)'
      BY <1>5, <1>12, <2>1
    <3> QED
      BY <3>1 DEF Pending
  <2>2. CASE j \in 1 .. n
    <3>1. written[j].node = p
      BY <1>3, <2>2
    <3>2. n + 1 \in 1 .. Len(written')
      BY <1>3
    <3>3. CASE Pending(p, k)
      <4>1. Pending(p, k)' \/ written'[n + 1].node = Children[p][k]
        BY <1>11, <3>3
      <4> QED
        BY <3>2, <4>1 DEF Pending
    <3>4. CASE \E i \in 1 .. n : written[i].node = Children[p][k]
      <4>1. PICK i \in 1 .. n : written[i].node = Children[p][k]
        BY <3>4
      <4>2. i \in 1 .. Len(written') /\ written'[i] = written[i]
        BY <1>3
      <4> QED
        BY <4>1, <4>2
    <3> QED
      BY <2>2, <3>1, <3>3, <3>4 DEF WInv, WrittenInv
  <2> QED
    BY <1>3, <2>1, <2>2
<1> QED
  BY <1>1, <1>4, <1>6, <1>7, <1>8, <1>9, <1>10, <1>13 DEF WrittenInv

(* indexNode writes a child: where the calls are.                          *)
LEMMA IndexWriteWalk ==
  ASSUME IInv, WInv, IndexChild, Child \notin Blank
  PROVE  WalkInv'
<1> PICK t : t = Top.node
  OBVIOUS
<1> PICK c : c = Child
  OBVIOUS
<1> PICK x : x = Top.next + 1
  OBVIOUS
<1> DEFINE len == Len(stack)
           n == Len(written)
<1>1. /\ phase = "index" /\ phase' = "index" /\ c \notin Blank
      /\ userDataMap' = userDataMap
      /\ len \in Nat /\ len >= 1 /\ Len(stack') = len + 1
      /\ stack'[len + 1] = [node |-> c, next |-> 0]
      /\ \A s \in 1 .. len : stack'[s] = Advanced[s]
  BY NextCall
<1>2. \A s \in 1 .. len :
        /\ stack[s].node \in numbered /\ stack[s].next \in Nat
        /\ Advanced[s].node = stack[s].node
        /\ Advanced[s].next = IF s = len THEN stack[s].next + 1 ELSE stack[s].next
  BY NextCall
<1>3. /\ c \in numbered
      /\ \A j \in 1 .. n : written[j].left < left(c)
      /\ \A s \in 1 .. len : \A k \in 1 .. Len(Children[stack[s].node]) :
           Advanced[s].next < k /\ Children[stack[s].node][k] \notin Blank =>
             /\ left(c) < left(Children[stack[s].node][k])
             /\ right(c) < left(Children[stack[s].node][k])
  BY <1>1, NextInOrder
<1>4. /\ n \in Nat /\ Len(written') = n + 1
      /\ written'[n + 1].node = c /\ written'[n + 1].left = left(c)
      /\ \A i \in 1 .. n : written'[i] = written[i]
      /\ \A j \in 1 .. n : written[j].left \in Nat
  <2>1. written \in Seq(LuceneDocument) /\ written' = Append(written, Record(c, left(t)))
    BY <1>1, NextCall
  <2>2. \A j \in 1 .. n : written[j] \in LuceneDocument
    BY <2>1
  <2>3. written'[n + 1] = Record(c, left(t)) /\ n \in Nat /\ Len(written') = n + 1
        /\ \A i \in 1 .. n : written'[i] = written[i]
    BY <2>1
  <2> QED
    BY <2>2, <2>3 DEF Record, left, LuceneDocument
<1>5. ASSUME NEW s \in 1 .. len
      PROVE  /\ \E j \in 1 .. n + 1 : written'[j].node = stack'[s].node
             /\ \A k \in 1 .. Len(Children[stack'[s].node]) :
                  stack'[s].next < k /\ Children[stack'[s].node][k] \notin Blank =>
                    /\ \A j \in 1 .. n + 1 :
                         written'[j].left < left(Children[stack'[s].node][k])
                    /\ \A r \in 1 .. len + 1 : s < r =>
                         right(stack'[r].node) < left(Children[stack'[s].node][k])
  <2>1. stack'[s].node = stack[s].node /\ stack'[s].next = Advanced[s].next
    BY <1>1, <1>2
  <2>2. PICK j \in 1 .. n : written[j].node = stack[s].node
    BY <1>1 DEF WInv, WalkInv
  <2>3. \E i \in 1 .. n + 1 : written'[i].node = stack'[s].node
    <3>1. j \in 1 .. n + 1 /\ written'[j].node = stack'[s].node
      BY <1>4, <2>1, <2>2
    <3> QED
      BY <3>1
  <2>4. ASSUME NEW k \in 1 .. Len(Children[stack[s].node]), Advanced[s].next < k,
               Children[stack[s].node][k] \notin Blank
        PROVE  /\ \A i \in 1 .. n + 1 :
                    written'[i].left < left(Children[stack[s].node][k])
               /\ \A r \in 1 .. len + 1 : s < r =>
                    right(stack'[r].node) < left(Children[stack[s].node][k])
    <3> PICK d : d = Children[stack[s].node][k]
      OBVIOUS
    <3>1. left(c) < left(d) /\ right(c) < left(d)
      BY <1>3, <2>4
    <3>2. stack[s].next < k
      <4>1. k \in Nat
        BY <1>2, Numbers, ChildNodes
      <4> QED
        BY <1>2, <2>4, <4>1
    <3>3. /\ \A i \in 1 .. n : written[i].left < left(d)
          /\ \A r \in 1 .. len : s < r => right(stack[r].node) < left(d)
      BY <1>1, <2>4, <3>2 DEF WInv, WalkInv
    <3>4. \A i \in 1 .. n + 1 : written'[i].left < left(d)
      BY <1>4, <3>1, <3>3
    <3>5. \A r \in 1 .. len + 1 : s < r => right(stack'[r].node) < left(d)
      <4>1. SUFFICES ASSUME NEW r \in 1 .. len + 1, s < r
                     PROVE  right(stack'[r].node) < left(d)
        OBVIOUS
      <4>2. CASE r = len + 1
        BY <1>1, <3>1, <4>2
      <4>3. CASE r \in 1 .. len
        <5>1. stack'[r].node = stack[r].node
          BY <1>1, <1>2, <4>3
        <5> QED
          BY <3>3, <4>1, <4>3, <5>1
      <4> QED
        BY <1>1, <4>2, <4>3
    <3> QED
      BY <3>4, <3>5
  <2> QED
    BY <2>1, <2>3, <2>4
<1>6. /\ \E j \in 1 .. n + 1 : written'[j].node = c
      /\ \A k \in 1 .. Len(Children[c]) : Children[c][k] \notin Blank =>
           \A j \in 1 .. n + 1 : written'[j].left < left(Children[c][k])
  <2>1. n + 1 \in 1 .. n + 1
    BY <1>4
  <2>2. ASSUME NEW k \in 1 .. Len(Children[c]), Children[c][k] \notin Blank,
               NEW j \in 1 .. n + 1
        PROVE  written'[j].left < left(Children[c][k])
    <3> PICK d : d = Children[c][k]
      OBVIOUS
    <3>1. d \in numbered
      BY <1>1, <1>3, <2>2, ChildNumbered
    <3>2. left(c) < left(d)
      BY <1>1, <1>3, <3>1, ChildInterval
    <3>3. left(c) \in Nat /\ left(d) \in Nat
      BY <1>3, <3>1, Numbers
    <3>4. CASE j = n + 1
      BY <1>4, <3>2, <3>4
    <3>5. CASE j \in 1 .. n
      <4>1. written'[j].left < left(c) /\ written'[j].left \in Nat
        BY <1>3, <1>4, <3>5
      <4> QED
        BY <3>2, <3>3, <4>1
    <3> QED
      BY <1>4, <3>4, <3>5
  <2> QED
    BY <1>4, <2>1, <2>2
<1>7. \A m : left(m)' = left(m) /\ right(m)' = right(m)
  BY <1>1 DEF left, right
<1>8. ASSUME NEW s \in 1 .. Len(stack')
      PROVE  /\ \E j \in 1 .. Len(written') : written'[j].node = stack'[s].node
             /\ \A k \in 1 .. Len(Children[stack'[s].node]) :
                  stack'[s].next < k /\ Children[stack'[s].node][k] \notin Blank =>
                    /\ \A j \in 1 .. Len(written') :
                         written'[j].left < left(Children[stack'[s].node][k])
                    /\ \A r \in 1 .. Len(stack') : s < r =>
                         right(stack'[r].node) < left(Children[stack'[s].node][k])
  <2>1. CASE s \in 1 .. len
    BY <1>1, <1>4, <1>5, <2>1
  <2>2. CASE s = len + 1
    <3>1. stack'[s].node = c /\ \A r \in 1 .. Len(stack') : ~(s < r)
      BY <1>1, <2>2
    <3> QED
      BY <1>4, <1>6, <3>1
  <2> QED
    BY <1>1, <2>1, <2>2
<1> QED
  BY <1>7, <1>8 DEF WalkInv

(* indexNode on a child.                                                   *)
LEMMA IndexChildOrder ==
  ASSUME IInv, WInv, IndexChild
  PROVE  WInv'
<1>1. CASE Child \in Blank
  BY <1>1, IndexSkipOrder
<1>2. CASE Child \notin Blank
  <2>1. /\ phase = "index" /\ phase' = "index"
        /\ UNCHANGED <<root, base, userDataMap, nodeCounter, numbered>>
    BY DEF IndexChild
  <2>2. KinInv' /\ CountInv'
    BY <2>1, SettledOrder DEF WInv
  <2> QED
    BY <1>2, <2>2, IndexWriteWritten, IndexWriteWalk DEF WInv
<1> QED
  BY <1>1, <1>2

(* indexNode returns: it has come to all children.                         *)
LEMMA IndexReturnOrder ==
  ASSUME IInv, WInv, IndexReturn
  PROVE  WInv'
<1> DEFINE len == Len(stack)
<1>1. /\ TypeOK /\ stack # << >> /\ phase = "index"
      /\ phase' = IF len = 1 THEN "idle" ELSE "index"
      /\ Top.next = Len(Children[Top.node])
      /\ UNCHANGED <<root, base, userDataMap, nodeCounter, numbered, written>>
      /\ stack' = Pop
  BY DEF IInv, IndexReturn, Returns
<1>2. /\ len \in Nat /\ len >= 1 /\ Len(stack') = len - 1
      /\ \A i \in 1 .. len - 1 : stack'[i] = stack[i]
  BY <1>1, PoppedStack DEF TypeOK
<1>3. phase' # "number" /\ KinInv' /\ CountInv'
  BY <1>1, SettledOrder DEF WInv
<1>4. Top = stack[len] /\ \A i \in 1 .. len : stack[i].node \in Nodes
  BY <1>1, <1>2, Numbers DEF Top, IInv, CallsInv
<1>5. ASSUME NEW p, NEW k \in 1 .. Len(Children[p]), Pending(p, k)
      PROVE  Pending(p, k)'
  <2>1. PICK s \in 1 .. len : stack[s].node = p /\ stack[s].next < k
    BY <1>5 DEF Pending
  <2>2. k \in Nat /\ k <= Len(Children[p]) /\ Len(Children[p]) \in Nat
    BY <1>4, <2>1, ChildNodes
  <2>3. s # len
    BY <1>1, <1>4, <2>1, <2>2
  <2>4. s \in 1 .. len - 1 /\ len # 1
    BY <1>2, <2>3
  <2> QED
    BY <1>1, <1>2, <2>1, <2>4 DEF Pending
<1>6. written # << >> /\ (phase' = "index" => stack' # << >>)
  BY <1>1, <1>2 DEF WInv, WrittenInv
<1>7. WrittenInv'
  <2>1. \A j \in 1 .. Len(written') : \A k \in 1 .. Len(Children[written'[j].node]) :
          \/ Children[written'[j].node][k] \in Blank
          \/ \E i \in 1 .. Len(written') : written'[i].node = Children[written'[j].node][k]
          \/ Pending(written[j].node, k)'
    <3>1. SUFFICES ASSUME NEW j \in 1 .. Len(written),
                          NEW k \in 1 .. Len(Children[written[j].node]),
                          Children[written[j].node][k] \notin Blank,
                          ~ \E i \in 1 .. Len(written) :
                              written[i].node = Children[written[j].node][k]
                   PROVE  Pending(written[j].node, k)'
      BY <1>1
    <3> PICK p : p = written[j].node
      OBVIOUS
    <3>2. Pending(p, k)
      BY <3>1 DEF WInv, WrittenInv
    <3>3. Pending(p, k)'
      BY <1>5, <3>1, <3>2
    <3>4. p = written'[j].node
      BY <1>1
    <3> QED
      BY <3>3, <3>4 DEF Pending
  <2>2. /\ phase' = "number" => written' = << >>
        /\ phase' = "index" => (stack' = << >> <=> written' = << >>)
        /\ written' # << >> => written'[1].node = root'
    BY <1>1, <1>6 DEF WInv, WrittenInv
  <2>3. \A i \in 1 .. Len(written') :
          /\ written'[i].node \in numbered'
          /\ written'[i].left = left(written[i].node)'
          /\ written'[i].right = right(written[i].node)'
          /\ written'[i].docLeft = left(root)'
          /\ written'[i].docRight = right(root)'
    BY <1>1 DEF WInv, WrittenInv, left, right
  <2>4. /\ \A i \in 2 .. Len(written') : \E j \in 1 .. i - 1 :
             /\ written'[i].parent = written'[j].left
             /\ \E k \in 1 .. Len(Children[written'[j].node]) :
                  written'[i].node = Children[written'[j].node][k]
        /\ \A i, j \in 1 .. Len(written') : i < j => written'[i].left < written'[j].left
    BY <1>1 DEF WInv, WrittenInv
  <2> QED
    BY <2>1, <2>2, <2>3, <2>4 DEF WrittenInv
<1>8. WalkInv'
  <2>1. \A s \in 1 .. Len(stack') : s \in 1 .. len /\ stack'[s] = stack[s]
    BY <1>2
  <2>2. \A m : left(m)' = left(m) /\ right(m)' = right(m)
    BY <1>1 DEF left, right
  <2>3. ASSUME NEW s \in 1 .. Len(stack')
        PROVE  /\ \E j \in 1 .. Len(written) : written[j].node = stack[s].node
               /\ \A k \in 1 .. Len(Children[stack[s].node]) :
                    stack[s].next < k /\ Children[stack[s].node][k] \notin Blank =>
                      /\ \A j \in 1 .. Len(written) :
                           written[j].left < left(Children[stack[s].node][k])
                      /\ \A r \in 1 .. len : s < r =>
                           right(stack[r].node) < left(Children[stack[s].node][k])
    BY <1>1, <2>1 DEF WInv, WalkInv
  <2>4. ASSUME NEW s \in 1 .. Len(stack')
        PROVE  /\ \E j \in 1 .. Len(written') : written'[j].node = stack'[s].node
               /\ \A k \in 1 .. Len(Children[stack'[s].node]) :
                    stack'[s].next < k /\ Children[stack'[s].node][k] \notin Blank =>
                      /\ \A j \in 1 .. Len(written') :
                           written'[j].left < left(Children[stack'[s].node][k])
                      /\ \A r \in 1 .. Len(stack') : s < r =>
                           right(stack'[r].node) < left(Children[stack'[s].node][k])
    BY <1>1, <2>1, <2>3
  <2> QED
    BY <2>2, <2>4 DEF WalkInv
<1> QED
  BY <1>3, <1>7, <1>8 DEF WInv

(* While nothing is written no walk is under way.                          *)
LEMMA NothingWritten ==
  ASSUME written = << >>, phase = "index" => stack = << >>
  PROVE  WrittenInv /\ WalkInv
<1>1. Len(written) = 0 /\ 1 .. Len(written) = {} /\ 2 .. Len(written) = {}
  OBVIOUS
<1>2. WrittenInv
  BY <1>1 DEF WrittenInv
<1>3. phase = "index" => 1 .. Len(stack) = {}
  OBVIOUS
<1>4. WalkInv
  BY <1>3 DEF WalkInv
<1> QED
  BY <1>2, <1>4

LEMMA NothingWrittenThen ==
  (written = << >> /\ (phase = "index" => stack = << >>) => WrittenInv /\ WalkInv)'
<1>1. written = << >> /\ (phase = "index" => stack = << >>) => WrittenInv /\ WalkInv
  BY NothingWritten
<1> QED
  BY <1>1, PTL

(* numberNode.                                                             *)
LEMMA NumberChildOrder ==
  ASSUME IInv, WInv, NumberChild
  PROVE  WInv'
<1>1. phase' = "number" /\ written' = << >>
  BY DEF NumberChild, WInv, WrittenInv
<1>2. WrittenInv' /\ WalkInv'
  BY <1>1, NothingWrittenThen
<1>3. KinInv' /\ CountInv'
  BY SkipBlankOrder, NumberChildKin, NumberChildCount DEF WInv
<1> QED
  BY <1>2, <1>3 DEF WInv

LEMMA NumberReturnOrder ==
  ASSUME IInv, WInv, NumberReturn
  PROVE  WInv'
<1> PICK t : t = Top.node
  OBVIOUS
<1>1. written' = << >>
  BY DEF NumberReturn, WInv, WrittenInv
<1>2. phase' = "index" => stack' = << >>
  <2>1. /\ Len(stack) = 1 => stack' = << >>
        /\ Len(stack) # 1 => phase' = "number"
    BY DoneNode
  <2> QED
    BY <2>1
<1>3. WrittenInv' /\ WalkInv'
  BY <1>1, <1>2, NothingWrittenThen
<1> QED
  BY <1>3, NumberReturnKin, NumberReturnCount DEF WInv

(* numberNode is called on the document element.                           *)
LEMMA BeginOrder ==
  ASSUME IInv, NEW r \in Roots, NEW isStream \in BOOLEAN, Begin(r, isStream)
  PROVE  WInv'
<1> DEFINE frame == [node |-> r, next |-> 0]
           data == [depth |-> 2, left |-> nodeCounter, right |-> 0]
           old == IF isStream THEN << >> ELSE userDataMap
<1>1. /\ phase' = "number" /\ root' = r /\ base' = nodeCounter
      /\ nodeCounter' = nodeCounter + 1 /\ nodeCounter \in Nat
      /\ userDataMap' = Put(old, r, data)
      /\ stack' = << frame >> /\ numbered' = {r} /\ written' = << >>
  BY DEF IInv, TypeOK, Begin
<1>2. userDataMap'[r].left = nodeCounter
  BY <1>1 DEF Put
<1>3. Len(stack') = 1 /\ stack'[1].node = r /\ r \in Nodes
  BY <1>1, ForestAssumption
<1>4. OpenNodes' = {r}
  BY <1>1, <1>3 DEF OpenNodes
<1>5. \A k \in 1 .. Len(Children[r]) : Children[r][k] \notin numbered'
  BY <1>1, <1>3, ChildNodes
<1>6. KinInv'
  BY <1>1, <1>5, ForestAssumption DEF KinInv
<1>7. IsFiniteSet(numbered') /\ Cardinality(numbered') = 1
  BY <1>1, FS_Singleton
<1>8. CountInv'
  BY <1>1, <1>2, <1>3, <1>4, <1>7 DEF CountInv, left
<1> QED
  BY <1>1, <1>6, <1>8, NothingWrittenThen DEF WInv

(* The other steps.                                                        *)
LEMMA FailOrder ==
  ASSUME WInv, Fail
  PROVE  WInv'
<1>1. /\ phase = "index" /\ phase' = "idle" /\ written' = << >>
      /\ UNCHANGED <<root, base, userDataMap, numbered>>
  BY DEF Fail
<1>2. KinInv' /\ CountInv'
  BY <1>1, SettledOrder DEF WInv
<1> QED
  BY <1>1, <1>2, NothingWrittenThen DEF WInv

LEMMA NothingNumberedOrder ==
  ASSUME phase' = "idle", numbered' = {}, written' = << >>
  PROVE  WInv'
<1>1. KinInv' /\ CountInv'
  BY FS_EmptySet DEF KinInv, CountInv, InHand
<1> QED
  BY <1>1, NothingWrittenThen DEF WInv

LEMMA InitOrder == Init => WInv
<1> SUFFICES ASSUME Init PROVE WInv
  OBVIOUS
<1>1. phase = "idle" /\ numbered = {} /\ written = << >>
  BY DEF Init
<1>2. KinInv /\ CountInv
  BY <1>1, FS_EmptySet DEF KinInv, CountInv, InHand
<1> QED
  BY <1>1, <1>2, NothingWritten DEF WInv

LEMMA StepOrder == IInv /\ WInv /\ [Next]_vars => WInv'
<1> SUFFICES ASSUME IInv, WInv, [Next]_vars PROVE WInv'
  OBVIOUS
<1>1. CASE \E r \in Roots, isStream \in BOOLEAN : Begin(r, isStream)
  BY <1>1, BeginOrder
<1>2. CASE ParseError \/ Error
  BY <1>2, NothingNumberedOrder DEF ParseError, Error
<1>3. CASE NumberChild
  BY <1>3, NumberChildOrder
<1>4. CASE NumberReturn
  BY <1>4, NumberReturnOrder
<1>5. CASE IndexRoot
  BY <1>5, IndexRootOrder
<1>6. CASE IndexChild
  BY <1>6, IndexChildOrder
<1>7. CASE IndexReturn
  BY <1>7, IndexReturnOrder
<1>8. CASE Fail
  BY <1>8, FailOrder
<1>9. CASE UNCHANGED vars
  <2>1. OpenNodes' = OpenNodes
    BY <1>9 DEF vars, OpenNodes
  <2>2. KinInv' /\ CountInv'
    BY <1>9, <2>1 DEF vars, WInv, KinInv, CountInv, InHand, left, right
  <2>3. WrittenInv' = WrittenInv
    BY <1>9 DEF vars, WrittenInv, Pending, left, right
  <2>4. WalkInv'
    BY <1>9 DEF vars, WInv, WalkInv, left, right
  <2> QED
    BY <2>2, <2>3, <2>4 DEF WInv
<1> QED
  BY <1>1, <1>2, <1>3, <1>4, <1>5, <1>6, <1>7, <1>8, <1>9 DEF Next

(* The second inductive invariant holds.                                   *)
THEOREM OrderInvariant == Spec => []WInv
<1>1. Init => IInv /\ WInv
  BY InitInv, InitOrder
<1>2. (IInv /\ WInv) /\ [Next]_vars => (IInv /\ WInv)'
  BY StepInv, StepOrder
<1> QED
  BY <1>1, <1>2, PTL DEF Spec

(* In every document, of whatever shape, the parent number of a node names *)
(* the innermost interval around it: the child axis and the ancestor axis  *)
(* see the same tree.                                                      *)
THEOREM ParentsAreInnermost == Spec => []ParentIsInnermost
<1>1. ASSUME IInv, WInv, NEW i \in 2 .. Len(written)
      PROVE  LET Around == {j \in 1 .. Len(written) :
                              /\ written[j].left < written[i].left
                              /\ written[i].right < written[j].right}
             IN  \E j \in Around :
                   /\ written[j].left = written[i].parent
                   /\ \A k \in Around : written[k].left <= written[j].left
  <2> DEFINE Around == {j \in 1 .. Len(written) :
                          /\ written[j].left < written[i].left
                          /\ written[i].right < written[j].right}
  <2>1. phase # "number" /\ OpenNodes = {}
    BY <1>1 DEF WInv, WrittenInv, OpenNodes
  <2>2. PICK j \in 1 .. i - 1 :
          /\ written[i].parent = written[j].left
          /\ \E k \in 1 .. Len(Children[written[j].node]) :
               written[i].node = Children[written[j].node][k]
    BY <1>1 DEF WInv, WrittenInv
  <2> PICK p : p = written[j].node
    OBVIOUS
  <2> PICK c : c = written[i].node
    OBVIOUS
  <2>3. PICK k \in 1 .. Len(Children[p]) : c = Children[p][k]
    BY <2>2
  <2>4. written \in Seq(LuceneDocument)
    BY <1>1 DEF IInv, TypeOK
  <2>5. i \in 1 .. Len(written) /\ j \in 1 .. Len(written)
    BY <2>4
  <2>6. \A h \in 1 .. Len(written) :
          /\ written[h].node \in numbered
          /\ written[h].left = left(written[h].node)
          /\ written[h].right = right(written[h].node)
    BY <1>1 DEF WInv, WrittenInv
  <2>7. p \in numbered /\ c \in numbered
    BY <2>5, <2>6
  <2>8. left(p) < left(c) /\ left(c) < right(c) /\ right(c) < right(p)
    BY <1>1, <2>1, <2>3, <2>7, ChildInterval
  <2>9. j \in Around
    BY <2>5, <2>6, <2>8
  <2>10. ASSUME NEW h \in Around
         PROVE  written[h].left <= written[j].left
    <3> PICK m : m = written[h].node
      OBVIOUS
    <3>1. m \in numbered /\ left(m) < left(c) /\ right(c) < right(m)
      BY <2>5, <2>6, <2>10
    <3>2. left(c) \in Nat /\ right(c) \in Nat /\ right(m) \in Nat
      BY <1>1, <2>7, <3>1, Numbers
    <3>3. left(c) < right(m)
      BY <2>8, <3>1, <3>2
    <3>4. left(m) <= left(p)
      BY <1>1, <2>3, <2>7, <3>1, <3>3 DEF WInv, KinInv
    <3> QED
      BY <2>5, <2>6, <3>4
  <2> QED
    BY <2>2, <2>9, <2>10
<1>2. IInv /\ WInv => ParentIsInnermost
  BY <1>1 DEF ParentIsInnermost
<1> QED
  BY <1>2, Invariant, OrderInvariant, PTL

(* A set of numbers that is not empty has a smallest one.                  *)
LEMMA Smallest ==
  ASSUME NEW T \in SUBSET Nat, T # {}
  PROVE  \E x \in T : \A y \in T : x <= y
<1> DEFINE R == {ss \in Nat \X Nat : ss[1] < ss[2]}
<1>1. IsWellFoundedOn(R, Nat)
  BY NatLessThanWellFounded DEF OpToRel
<1> HIDE DEF R
<1>2. PICK x \in T : \A y \in T : ~ (<<y, x>> \in R)
  BY <1>1, WFMin
<1>3. \A y \in T : ~ (y < x)
  BY <1>2 DEF R
<1> QED
  BY <1>3

(* What a written node says.                                               *)
LEMMA WrittenNode ==
  ASSUME IInv, WInv, NEW i \in 1 .. Len(written)
  PROVE  /\ Len(written) \in Nat
         /\ written[i].node \in numbered
         /\ written[i].left = left(written[i].node)
         /\ written[i].right = right(written[i].node)
         /\ written[i].docLeft = left(root) /\ written[i].docRight = right(root)
         /\ written[i].left \in Nat /\ written[i].right \in Nat
<1>1. Len(written) \in Nat
  BY DEF IInv, TypeOK
<1>2. /\ written[i].node \in numbered
      /\ written[i].left = left(written[i].node)
      /\ written[i].right = right(written[i].node)
      /\ written[i].docLeft = left(root) /\ written[i].docRight = right(root)
  BY DEF WInv, WrittenInv
<1> QED
  BY <1>1, <1>2, Numbers

(* When indexNode has returned from the document element, every numbered   *)
(* node is written: of those that are not, the one with the smallest left  *)
(* number would have a written parent.                                     *)
LEMMA AllWritten ==
  ASSUME IInv, WInv, phase = "idle", written # << >>, NEW n \in numbered
  PROVE  \E i \in 1 .. Len(written) : written[i].node = n
<1> DEFINE IsWritten(m) == \E i \in 1 .. Len(written) : written[i].node = m
           Missing == {m \in numbered : ~ IsWritten(m)}
           Lefts == {left(m) : m \in Missing}
<1>1. SUFFICES ASSUME ~ IsWritten(n) PROVE FALSE
  OBVIOUS
<1>2. Lefts \in SUBSET Nat /\ Lefts # {}
  BY <1>1, Numbers
<1>3. PICK x \in Lefts : \A y \in Lefts : x <= y
  <2> HIDE DEF Lefts
  <2> QED
    BY <1>2, Smallest
<1>4. PICK m \in Missing : x = left(m)
  BY <1>3
<1>5. m \in numbered /\ ~ IsWritten(m)
  OBVIOUS
<1>6. written[1].node = root /\ 1 \in 1 .. Len(written)
  <2>1. Len(written) \in Nat /\ Len(written) # 0
    BY DEF IInv, TypeOK
  <2> QED
    BY <2>1 DEF WInv, WrittenInv
<1>7. m # root
  BY <1>5, <1>6
<1>8. PICK p \in numbered : \E k \in 1 .. Len(Children[p]) : m = Children[p][k]
  BY <1>5, <1>7 DEF WInv, KinInv
<1>9. PICK k \in 1 .. Len(Children[p]) : m = Children[p][k]
  BY <1>8
<1>10. left(p) < left(m) /\ left(p) \in Nat /\ left(m) \in Nat
  BY <1>5, <1>9, Numbers DEF IInv, EdgeInv
<1>11. IsWritten(p)
  <2>1. SUFFICES ASSUME p \in Missing PROVE FALSE
    OBVIOUS
  <2>2. left(m) <= left(p)
    BY <1>3, <1>4, <2>1
  <2> QED
    BY <1>10, <2>2
<1>12. PICK j \in 1 .. Len(written) : written[j].node = p
  BY <1>11
<1>13. m \notin Blank
  BY <1>5 DEF WInv, KinInv
<1>14. ~ Pending(p, k)
  BY DEF Pending
<1>15. m \in Blank \/ IsWritten(m) \/ Pending(p, k)
  BY <1>9, <1>12 DEF WInv, WrittenInv
<1> QED
  BY <1>5, <1>13, <1>14, <1>15

(* ... and once: there are as many documents as nodes.                     *)
LEMMA WrittenOnce ==
  ASSUME IInv, WInv, phase = "idle", written # << >>
  PROVE  Len(written) \in Nat /\ Len(written) > 0 /\ Cardinality(numbered) = Len(written)
<1>1. Len(written) \in Nat /\ Len(written) > 0
  BY DEF IInv, TypeOK
<1> DEFINE f == [i \in 1 .. Len(written) |-> written[i].node]
<1>2. f \in [1 .. Len(written) -> numbered]
  BY WrittenNode
<1>3. \A n \in numbered : \E i \in 1 .. Len(written) : f[i] = n
  BY AllWritten
<1>4. ASSUME NEW i \in 1 .. Len(written), NEW j \in 1 .. Len(written), f[i] = f[j]
      PROVE  i = j
  <2>1. written[i].left = written[j].left /\ written[i].left \in Nat
    BY <1>4, WrittenNode
  <2>2. ~(i < j) /\ ~(j < i)
    <3>1. i < j => written[i].left < written[j].left
      BY DEF WInv, WrittenInv
    <3>2. j < i => written[j].left < written[i].left
      BY DEF WInv, WrittenInv
    <3> QED
      BY <2>1, <3>1, <3>2
  <2> QED
    BY <1>1, <2>2
<1> HIDE DEF f
<1>5. f \in Bijection(1 .. Len(written), numbered)
  BY <1>2, <1>3, <1>4 DEF Bijection, Injection, Surjection, IsInjective
<1>6. ExistsBijection(1 .. Len(written), numbered)
  BY <1>5 DEF ExistsBijection
<1> QED
  BY <1>1, <1>6, FS_CountingElements

(* A function on the first n positive numbers is a sequence of length n.   *)
LEMMA FunctionIsSeq ==
  ASSUME NEW S, NEW n \in Nat, NEW f \in [1 .. n -> S]
  PROVE  f \in Seq(S) /\ Len(f) = n
<1>1. f \in Seq(S)
  BY SeqDef
<1>2. Len(f) \in Nat /\ 1 .. Len(f) = 1 .. n
  BY <1>1, LenProperties
<1>3. Len(f) = n
  <2>1. Len(f) >= 1 => Len(f) \in 1 .. n
    BY <1>2
  <2>2. n >= 1 => n \in 1 .. Len(f)
    BY <1>2
  <2> QED
    BY <1>2, <2>1, <2>2
<1> QED
  BY <1>1, <1>3

-----------------------------------------------------------------------------
(* Document order and nesting, when a document is indexed.                 *)

(* What the invariants say of the tree then: the nodes written are those   *)
(* numbered; each but the root is a kept child and inside its parent,      *)
(* which is the innermost node around it; siblings are apart.              *)
LEMMA FinishedTree ==
  ASSUME IInv, WInv, Finished
  PROVE  /\ Present = numbered /\ IsFiniteSet(numbered)
         /\ root \in numbered
         /\ \A n \in numbered :
              /\ n \in Nodes /\ left(n) \in Nat /\ right(n) \in Nat
              /\ left(root) <= left(n) /\ left(n) < right(n)
              /\ right(n) <= right(root)
              /\ Kept(n) \subseteq numbered
         /\ \A m, n \in numbered :
              /\ left(m) = left(n) => m = n
              /\ left(m) < left(n) => right(m) < left(n) \/ right(n) < right(m)
         /\ \A n \in numbered : n # root =>
              \E p \in numbered : \E k \in 1 .. Len(Children[p]) : n = Children[p][k]
         /\ \A p \in numbered : \A k \in 1 .. Len(Children[p]) :
              Children[p][k] \in numbered =>
                /\ Children[p][k] \in Kept(p)
                /\ left(p) < left(Children[p][k])
                /\ right(Children[p][k]) < right(p)
                /\ \A m \in numbered :
                     left(m) < left(Children[p][k]) /\ left(Children[p][k]) < right(m)
                       => left(m) <= left(p)
                /\ \A h \in 1 .. Len(Children[p]) :
                     k < h /\ Children[p][h] \in numbered
                       => right(Children[p][k]) < left(Children[p][h])
<1>1. phase = "idle" /\ written # << >> /\ OpenNodes = {}
  BY DEF Finished, OpenNodes
<1>2. Present = numbered
  BY <1>1, AllWritten, WrittenNode DEF Present
<1>3. /\ IsFiniteSet(numbered) /\ root \in numbered
      /\ right(root) = nodeCounter - 1
      /\ \A n \in numbered : left(root) <= left(n) /\ right(n) < nodeCounter
  BY <1>1 DEF WInv, CountInv, InHand
<1>4. /\ nodeCounter \in Nat
      /\ \A n \in numbered : n \in Nodes /\ left(n) \in Nat /\ right(n) \in Nat
  BY Numbers
<1>5. \A n \in numbered : right(n) <= right(root)
  BY <1>3, <1>4
<1>6. /\ \A n \in numbered : left(n) < right(n)
      /\ \A m, n \in numbered :
           left(m) < left(n) => right(m) < left(n) \/ right(n) < right(m)
  BY <1>1 DEF IInv, IntervalInv
<1>7. ASSUME NEW p \in numbered, NEW c \in Kept(p)
      PROVE  c \in numbered
  <2>1. PICK k \in 1 .. Len(Children[p]) : c = Children[p][k]
    BY <1>7 DEF Kept
  <2>2. PICK j \in 1 .. Len(written) : written[j].node = p
    BY <1>1, AllWritten
  <2>3. \/ Children[p][k] \in Blank
        \/ \E i \in 1 .. Len(written) : written[i].node = Children[p][k]
        \/ Pending(p, k)
    BY <2>1, <2>2 DEF WInv, WrittenInv
  <2>4. ~Pending(p, k) /\ c \notin Blank
    BY <1>1, <1>7 DEF Pending, Kept
  <2> QED
    BY <2>1, <2>3, <2>4, WrittenNode
<1>8. ASSUME NEW m \in numbered, NEW n \in numbered, left(m) = left(n)
      PROVE  m = n
  <2>1. PICK i \in 1 .. Len(written) : written[i].node = m
    BY <1>1, AllWritten
  <2>2. PICK j \in 1 .. Len(written) : written[j].node = n
    BY <1>1, AllWritten
  <2>3. /\ written[i].left = left(m) /\ written[j].left = left(m) /\ left(m) \in Nat
        /\ i < j => written[i].left < written[j].left
        /\ j < i => written[j].left < written[i].left
    BY <1>4, <1>8, <2>1, <2>2, WrittenNode DEF WInv, WrittenInv
  <2>4. ~(i < j) /\ ~(j < i)
    BY <2>3
  <2> QED
    BY <2>1, <2>2, <2>4
<1>9. \A n \in numbered : n # root =>
        \E p \in numbered : \E k \in 1 .. Len(Children[p]) : n = Children[p][k]
  BY DEF WInv, KinInv
<1>10. ASSUME NEW p \in numbered, NEW k \in 1 .. Len(Children[p]),
              Children[p][k] \in numbered
       PROVE  /\ Children[p][k] \in Kept(p)
              /\ left(p) < left(Children[p][k])
              /\ right(Children[p][k]) < right(p)
              /\ \A m \in numbered :
                   left(m) < left(Children[p][k]) /\ left(Children[p][k]) < right(m)
                     => left(m) <= left(p)
              /\ \A h \in 1 .. Len(Children[p]) :
                   k < h /\ Children[p][h] \in numbered
                     => right(Children[p][k]) < left(Children[p][h])
  <2>1. Children[p][k] \in Kept(p)
    BY <1>10 DEF Kept, WInv, KinInv
  <2>2. left(p) < left(Children[p][k]) /\ right(Children[p][k]) < right(p)
    BY <1>1, <1>10, ChildInterval
  <2>3. /\ \A m \in numbered :
             left(m) < left(Children[p][k]) /\ left(Children[p][k]) < right(m)
               => left(m) <= left(p)
        /\ \A h \in 1 .. Len(Children[p]) :
             k < h /\ Children[p][h] \in numbered
               => right(Children[p][k]) < left(Children[p][h])
    BY <1>10 DEF WInv, KinInv
  <2> QED
    BY <2>1, <2>2, <2>3
<1> QED
  BY <1>2, <1>3, <1>4, <1>5, <1>6, <1>7, <1>8, <1>9, <1>10

(* A written node other than the document element: its parent is written   *)
(* before it and around it, and no node between the two is around it.      *)
LEMMA WrittenKin ==
  ASSUME IInv, WInv, Finished, NEW i \in 2 .. Len(written)
  PROVE  /\ \E j \in 1 .. i - 1 :
              /\ j \in 1 .. Len(written)
              /\ written[i].parent = written[j].left
              /\ written[j].left < written[i].left
              /\ written[i].right < written[j].right
         /\ \A h \in 1 .. Len(written) :
              written[h].left < written[i].left =>
                \/ written[h].right < written[i].left
                \/ written[i].right < written[h].right /\ written[h].left <= written[i].parent
<1>1. Len(written) \in Nat /\ i \in 1 .. Len(written)
  BY DEF IInv, TypeOK
<1>2. PICK j \in 1 .. i - 1 :
        /\ written[i].parent = written[j].left
        /\ \E k \in 1 .. Len(Children[written[j].node]) :
             written[i].node = Children[written[j].node][k]
  BY DEF WInv, WrittenInv
<1>3. PICK k \in 1 .. Len(Children[written[j].node]) :
        written[i].node = Children[written[j].node][k]
  BY <1>2
<1>4. j \in 1 .. Len(written)
  BY <1>1
<1> DEFINE p == written[j].node
           n == written[i].node
<1>5. /\ p \in numbered /\ n \in numbered
      /\ written[j].left = left(p) /\ written[j].right = right(p)
      /\ written[i].left = left(n) /\ written[i].right = right(n)
  BY <1>1, <1>4, WrittenNode
<1>6. /\ left(p) < left(n) /\ right(n) < right(p)
      /\ \A m \in numbered : left(m) < left(n) /\ left(n) < right(m) => left(m) <= left(p)
  BY <1>3, <1>5, FinishedTree
<1>7. ASSUME NEW h \in 1 .. Len(written), written[h].left < written[i].left
      PROVE  \/ written[h].right < written[i].left
             \/ written[i].right < written[h].right /\ written[h].left <= written[i].parent
  <2> DEFINE m == written[h].node
  <2>1. m \in numbered /\ written[h].left = left(m) /\ written[h].right = right(m)
    BY WrittenNode
  <2>2. right(m) < left(n) \/ right(n) < right(m)
    BY <1>5, <1>7, <2>1, FinishedTree
  <2>3. /\ left(n) \in Nat /\ right(n) \in Nat /\ right(m) \in Nat
        /\ left(n) < right(n)
    BY <1>5, <2>1, FinishedTree
  <2>4. right(n) < right(m) => left(m) <= left(p)
    BY <1>5, <1>6, <1>7, <2>1, <2>3
  <2> QED
    BY <1>2, <1>5, <2>1, <2>2, <2>4
<1> QED
  BY <1>2, <1>4, <1>5, <1>6, <1>7

(* In every document, of whatever shape: what was indexed without an       *)
(* exception is a numbered tree, as NodeStore takes it for granted, with   *)
(* two numbers for each node, all of them new.                             *)
THEOREM FinishedDocuments == Spec => []FinishedIsNumbered
<1>1. ASSUME IInv, WInv, phase = "idle", written # << >>
      PROVE  /\ Numbered(Relative)
             /\ nodeCounter = base + 2 * Len(written)
             /\ \A i \in 1 .. Len(written) :
                  written[i].docLeft = base /\ written[i].docRight = nodeCounter - 1
  <2> DEFINE n == Len(written)
             t == Relative
  <2>0. Finished
    BY <1>1 DEF Finished
  <2>1. n \in Nat /\ n > 0 /\ Cardinality(numbered) = n /\ 1 \in 1 .. n
    BY <1>1, WrittenOnce
  <2>2. OpenNodes = {} /\ nodeCounter \in Nat /\ base \in Nat
    BY <1>1, Numbers DEF OpenNodes
  <2>3. /\ left(root) = base /\ right(root) = nodeCounter - 1
        /\ nodeCounter = base + 2 * n
        /\ \A m \in numbered : base <= left(m) /\ left(m) < right(m) /\ right(m) < nodeCounter
    <3>1. /\ left(root) = base /\ right(root) = nodeCounter - 1
          /\ nodeCounter = base + 2 * Cardinality(numbered)
          /\ \A m \in numbered : base <= left(m)
          /\ \A m \in numbered : right(m) < nodeCounter
      BY <1>1, <2>2 DEF WInv, CountInv, InHand
    <3>2. \A m \in numbered : left(m) < right(m)
      BY <1>1, <2>2 DEF IInv, IntervalInv
    <3> QED
      BY <2>1, <3>1, <3>2
  <2>4. ASSUME NEW i \in 1 .. n
        PROVE  /\ written[i].left \in Nat /\ written[i].right \in Nat
               /\ base <= written[i].left /\ written[i].left < written[i].right
               /\ written[i].right < nodeCounter
               /\ written[i].docLeft = base /\ written[i].docRight = nodeCounter - 1
    BY <1>1, <2>3, WrittenNode
  <2>5. ASSUME NEW i \in 2 .. n
        PROVE  \E j \in 1 .. i - 1 : j \in 1 .. n /\ written[i].parent = written[j].left
    <3>1. PICK j \in 1 .. i - 1 : written[i].parent = written[j].left
      BY <1>1 DEF WInv, WrittenInv
    <3>2. j \in 1 .. n
      BY <2>1
    <3> QED
      BY <3>1, <3>2
  <2>6. ASSUME NEW i \in 1 .. n
        PROVE  /\ t[i].left = written[i].left - base
               /\ t[i].right = written[i].right - base
               /\ t[i].parent = IF i = 1 THEN 0 ELSE written[i].parent - base
    BY DEF Relative
  <2>7. ASSUME NEW i \in 1 .. n
        PROVE  t[i] \in [left : Nat, right : Nat, parent : Nat]
    <3>1. written[i].left - base \in Nat /\ written[i].right - base \in Nat
      BY <2>2, <2>4
    <3>2. (IF i = 1 THEN 0 ELSE written[i].parent - base) \in Nat
      <4>1. CASE i = 1
        BY <4>1
      <4>2. CASE i # 1
        <5>1. i \in 2 .. n
          BY <2>1, <4>2
        <5>2. PICK j \in 1 .. n : written[i].parent = written[j].left
          BY <2>5, <5>1
        <5>3. written[j].left - base \in Nat
          BY <2>2, <2>4
        <5> QED
          BY <4>2, <5>2, <5>3
      <4> QED
        BY <4>1, <4>2
    <3> QED
      BY <3>1, <3>2 DEF Relative
  <2>8. t \in Seq([left : Nat, right : Nat, parent : Nat]) /\ Len(t) = n
    <3>1. t \in [1 .. n -> [left : Nat, right : Nat, parent : Nat]]
      BY <2>7 DEF Relative
    <3>2. n \in Nat
      BY <2>1
    <3> HIDE DEF t, n
    <3> QED
      BY <3>1, <3>2, FunctionIsSeq
  <2>9. t[1].left = 0 /\ t[1].right = 2 * n - 1 /\ t[1].parent = 0
    <3>1. written[1].node = root
      BY <1>1 DEF WInv, WrittenInv
    <3>2. written[1].left = base /\ written[1].right = nodeCounter - 1
      BY <1>1, <2>1, <2>3, <3>1, WrittenNode
    <3> QED
      BY <2>1, <2>2, <2>3, <2>6, <3>2
  <2>10. ASSUME NEW i \in 1 .. n
         PROVE  t[i].left < t[i].right /\ t[i].right < 2 * n
    <3>1. /\ written[i].left \in Nat /\ written[i].right \in Nat
          /\ written[i].left < written[i].right /\ written[i].right < base + 2 * n
      BY <2>3, <2>4
    <3>2. t[i].left = written[i].left - base /\ t[i].right = written[i].right - base
      BY <2>6
    <3> HIDE DEF t, n
    <3> QED
      BY <2>1, <2>2, <3>1, <3>2
  <2>11. ASSUME NEW i \in 1 .. n, NEW j \in 1 .. n, i < j
         PROVE  t[i].left < t[j].left /\ Nested(t[i], t[j])
    <3>1. written[i].left < written[j].left
      BY <1>1, <2>11 DEF WInv, WrittenInv
    <3>2. j \in 2 .. n /\ j # 1
      BY <2>1, <2>11
    <3>3. \/ written[i].right < written[j].left
          \/ written[j].right < written[i].right /\ written[i].left <= written[j].parent
      BY <1>1, <2>0, <3>1, <3>2, WrittenKin
    <3>4. /\ written[i].left \in Nat /\ written[j].left \in Nat
          /\ written[i].right \in Nat /\ written[j].right \in Nat
      BY <2>4
    <3>5. PICK h \in 1 .. n : written[j].parent = written[h].left
      BY <2>5, <3>2
    <3>6. written[j].parent \in Nat
      BY <2>4, <3>5
    <3>7. /\ t[i].left = written[i].left - base /\ t[i].right = written[i].right - base
          /\ t[j].left = written[j].left - base /\ t[j].right = written[j].right - base
          /\ t[j].parent = written[j].parent - base
      BY <2>6, <3>2
    <3> HIDE DEF t
    <3>8. t[i].left < t[j].left /\ t[i].left # t[j].left
      BY ONLY <2>2, <3>1, <3>4, <3>7
    <3>9. \/ t[i].right < t[j].left
          \/ t[j].right < t[i].right /\ t[i].left <= t[j].parent
      <4>1. CASE written[i].right < written[j].left
        <5>1. t[i].right < t[j].left
          BY ONLY <2>2, <3>4, <3>7, <4>1
        <5> QED
          BY <5>1
      <4>2. CASE written[j].right < written[i].right /\ written[i].left <= written[j].parent
        <5>1. t[j].right < t[i].right
          BY ONLY <2>2, <3>4, <3>7, <4>2
        <5>2. t[i].left <= t[j].parent
          BY ONLY <2>2, <3>4, <3>6, <3>7, <4>2
        <5> QED
          BY <5>1, <5>2
      <4> QED
        BY <3>3, <4>1, <4>2
    <3> QED
      BY <3>8, <3>9 DEF Nested
  <2>12. ASSUME NEW i \in 2 .. n
         PROVE  \E j \in 1 .. i - 1 : IsParent(t[j], t[i])
    <3>1. PICK j \in 1 .. i - 1 :
            /\ j \in 1 .. n
            /\ written[i].parent = written[j].left
            /\ written[j].left < written[i].left
            /\ written[i].right < written[j].right
      BY <1>1, <2>0, WrittenKin
    <3>2. i \in 1 .. n /\ i # 1
      BY <2>1
    <3>3. /\ written[i].left \in Nat /\ written[j].left \in Nat
          /\ written[i].right \in Nat /\ written[j].right \in Nat
      BY <2>4, <3>1, <3>2
    <3>4. /\ t[i].left = written[i].left - base /\ t[i].right = written[i].right - base
          /\ t[i].parent = written[j].left - base
          /\ t[j].left = written[j].left - base /\ t[j].right = written[j].right - base
      BY <2>6, <3>1, <3>2
    <3> HIDE DEF t
    <3>5. /\ t[j].left = t[i].parent /\ t[j].left < t[i].left
          /\ t[i].right < t[j].right
      BY ONLY <2>2, <3>1, <3>3, <3>4
    <3> QED
      BY <3>5 DEF IsParent
  <2> HIDE DEF t
  <2>13. Numbered(t)
    BY <2>1, <2>8, <2>9, <2>10, <2>11, <2>12 DEF Numbered
  <2> QED
    BY <2>3, <2>4, <2>13 DEF t
<1>2. IInv /\ WInv => FinishedIsNumbered
  BY <1>1 DEF FinishedIsNumbered
<1> QED
  BY <1>2, Invariant, OrderInvariant, PTL
(* Of a set of numbered nodes that is not empty, one has the smallest left *)
(* number.                                                                 *)
LEMMA Leftmost ==
  ASSUME IInv, NEW T \in SUBSET numbered, T # {}
  PROVE  \E x \in T : \A y \in T : left(x) <= left(y)
<1> DEFINE Lefts == {left(x) : x \in T}
<1>1. Lefts \in SUBSET Nat /\ Lefts # {}
  BY Numbers
<1>2. PICK a \in Lefts : \A b \in Lefts : a <= b
  <2> HIDE DEF Lefts
  <2> QED
    BY <1>1, Smallest
<1> QED
  BY <1>2

(* ... and one has the greatest, when the numbers are bounded.             *)
LEMMA Rightmost ==
  ASSUME IInv, NEW T \in SUBSET numbered, T # {}, NEW b \in Nat,
         \A x \in T : left(x) <= b
  PROVE  \E x \in T : \A y \in T : left(y) <= left(x)
<1> DEFINE Gaps == {b - left(x) : x \in T}
<1>1. Gaps \in SUBSET Nat /\ Gaps # {}
  BY Numbers
<1>2. PICK a \in Gaps : \A d \in Gaps : a <= d
  <2> HIDE DEF Gaps
  <2> QED
    BY <1>1, Smallest
<1>3. PICK x \in T : a = b - left(x)
  BY <1>2
<1>4. ASSUME NEW y \in T
      PROVE  left(y) <= left(x)
  <2>1. a <= b - left(y)
    BY <1>2
  <2> QED
    BY <1>3, <2>1, Numbers
<1> QED
  BY <1>4

(* The interval of n lies within that of m.                                *)
Within(m, n) == left(m) <= left(n) /\ right(n) <= right(m)

(* A node within another and the parent of it.                             *)
LEMMA ParentWithin ==
  ASSUME IInv, WInv, Finished,
         NEW m \in numbered, NEW n \in numbered, n # m, Within(m, n)
  PROVE  \E p \in numbered : \E k \in 1 .. Len(Children[p]) :
           n = Children[p][k] /\ left(p) < left(n) /\ Within(p, n) /\ Within(m, p)
<1>1. /\ left(m) \in Nat /\ left(n) \in Nat /\ right(m) \in Nat /\ right(n) \in Nat
      /\ left(m) < left(n) /\ left(n) < right(m)
  BY FinishedTree DEF Within
<1>2. n # root
  BY <1>1, FinishedTree
<1>3. PICK p \in numbered : \E k \in 1 .. Len(Children[p]) : n = Children[p][k]
  BY <1>2, FinishedTree
<1>4. PICK k \in 1 .. Len(Children[p]) : n = Children[p][k]
  BY <1>3
<1>5. /\ left(p) \in Nat /\ right(p) \in Nat
      /\ left(p) < left(n) /\ right(n) < right(p) /\ left(m) <= left(p)
  BY <1>1, <1>4, FinishedTree
<1>6. left(m) < left(p) => right(m) < left(p) \/ right(p) < right(m)
  BY FinishedTree
<1>7. left(m) = left(p) => m = p
  BY FinishedTree
<1>8. Within(m, p)
  BY <1>1, <1>5, <1>6, <1>7 DEF Within
<1>9. Within(p, n)
  BY <1>1, <1>5 DEF Within
<1> QED
  BY <1>4, <1>5, <1>8, <1>9

(* The tree of the document is the nesting of the intervals: of the nodes  *)
(* within m that a set with m and the children of its members lacks, the   *)
(* one with the smallest left number would have its parent in the set.     *)
LEMMA TreeIsNesting ==
  ASSUME IInv, WInv, Finished, NEW m \in numbered, NEW n \in numbered
  PROVE  <<m, n>> \in Tree <=> Within(m, n)
<1>1. Present = numbered
  BY FinishedTree
<1>2. ASSUME <<m, n>> \in Tree
      PROVE  Within(m, n)
  <2> DEFINE S == {x \in numbered : Within(m, x)}
  <2>1. ASSUME NEW p \in S, NEW c \in Kept(p) \cap Present
        PROVE  c \in S
    <3>1. PICK k \in 1 .. Len(Children[p]) : c = Children[p][k]
      BY DEF Kept
    <3>2. c \in numbered /\ left(p) < left(c) /\ right(c) < right(p)
      BY <1>1, <3>1, FinishedTree
    <3> QED
      BY <3>2, Numbers DEF Within
  <2>2. S \in SUBSET Present /\ m \in S
    BY <1>1, Numbers DEF Within
  <2>3. \A p \in S : Kept(p) \cap Present \subseteq S
    BY <2>1
  <2> HIDE DEF S
  <2>4. n \in S
    BY <1>2, <2>2, <2>3 DEF Tree
  <2> QED
    BY <2>4 DEF S
<1>3. ASSUME Within(m, n),
             NEW S \in SUBSET Present, \A p \in S : Kept(p) \cap Present \subseteq S,
             m \in S, n \notin S
      PROVE  FALSE
  <2> DEFINE T == {x \in numbered : Within(m, x) /\ x \notin S}
  <2>1. PICK x \in T : \A y \in T : left(x) <= left(y)
    <3>1. T \in SUBSET numbered /\ n \in T
      BY <1>3
    <3> HIDE DEF T
    <3> QED
      BY <3>1, Leftmost
  <2>2. x \in numbered /\ Within(m, x) /\ x # m /\ x \notin S
    BY <1>3
  <2>3. PICK p \in numbered : \E k \in 1 .. Len(Children[p]) :
          x = Children[p][k] /\ left(p) < left(x) /\ Within(p, x) /\ Within(m, p)
    BY <2>2, ParentWithin
  <2>4. p \in S
    BY <2>1, <2>2, <2>3, Numbers
  <2>5. x \in Kept(p)
    BY <2>2, <2>3, FinishedTree
  <2> QED
    BY <1>1, <1>3, <2>2, <2>4, <2>5
<1>4. Within(m, n) => <<m, n>> \in Tree
  BY <1>1, <1>3 DEF Tree
<1> QED
  BY <1>2, <1>4

(* Below a node that is not m itself m is at or below one of its children: *)
(* the first node below it that m is within.                               *)
LEMMA ChildAbove ==
  ASSUME IInv, WInv, Finished,
         NEW p \in numbered, NEW m \in numbered, m # p, Within(p, m)
  PROVE  \E k \in 1 .. Len(Children[p]) :
           /\ Children[p][k] \in numbered
           /\ left(p) < left(Children[p][k])
           /\ Within(Children[p][k], m)
<1> DEFINE T == {x \in numbered : x # p /\ Within(p, x) /\ Within(x, m)}
<1>1. PICK x \in T : \A y \in T : left(x) <= left(y)
  <2>1. T \in SUBSET numbered /\ m \in T
    BY Numbers DEF Within
  <2> HIDE DEF T
  <2> QED
    BY <2>1, Leftmost
<1>2. x \in numbered /\ x # p /\ Within(p, x) /\ Within(x, m)
  OBVIOUS
<1>3. PICK q \in numbered : \E k \in 1 .. Len(Children[q]) :
        x = Children[q][k] /\ left(q) < left(x) /\ Within(q, x) /\ Within(p, q)
  BY <1>2, ParentWithin
<1>4. Within(q, m)
  BY <1>2, <1>3, Numbers DEF Within
<1>5. q = p
  <2>1. SUFFICES ASSUME q # p PROVE FALSE
    OBVIOUS
  <2>2. q \in T
    BY <1>3, <1>4, <2>1
  <2> QED
    BY <1>1, <1>2, <1>3, <2>2, Numbers
<1> QED
  BY <1>2, <1>3, <1>5

(* The order of the left numbers is document order: either the first node  *)
(* is above the second, or the two are at or below siblings.               *)
LEMMA LeftsInOrder ==
  ASSUME IInv, WInv, Finished,
         NEW m \in numbered, NEW n \in numbered, left(m) < left(n)
  PROVE  Before(Tree, m, n)
<1>1. /\ left(m) \in Nat /\ left(n) \in Nat /\ right(m) \in Nat /\ right(n) \in Nat
      /\ right(root) \in Nat /\ root \in numbered /\ Present = numbered
      /\ \A x \in numbered : left(x) <= right(root)
      /\ right(m) < left(n) \/ right(n) < right(m)
  <2>1. \A x \in numbered : left(x) < right(x) /\ right(x) <= right(root)
    BY FinishedTree
  <2>2. root \in numbered
    BY FinishedTree
  <2> QED
    BY <2>1, <2>2, Numbers, FinishedTree
<1>2. CASE right(n) < right(m)
  BY <1>1, <1>2, TreeIsNesting DEF Before, Within
<1>3. CASE right(m) < left(n)
  <2> DEFINE T == {x \in numbered : Within(x, m) /\ Within(x, n)}
  <2>1. PICK p \in T : \A y \in T : left(y) <= left(p)
    <3>1. root \in T
      BY <1>1, FinishedTree DEF Within
    <3>2. T \in SUBSET numbered /\ T # {} /\ \A x \in T : left(x) <= right(root)
      BY <1>1, <3>1
    <3> HIDE DEF T
    <3> QED
      BY <1>1, <3>2, Rightmost
  <2>2. p \in numbered /\ Within(p, m) /\ Within(p, n)
    OBVIOUS
  <2>3. left(m) < right(m) /\ left(n) < right(n)
    BY FinishedTree
  <2>4. p # m /\ p # n
    BY <1>1, <1>3, <2>2, <2>3 DEF Within
  <2>5. PICK h \in 1 .. Len(Children[p]) :
          /\ Children[p][h] \in numbered
          /\ left(p) < left(Children[p][h])
          /\ Within(Children[p][h], m)
    BY <2>2, <2>4, ChildAbove
  <2>6. PICK k \in 1 .. Len(Children[p]) :
          /\ Children[p][k] \in numbered
          /\ left(p) < left(Children[p][k])
          /\ Within(Children[p][k], n)
    BY <2>2, <2>4, ChildAbove
  <2>7. h # k
    <3>1. SUFFICES ASSUME h = k PROVE FALSE
      OBVIOUS
    <3>2. Children[p][h] \in T
      BY <2>5, <2>6, <3>1
    <3> QED
      BY <2>1, <2>2, <2>5, <3>2, Numbers
  <2>8. ~ (k < h)
    <3>1. SUFFICES ASSUME k < h PROVE FALSE
      OBVIOUS
    <3>2. right(Children[p][k]) < left(Children[p][h])
      BY <2>2, <2>5, <2>6, <3>1, FinishedTree
    <3>3. right(Children[p][k]) \in Nat /\ left(Children[p][h]) \in Nat
      BY <2>5, <2>6, Numbers
    <3>4. left(Children[p][h]) <= left(m) /\ right(n) <= right(Children[p][k])
      BY <2>5, <2>6 DEF Within
    <3> QED
      BY <1>1, <2>3, <3>2, <3>3, <3>4
  <2>9. h \in Int /\ k \in Int
    OBVIOUS
  <2>10. h < k
    BY <2>7, <2>8, <2>9
  <2>11. <<Children[p][h], m>> \in Tree /\ <<Children[p][k], n>> \in Tree
    BY <2>5, <2>6, TreeIsNesting
  <2> QED
    BY <1>1, <2>2, <2>10, <2>11 DEF Before
<1> QED
  BY <1>1, <1>2, <1>3

(* In every document, of whatever shape: what was indexed without an       *)
(* exception is the document element and all that is below it but for      *)
(* whitespace, in document order, each node once.                          *)
THEOREM DocumentInOrder == Spec => []DocumentOrder
<1>1. ASSUME IInv, WInv, Finished
      PROVE  \A n \in Present : <<root, n>> \in Tree /\ Kept(n) \subseteq Present
  <2>1. Present = numbered /\ root \in numbered
    BY <1>1, FinishedTree
  <2>2. ASSUME NEW n \in numbered
        PROVE  Within(root, n) /\ Kept(n) \subseteq numbered
    BY <1>1, FinishedTree DEF Within
  <2> QED
    BY <1>1, <2>1, <2>2, TreeIsNesting
<1>2. ASSUME IInv, WInv, Finished,
             NEW i \in 1 .. Len(written), NEW j \in 1 .. Len(written), i < j
      PROVE  Before(Tree, written[i].node, written[j].node)
  <2>1. written[i].left < written[j].left
    BY <1>2 DEF WInv, WrittenInv
  <2>2. /\ written[i].node \in numbered /\ written[j].node \in numbered
        /\ left(written[i].node) < left(written[j].node)
    BY <1>2, <2>1, WrittenNode
  <2> QED
    BY <1>2, <2>2, LeftsInOrder
<1>3. IInv /\ WInv => DocumentOrder
  BY <1>1, <1>2 DEF DocumentOrder
<1> QED
  BY <1>3, Invariant, OrderInvariant, PTL

-----------------------------------------------------------------------------
(* The depths: a third inductive invariant.                                *)

depth(n) == userDataMap[n].depth

(* The depth of a child is counted from that of its parent, in a byte, and *)
(* the document element's is 2; what is written has the depth of its node. *)
DepthInv ==
  /\ root \in numbered => depth(root) = 2
  /\ \A p \in numbered : \A k \in 1 .. Len(Children[p]) :
       Children[p][k] \in numbered => depth(Children[p][k]) = Byte(depth(p) + 1)
  /\ \A i \in 1 .. Len(written) : written[i].depth = depth(written[i].node)

(* Steps that number nothing and write nothing.                            *)
LEMMA SameDepths ==
  ASSUME DepthInv, UNCHANGED <<root, numbered>>,
         \A n \in numbered : userDataMap'[n].depth = userDataMap[n].depth,
         written' = << >> \/ (UNCHANGED <<userDataMap, written>>)
  PROVE  DepthInv'
<1>1. \A i \in 1 .. Len(written') : written'[i].depth = userDataMap'[written'[i].node].depth
  BY DEF DepthInv, depth
<1> QED
  BY <1>1 DEF DepthInv, depth

(* numberNode on a child.                                                  *)
LEMMA NumberChildDepth ==
  ASSUME IInv, WInv, DepthInv, NumberChild
  PROVE  DepthInv'
<1>1. CASE Child \in Blank
  BY <1>1, SameDepths DEF NumberChild
<1>2. CASE Child \notin Blank
  <2> PICK t : t = Top.node
    OBVIOUS
  <2> PICK c : c = Child
    OBVIOUS
  <2> PICK x : x = Top.next + 1
    OBVIOUS
  <2>1. /\ UNCHANGED <<root, written>> /\ phase = "number"
        /\ numbered' = numbered \cup {c} /\ c \notin numbered
        /\ t \in numbered /\ x \in 1 .. Len(Children[t]) /\ c = Children[t][x]
        /\ \A n \in numbered : userDataMap'[n] = userDataMap[n]
    BY <1>2, NewChild
  <2>2. userDataMap'[c].depth = Byte(depth(t) + 1)
    BY <1>2 DEF NumberChild, Put, depth
  <2>3. written' = << >>
    BY <2>1 DEF WInv, WrittenInv
  <2>4. c # root
    <3>1. root \in Roots /\ t \in Nodes
      BY <2>1, Numbers DEF IInv, TypeOK
    <3> QED
      BY <2>1, <3>1, ChildNodes
  <2>5. ASSUME NEW p \in numbered', NEW k \in 1 .. Len(Children[p]),
               Children[p][k] \in numbered'
        PROVE  userDataMap'[Children[p][k]].depth = Byte(userDataMap'[p].depth + 1)
    <3>1. p \in Nodes /\ t \in Nodes
      <4>1. c \in Nodes
        BY <2>1, Numbers, ChildNodes
      <4> QED
        BY <2>1, <4>1, Numbers
    <3>2. CASE Children[p][k] \in numbered
      <4>1. p \in numbered
        BY <3>1, <3>2 DEF IInv, ProgressInv
      <4> QED
        BY <2>1, <3>2, <4>1 DEF DepthInv, depth
    <3>3. CASE Children[p][k] = c
      <4>1. p = t
        BY <2>1, <3>1, <3>3, OnePlace
      <4> QED
        BY <2>1, <2>2, <3>3, <4>1 DEF depth
    <3> QED
      BY <2>1, <2>5, <3>2, <3>3
  <2>6. root' \in numbered' => userDataMap'[root'].depth = 2
    BY <2>1, <2>4 DEF DepthInv, depth
  <2>7. \A i \in 1 .. Len(written') :
          written'[i].depth = userDataMap'[written'[i].node].depth
    BY <2>3
  <2> QED
    BY <2>5, <2>6, <2>7 DEF DepthInv, depth
<1> QED
  BY <1>1, <1>2

(* The return of numberNode.                                               *)
LEMMA NumberReturnDepth ==
  ASSUME IInv, WInv, DepthInv, NumberReturn
  PROVE  DepthInv'
<1>1. /\ written' = << >> /\ UNCHANGED <<root, numbered>>
      /\ userDataMap' = [userDataMap EXCEPT ![Top.node].right = nodeCounter]
  BY DEF NumberReturn, WInv, WrittenInv
<1>2. ASSUME NEW n \in numbered
      PROVE  userDataMap'[n].depth = userDataMap[n].depth
  <2>1. n \in DOMAIN userDataMap /\ userDataMap[n] \in UserData
    BY DEF IInv, TypeOK
  <2>2. CASE n = Top.node
    <3>1. userDataMap'[n] = [userDataMap[n] EXCEPT !.right = nodeCounter]
      BY <1>1, <2>1, <2>2
    <3> QED
      BY <2>1, <3>1 DEF UserData
  <2>3. CASE n # Top.node
    BY <1>1, <2>1, <2>3
  <2> QED
    BY <2>2, <2>3
<1> QED
  BY <1>1, <1>2, SameDepths

(* numberNode on the document element.                                     *)
LEMMA BeginDepth ==
  ASSUME NEW r \in Roots, NEW isStream \in BOOLEAN, Begin(r, isStream)
  PROVE  DepthInv'
<1>1. root' = r /\ numbered' = {r} /\ written' = << >>
  BY DEF Begin
<1>2. userDataMap'[r].depth = 2
  BY DEF Begin, Put
<1>3. r \in Nodes /\ \A k \in 1 .. Len(Children[r]) : Children[r][k] \notin numbered'
  BY <1>1, ForestAssumption, ChildNodes
<1> QED
  BY <1>1, <1>2, <1>3 DEF DepthInv, depth

(* indexNode on the document element, and on a child.                      *)
LEMMA IndexRootDepth ==
  ASSUME IInv, DepthInv, IndexRoot
  PROVE  DepthInv'
<1>1. /\ UNCHANGED <<root, userDataMap, numbered>>
      /\ written' = << Record(root, RootLeft) >>
  BY DEF IndexRoot
<1>2. \A i \in 1 .. Len(written') :
        written'[i].depth = userDataMap[written'[i].node].depth
  BY <1>1 DEF Record
<1> QED
  BY <1>1, <1>2 DEF DepthInv, depth

LEMMA IndexChildDepth ==
  ASSUME IInv, DepthInv, IndexChild
  PROVE  DepthInv'
<1>1. CASE Child \in Blank
  BY <1>1, SameDepths DEF IndexChild
<1>2. CASE Child \notin Blank
  <2> PICK z : z = Record(Child, userDataMap[Top.node].left)
    OBVIOUS
  <2>1. /\ UNCHANGED <<root, userDataMap, numbered>> /\ written' = Append(written, z)
        /\ z.depth = userDataMap[z.node].depth
    BY <1>2 DEF IndexChild, Record
  <2>2. written \in Seq(LuceneDocument) /\ Len(written) \in Nat
    BY DEF IInv, TypeOK
  <2>3. /\ Len(written') = Len(written) + 1 /\ written'[Len(written) + 1] = z
        /\ \A i \in 1 .. Len(written) : written'[i] = written[i]
    BY <2>1, <2>2
  <2>4. \A i \in 1 .. Len(written') :
          written'[i].depth = userDataMap[written'[i].node].depth
    BY <2>1, <2>2, <2>3 DEF DepthInv, depth
  <2> QED
    BY <2>1, <2>4 DEF DepthInv, depth
<1> QED
  BY <1>1, <1>2

LEMMA InitDepth == Init => DepthInv
<1>1. << >> = << >> /\ Len(<< >>) = 0
  OBVIOUS
<1> QED
  BY <1>1 DEF Init, DepthInv, depth

LEMMA StepDepth == IInv /\ WInv /\ DepthInv /\ [Next]_vars => DepthInv'
<1> SUFFICES ASSUME IInv, WInv, DepthInv, [Next]_vars PROVE DepthInv'
  OBVIOUS
<1>1. CASE \E r \in Roots, isStream \in BOOLEAN : Begin(r, isStream)
  BY <1>1, BeginDepth
<1>2. CASE ParseError \/ Error
  <2>1. numbered' = {} /\ written' = << >>
    BY <1>2 DEF ParseError, Error
  <2> QED
    BY <2>1 DEF DepthInv
<1>3. CASE NumberChild
  BY <1>3, NumberChildDepth
<1>4. CASE NumberReturn
  BY <1>4, NumberReturnDepth
<1>5. CASE IndexRoot
  BY <1>5, IndexRootDepth
<1>6. CASE IndexChild
  BY <1>6, IndexChildDepth
<1>7. CASE IndexReturn \/ Fail \/ UNCHANGED vars
  BY <1>7, SameDepths DEF IndexReturn, Fail, vars
<1> QED
  BY <1>1, <1>2, <1>3, <1>4, <1>5, <1>6, <1>7 DEF Next

(* The third inductive invariant holds.                                    *)
THEOREM DepthInvariant == Spec => []DepthInv
<1>1. Init => IInv /\ WInv /\ DepthInv
  BY InitInv, InitOrder, InitDepth
<1>2. (IInv /\ WInv /\ DepthInv) /\ [Next]_vars => (IInv /\ WInv /\ DepthInv)'
  BY StepInv, StepOrder, StepDepth
<1> QED
  BY <1>1, <1>2, PTL DEF Spec

(* Below DepthLimit a byte counts on.                                      *)
LEMMA NoWrap ==
  ASSUME NEW x \in Nat, x < DepthLimit
  PROVE  Byte(x) = x
<1>1. DepthLimit \in Nat /\ x + DepthLimit \in 0 .. 2 * DepthLimit - 1
  BY BoundsAssumption
<1>2. (x + DepthLimit) % (2 * DepthLimit) = x + DepthLimit
  BY <1>1
<1> QED
  BY <1>1, <1>2 DEF Byte

(* Levels in the tree: the document element is at level 2, and each child  *)
(* one level below its parent.                                             *)
Above(n) == {m \in numbered : Within(m, n)}

LEMMA Levels ==
  ASSUME IInv, WInv, Finished
  PROVE  /\ Level(Tree, root) = 2
         /\ \A n \in numbered : Level(Tree, n) \in Nat /\ Level(Tree, n) >= 2
         /\ \A p \in numbered : \A k \in 1 .. Len(Children[p]) :
              Children[p][k] \in numbered =>
                Level(Tree, Children[p][k]) = Level(Tree, p) + 1
<1>1. /\ Present = numbered /\ IsFiniteSet(numbered) /\ root \in numbered
      /\ \A n \in numbered : left(n) \in Nat /\ right(n) \in Nat
  BY FinishedTree
<1>2. ASSUME NEW n \in numbered
      PROVE  /\ Level(Tree, n) = 1 + Cardinality(Above(n))
             /\ IsFiniteSet(Above(n)) /\ Cardinality(Above(n)) \in Nat
             /\ n \in Above(n)
  <2>1. Above(n) = {m \in Present : <<m, n>> \in Tree}
    BY <1>1, TreeIsNesting DEF Above
  <2>2. IsFiniteSet(Above(n)) /\ Cardinality(Above(n)) \in Nat
    BY <1>1, FS_Subset, FS_CardinalityType DEF Above
  <2>3. n \in Above(n)
    BY <1>1 DEF Above, Within
  <2> QED
    BY <2>1, <2>2, <2>3 DEF Level
<1>3. ASSUME NEW n \in numbered
      PROVE  Level(Tree, n) \in Nat /\ Level(Tree, n) >= 2
  <2>1. Cardinality(Above(n)) # 0
    BY <1>2, FS_EmptySet
  <2> QED
    BY <1>2, <2>1
<1>4. Level(Tree, root) = 2
  <2>1. \A m \in numbered : Within(m, root) => m = root
    <3>1. \A m \in numbered : left(root) <= left(m) /\ (left(root) = left(m) => m = root)
      BY FinishedTree
    <3> QED
      BY <1>1, <3>1 DEF Within
  <2>2. Above(root) = {root}
    BY <1>1, <1>2, <2>1 DEF Above
  <2>3. Cardinality(Above(root)) = 1
    BY <2>2, FS_Singleton
  <2> QED
    BY <1>1, <1>2, <2>3
<1>5. ASSUME NEW p \in numbered, NEW k \in 1 .. Len(Children[p]),
             NEW c \in numbered, c = Children[p][k]
      PROVE  Level(Tree, c) = Level(Tree, p) + 1
  <2>1. /\ left(p) < left(c) /\ right(c) < right(p) /\ left(c) < right(c)
        /\ \A m \in numbered :
             left(m) < left(c) /\ left(c) < right(m) => left(m) <= left(p)
    BY <1>5, FinishedTree
  <2>2. c \notin Above(p)
    BY <1>1, <2>1 DEF Above, Within
  <2>3. ASSUME NEW m \in Above(p)
        PROVE  m \in Above(c)
    BY <1>1, <2>1 DEF Above, Within
  <2>4. ASSUME NEW m \in Above(c), m # c
        PROVE  m \in Above(p)
    <3>1. m \in numbered /\ left(m) <= left(c) /\ right(c) <= right(m)
      BY DEF Above, Within
    <3>2. left(m) < left(c)
      BY <1>1, <2>4, <3>1, FinishedTree
    <3>3. left(m) <= left(p)
      BY <1>1, <2>1, <3>1, <3>2
    <3>4. CASE left(m) = left(p)
      BY <1>1, <1>2, <3>1, <3>4, FinishedTree
    <3>5. CASE left(m) < left(p)
      <4>1. right(m) < left(p) \/ right(p) < right(m)
        BY <3>1, <3>5, FinishedTree
      <4>2. right(p) < right(m)
        BY <1>1, <2>1, <3>1, <4>1
      <4> QED
        BY <1>1, <3>1, <3>3, <4>2 DEF Above, Within
    <3> QED
      BY <1>1, <3>1, <3>3, <3>4, <3>5
  <2>5. Above(c) = Above(p) \cup {c}
    BY <1>2, <2>3, <2>4
  <2>6. Cardinality(Above(c)) = Cardinality(Above(p)) + 1
    BY <1>2, <2>2, <2>5, FS_AddElement
  <2> QED
    BY <1>2, <2>6
<1> QED
  BY <1>3, <1>4, <1>5

(* A depth is the level as long as the level fits in a byte: of the nodes  *)
(* for which it is not, take the leftmost.                                 *)
LEMMA DepthIsLevel ==
  ASSUME IInv, WInv, DepthInv, Finished,
         NEW n \in numbered, Level(Tree, n) < DepthLimit
  PROVE  depth(n) = Level(Tree, n)
<1> DEFINE Wrong == {m \in numbered :
                       Level(Tree, m) < DepthLimit /\ depth(m) # Level(Tree, m)}
<1>1. SUFFICES ASSUME n \in Wrong PROVE FALSE
  OBVIOUS
<1>2. PICK c \in Wrong : \A y \in Wrong : left(c) <= left(y)
  <2>1. Wrong \in SUBSET numbered /\ Wrong # {}
    BY <1>1
  <2> HIDE DEF Wrong
  <2> QED
    BY <2>1, Leftmost
<1>3. c \in numbered /\ Level(Tree, c) < DepthLimit /\ depth(c) # Level(Tree, c)
  OBVIOUS
<1>4. c # root
  <2>1. Level(Tree, root) = 2 /\ root \in numbered
    BY Levels, FinishedTree
  <2>2. depth(root) = 2
    BY <2>1 DEF DepthInv
  <2> QED
    BY <1>3, <2>1, <2>2
<1>5. PICK p \in numbered : \E k \in 1 .. Len(Children[p]) : c = Children[p][k]
  BY <1>3, <1>4, FinishedTree
<1>6. PICK k \in 1 .. Len(Children[p]) : c = Children[p][k]
  BY <1>5
<1>7. left(p) < left(c) /\ left(p) \in Nat /\ left(c) \in Nat
  BY <1>3, <1>6, FinishedTree
<1>8. /\ Level(Tree, c) = Level(Tree, p) + 1 /\ Level(Tree, p) \in Nat
      /\ Level(Tree, c) \in Nat /\ DepthLimit \in Nat
  BY <1>3, <1>6, Levels, BoundsAssumption
<1>9. p \notin Wrong
  <2> HIDE DEF Wrong
  <2> QED
    BY <1>2, <1>7
<1>10. depth(p) = Level(Tree, p)
  BY <1>3, <1>8, <1>9
<1>11. depth(c) = Byte(Level(Tree, c))
  BY <1>3, <1>6, <1>8, <1>10 DEF DepthInv
<1> QED
  BY <1>3, <1>8, <1>11, NoWrap

(* In every document, of whatever shape: from one written node to the next *)
(* the depth changes as the level in the tree does if the levels fit in a  *)
(* byte, and does not if the second no longer fits.                        *)
THEOREM DepthOfNesting == Spec => []DepthTellsNesting
<1>1. ASSUME IInv, WInv, DepthInv, Finished,
             NEW i \in 1 .. Len(written) - 1,
             NEW m, m = written[i], NEW n, n = written[i + 1],
             Level(Tree, m.node) < DepthLimit
      PROVE  n.depth - m.depth = Level(Tree, n.node) - Level(Tree, m.node)
               <=> Level(Tree, n.node) < DepthLimit
  <2>1. i \in 1 .. Len(written) /\ i + 1 \in 1 .. Len(written)
    BY DEF IInv, TypeOK
  <2>2. m.node \in numbered /\ n.node \in numbered
    BY <1>1, <2>1, WrittenNode
  <2>3. m.depth = depth(m.node) /\ n.depth = depth(n.node)
    BY <1>1, <2>1 DEF DepthInv
  <2>4. depth(m.node) = Level(Tree, m.node)
    BY <1>1, <2>2, DepthIsLevel
  <2>5. Level(Tree, n.node) < DepthLimit => depth(n.node) = Level(Tree, n.node)
    BY <1>1, <2>2, DepthIsLevel
  <2>6. depth(n.node) \in Depths
    BY <1>1, <2>2 DEF IInv, TypeOK, UserData, depth
  <2>7. /\ Level(Tree, m.node) \in Nat /\ Level(Tree, n.node) \in Nat
        /\ DepthLimit \in Nat
        /\ depth(n.node) \in Int /\ depth(n.node) <= DepthLimit - 1
    BY <1>1, <2>2, <2>6, Levels, BoundsAssumption DEF Depths
  <2> QED
    BY <2>3, <2>4, <2>5, <2>7
<1>2. IInv /\ WInv /\ DepthInv => DepthTellsNesting
  BY <1>1 DEF DepthTellsNesting
<1> QED
  BY <1>2, Invariant, OrderInvariant, DepthInvariant, PTL
=============================================================================
