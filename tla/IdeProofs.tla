----------------------------- MODULE IdeProofs -----------------------------
(***************************************************************************)
(* Proofs about the page of the IDE, in two parts: Ide, for any number of  *)
(* paths, tabs, edits and requests, and FileTree, for any nesting of       *)
(* folders and any number of items and requests.                           *)
(***************************************************************************)
EXTENDS Ide, FileTree, FiniteSetTheorems, SequenceTheorems,
        WellFoundedInduction, TLAPS

-----------------------------------------------------------------------------
Kinds == Writes \cup {"open", "opened"}
Req == [n : Nat, kind : Kinds, path : Paths, text : Nat]

(* There is a tab for every id that is kept.                               *)
TabsTyped ==
  /\ tabs \in Seq(Tab) /\ tabCounter \in Nat /\ edits \in Nat
  /\ active # 0 => \E i \in 1 .. Len(tabs) : tabs[i].id = active
  /\ dialog # NoDialog => \E i \in 1 .. Len(tabs) : tabs[i].id = dialog

(* Requests are told by their numbers.                                     *)
NetTyped ==
  /\ sent \in Nat /\ flight \subseteq Req
  /\ \A r \in flight : r.n <= sent
  /\ \A r, q \in flight : r.n = q.n => r = q
  /\ file \in [Paths -> Nat \cup {NoFile}]
  /\ wish \in [Paths -> Nat \cup {NoFile}]

(* What a request makes of the file.                                       *)
Sets(r, p) == r.kind \in {"save", "delete"} /\ r.path = p
Makes(r, p) == r.kind = "create" /\ r.path = p
Value(r) == IF r.kind = "save" THEN r.text ELSE NoFile
Made(text, made) == IF made /\ text = NoFile THEN 0 ELSE text

(* The wish of the user is what the file will be when the server has dealt *)
(* with what is under way, in the order in which it was sent: the last     *)
(* save or deletion decides, or else the file as it is, and a creation     *)
(* after that if there was no file.                                        *)
WishFrom(p) ==
  /\ (\A r \in flight : ~Sets(r, p)) =>
       wish[p] = Made(file[p], \E q \in flight : Makes(q, p))
  /\ \A r \in flight :
       Sets(r, p) /\ (\A q \in flight : Sets(q, p) => q.n <= r.n) =>
         wish[p] = Made(Value(r), \E q \in flight : Makes(q, p) /\ q.n > r.n)
WishOK == \A p \in Paths \ upset : WishFrom(p)

(* Either there is a tab of a path, or one is on its way.                  *)
BringsText(r, p) == r.kind \in {"open", "opened"} /\ r.path = p
OneTab ==
  \A p \in Paths \ doubled :
    /\ \A i, j \in 1 .. Len(tabs) :
         tabs[i].path = p /\ tabs[j].path = p => i = j
    /\ \A r \in flight : BringsText(r, p) =>
         /\ \A i \in 1 .. Len(tabs) : tabs[i].path # p
         /\ \A q \in flight : BringsText(q, p) => q = r

(* A tab without a mark, and a text on its way, are as the user wishes,    *)
(* who can only have deleted the file since.                               *)
UnmarkedAt(p) ==
  /\ \A i \in 1 .. Len(tabs) :
       tabs[i].path = p /\ ~tabs[i].modified /\ ~tabs[i].blank =>
         wish[p] \in {tabs[i].text, NoFile}
  /\ \A r \in flight : r.kind = "opened" /\ r.path = p =>
       wish[p] \in {r.text, NoFile}
  /\ \A r, q \in flight :
       BringsText(r, p) /\ q.kind \in Writes /\ q.path = p => wish[p] = NoFile
UnmarkedOK == \A p \in Paths \ (upset \cup doubled \cup early) : UnmarkedAt(p)

IInv == TabsTyped /\ NetTyped /\ WishOK /\ OneTab /\ UnmarkedOK

-----------------------------------------------------------------------------
(* The tabs that are left when one is closed.                              *)
LEMMA ClosedFacts ==
  ASSUME tabs \in Seq(Tab), NEW i \in 1 .. Len(tabs)
  PROVE  /\ Closed(i) \in Seq(Tab)
         /\ Len(Closed(i)) = Len(tabs) - 1
         /\ \A j \in 1 .. Len(tabs) - 1 :
              Closed(i)[j] = IF j < i THEN tabs[j] ELSE tabs[j + 1]
<1>1. Len(tabs) \in Nat
  OBVIOUS
<1> DEFINE a == SubSeq(tabs, 1, i - 1)
           b == SubSeq(tabs, i + 1, Len(tabs))
<1>2. /\ a \in Seq(Tab) /\ Len(a) = i - 1
      /\ \A j \in 1 .. i - 1 : a[j] = tabs[j]
  BY <1>1, SubSeqProperties
<1>3. /\ b \in Seq(Tab) /\ Len(b) = Len(tabs) - i
      /\ \A j \in 1 .. Len(tabs) - i : b[j] = tabs[i + j]
  BY <1>1, SubSeqProperties
<1>4. Closed(i) = a \o b
  BY DEF Closed
<1> HIDE DEF a, b
<1>5. /\ a \o b \in Seq(Tab) /\ Len(a \o b) = Len(a) + Len(b)
      /\ \A j \in 1 .. Len(a) + Len(b) :
           (a \o b)[j] = IF j <= Len(a) THEN a[j] ELSE b[j - Len(a)]
  <2>1. a \in Seq(Tab) /\ b \in Seq(Tab)
    BY <1>2, <1>3
  <2> QED
    BY ONLY <2>1, ConcatProperties
<1>6. /\ Closed(i) \in Seq(Tab)
      /\ Len(Closed(i)) = Len(tabs) - 1
  BY <1>1, <1>2, <1>3, <1>4, <1>5
<1>7. ASSUME NEW j \in 1 .. Len(tabs) - 1
      PROVE  Closed(i)[j] = IF j < i THEN tabs[j] ELSE tabs[j + 1]
  <2>1. Closed(i)[j] = IF j <= i - 1 THEN a[j] ELSE b[j - (i - 1)]
    BY SMTT(30), <1>1, <1>2, <1>3, <1>4, <1>5
  <2>2. CASE j < i
    BY <1>1, <1>2, <2>1, <2>2
  <2>3. CASE ~(j < i)
    <3>1. /\ j - (i - 1) \in 1 .. Len(tabs) - i
          /\ i + (j - (i - 1)) = j + 1
      BY <1>1, <2>3
    <3>2. b[j - (i - 1)] = tabs[j + 1]
      BY <1>3, <3>1
    <3> QED
      BY <1>1, <2>1, <2>3, <3>2
  <2> QED
    BY <2>2, <2>3
<1> QED
  BY <1>6, <1>7

(* The id that is kept leads to its tab.                                   *)
LEMMA PlaceFacts ==
  ASSUME NEW id, \E i \in 1 .. Len(tabs) : tabs[i].id = id
  PROVE  Place(id) \in 1 .. Len(tabs) /\ tabs[Place(id)].id = id
BY DEF Place

(* The tab that is active is the one the action speaks of.                 *)
LEMMA ActiveFacts ==
  ASSUME TabsTyped, active # 0
  PROVE  /\ Place(active) \in 1 .. Len(tabs)
         /\ ActiveTab = tabs[Place(active)] /\ ActiveTab \in Tab
<1>1. Place(active) \in 1 .. Len(tabs)
  BY PlaceFacts DEF TabsTyped
<1> QED
  BY <1>1 DEF TabsTyped, ActiveTab

(* Closing a tab leaves an active one, if one is left.                     *)
LEMMA CloseTabFacts ==
  ASSUME TabsTyped, NEW i \in 1 .. Len(tabs), CloseTab(i)
  PROVE  /\ tabs' \in Seq(Tab)
         /\ Len(tabs') = Len(tabs) - 1
         /\ \A j \in 1 .. Len(tabs') :
              tabs'[j] = IF j < i THEN tabs[j] ELSE tabs[j + 1]
         /\ active' # 0 => \E j \in 1 .. Len(tabs') : tabs'[j].id = active'
<1>1. tabs' = Closed(i) /\ tabs \in Seq(Tab) /\ Len(tabs) \in Nat
  BY DEF CloseTab, TabsTyped
<1>2. /\ tabs' \in Seq(Tab) /\ Len(tabs') = Len(tabs) - 1
      /\ \A j \in 1 .. Len(tabs') :
           tabs'[j] = IF j < i THEN tabs[j] ELSE tabs[j + 1]
  BY <1>1, ClosedFacts
<1>3. ASSUME active' # 0 PROVE \E j \in 1 .. Len(tabs') : tabs'[j].id = active'
  <2>1. CASE tabs[i].id # active
    <3>1. active' = active
      BY <2>1 DEF CloseTab
    <3>2. PICK k \in 1 .. Len(tabs) : tabs[k].id = active /\ k # i
      BY <1>3, <2>1, <3>1 DEF TabsTyped
    <3>3. CASE k < i
      BY <1>1, <1>2, <3>1, <3>2, <3>3
    <3>4. CASE k > i
      <4>1. k - 1 \in 1 .. Len(tabs') /\ ~(k - 1 < i) /\ (k - 1) + 1 = k
        BY <1>1, <1>2, <3>2, <3>4
      <4> QED
        BY <1>2, <3>1, <3>2, <4>1
    <3> QED
      BY <1>1, <3>2, <3>3, <3>4
  <2>2. CASE tabs[i].id = active
    <3>1. tabs' # <<>> /\ active' = tabs'[IF i = 1 THEN 1 ELSE i - 1].id
      BY <1>1, <1>3, <2>2 DEF CloseTab
    <3>2. (IF i = 1 THEN 1 ELSE i - 1) \in 1 .. Len(tabs')
      BY <1>1, <1>2, <3>1
    <3> QED
      BY <3>1, <3>2
  <2> QED
    BY <2>1, <2>2
<1> QED
  BY <1>2, <1>3

(* A tab at the right end.                                                 *)
LEMMA NewTabFacts ==
  ASSUME TabsTyped, NEW p \in Paths, NEW text \in Nat, NEW blank \in BOOLEAN,
         NewTab(p, text, blank)
  PROVE  /\ tabs' \in Seq(Tab) /\ tabCounter' \in Nat
         /\ Len(tabs') = Len(tabs) + 1
         /\ \A j \in 1 .. Len(tabs) : tabs'[j] = tabs[j]
         /\ tabs'[Len(tabs')].path = p /\ tabs'[Len(tabs')].text = text
         /\ tabs'[Len(tabs')].blank = blank
         /\ tabs'[Len(tabs')].id = active'
<1> DEFINE new == [id |-> tabCounter + 1, path |-> p, text |-> text,
                   modified |-> FALSE, blank |-> blank]
<1>1. /\ new \in Tab /\ new.path = p /\ new.text = text
      /\ new.blank = blank /\ new.id = tabCounter + 1
  BY DEF Tab, TabsTyped
<1>2. /\ tabs' = Append(tabs, new) /\ tabCounter' = tabCounter + 1
      /\ active' = tabCounter + 1 /\ tabs \in Seq(Tab) /\ tabCounter \in Nat
  BY DEF NewTab, TabsTyped
<1> HIDE DEF new
<1>3. /\ tabs' \in Seq(Tab) /\ Len(tabs') = Len(tabs) + 1
      /\ \A j \in 1 .. Len(tabs) : tabs'[j] = tabs[j]
      /\ tabs'[Len(tabs) + 1] = new
  BY <1>1, <1>2, AppendProperties
<1> QED
  BY <1>1, <1>2, <1>3

(* A tab that is changed in its place, keeping its id and its path.        *)
LEMMA PutFacts ==
  ASSUME NEW s \in Seq(Tab), NEW k \in 1 .. Len(s), NEW new \in Tab
  PROVE  /\ [s EXCEPT ![k] = new] \in Seq(Tab)
         /\ Len([s EXCEPT ![k] = new]) = Len(s)
         /\ \A j \in 1 .. Len(s) :
              [s EXCEPT ![k] = new][j] = IF j = k THEN new ELSE s[j]
BY ExceptSeq

(* An edit changes the text of the active tab and marks it.                *)
LEMMA EditFacts ==
  ASSUME TabsTyped, Edit
  PROVE  /\ tabs' \in Seq(Tab) /\ Len(tabs') = Len(tabs) /\ edits' \in Nat
         /\ \A j \in 1 .. Len(tabs) :
              /\ tabs'[j].id = tabs[j].id /\ tabs'[j].path = tabs[j].path
              /\ ~tabs'[j].modified => tabs'[j] = tabs[j]
<1> DEFINE k == Place(active)
           one == [tabs[k] EXCEPT !.text = edits + 1]
           two == [one EXCEPT !.modified = TRUE]
           mid == [tabs EXCEPT ![k] = one]
<1>1. active # 0 /\ edits' = edits + 1
  BY DEF Edit, EditIn
<1>2. /\ tabs \in Seq(Tab) /\ k \in 1 .. Len(tabs) /\ tabs[k] \in Tab
      /\ edits' \in Nat /\ edits + 1 \in Nat
  BY <1>1, ActiveFacts DEF TabsTyped
<1>3. /\ one \in Tab /\ two \in Tab /\ two.modified
      /\ two.id = tabs[k].id /\ two.path = tabs[k].path
  BY <1>2 DEF Tab
<1>4. tabs' = [mid EXCEPT ![k] = [mid[k] EXCEPT !.modified = TRUE]]
  BY DEF Edit, EditIn
<1> HIDE DEF k, one
<1>5. /\ mid \in Seq(Tab) /\ Len(mid) = Len(tabs)
      /\ \A j \in 1 .. Len(tabs) : mid[j] = IF j = k THEN one ELSE tabs[j]
  BY <1>2, <1>3, PutFacts
<1> HIDE DEF mid
<1>6. tabs' = [mid EXCEPT ![k] = two]
  BY <1>2, <1>4, <1>5
<1> HIDE DEF two
<1>7. /\ tabs' \in Seq(Tab) /\ Len(tabs') = Len(mid)
      /\ \A j \in 1 .. Len(mid) : tabs'[j] = IF j = k THEN two ELSE mid[j]
  BY <1>2, <1>3, <1>5, <1>6, PutFacts
<1> QED
  BY <1>2, <1>3, <1>5, <1>7

(* Saving takes the mark of the active tab away.                           *)
LEMMA SaveFacts ==
  ASSUME TabsTyped, Save
  PROVE  /\ tabs' \in Seq(Tab) /\ Len(tabs') = Len(tabs)
         /\ \A j \in 1 .. Len(tabs) :
              /\ tabs'[j].id = tabs[j].id /\ tabs'[j].path = tabs[j].path
              /\ tabs'[j].text = tabs[j].text
              /\ j # Place(active) => tabs'[j] = tabs[j]
<1> DEFINE k == Place(active)
           new == [tabs[k] EXCEPT !.modified = FALSE, !.blank = FALSE]
<1>1. active # 0
  BY DEF Save, SaveText
<1>2. tabs \in Seq(Tab) /\ k \in 1 .. Len(tabs) /\ tabs[k] \in Tab
  BY <1>1, ActiveFacts DEF TabsTyped
<1>3. /\ new \in Tab /\ new.id = tabs[k].id /\ new.path = tabs[k].path
      /\ new.text = tabs[k].text
  BY <1>2 DEF Tab
<1>4. tabs' = [tabs EXCEPT ![k] = new]
  BY DEF Save, SaveText
<1> HIDE DEF k, new
<1>5. /\ tabs' \in Seq(Tab) /\ Len(tabs') = Len(tabs)
      /\ \A j \in 1 .. Len(tabs) : tabs'[j] = IF j = k THEN new ELSE tabs[j]
  BY <1>2, <1>3, <1>4, PutFacts
<1>6. \A j \in 1 .. Len(tabs) : j # k => tabs'[j] = tabs[j]
  BY <1>5
<1>7. \A j \in 1 .. Len(tabs) :
        /\ tabs'[j].id = tabs[j].id /\ tabs'[j].path = tabs[j].path
        /\ tabs'[j].text = tabs[j].text
  BY <1>3, <1>5
<1> QED
  BY <1>5, <1>6, <1>7 DEF k

-----------------------------------------------------------------------------
(* The ids that are kept still have their tabs when no tab has gone.       *)
LEMMA TabsStay ==
  ASSUME TabsTyped, tabs' \in Seq(Tab), Len(tabs') >= Len(tabs),
         \A j \in 1 .. Len(tabs) : tabs'[j].id = tabs[j].id,
         active' = active \/ \E j \in 1 .. Len(tabs') : tabs'[j].id = active',
         dialog' = dialog \/ dialog' = NoDialog,
         tabCounter' \in Nat, edits' \in Nat
  PROVE  TabsTyped'
<1>1. 1 .. Len(tabs) \subseteq 1 .. Len(tabs')
  BY DEF TabsTyped
<1>2. ASSUME active' # 0 PROVE \E j \in 1 .. Len(tabs') : tabs'[j].id = active'
  BY <1>1, <1>2 DEF TabsTyped
<1>3. ASSUME dialog' # NoDialog
      PROVE  \E j \in 1 .. Len(tabs') : tabs'[j].id = dialog'
  BY <1>1, <1>3 DEF TabsTyped
<1> QED
  BY <1>2, <1>3 DEF TabsTyped

(* A tab is closed when no dialog is left.                                 *)
LEMMA TabsShrink ==
  ASSUME TabsTyped, NEW i \in 1 .. Len(tabs), CloseTab(i),
         dialog' = NoDialog, tabCounter' = tabCounter, edits' = edits
  PROVE  TabsTyped'
<1>1. /\ tabs' \in Seq(Tab)
      /\ active' # 0 => \E j \in 1 .. Len(tabs') : tabs'[j].id = active'
  BY CloseTabFacts
<1> QED
  BY <1>1 DEF TabsTyped

(* The requests under way when one more is sent.                           *)
LEMMA SendFacts ==
  ASSUME NetTyped, NEW kind \in Kinds, NEW p \in Paths, NEW text \in Nat,
         Send(kind, p, text)
  PROVE  /\ sent' \in Nat /\ flight' \subseteq Req
         /\ \A r \in flight' : r.n <= sent'
         /\ \A r, q \in flight' : r.n = q.n => r = q
         /\ flight' = flight \cup {Request(sent + 1, kind, p, text)}
         /\ Request(sent + 1, kind, p, text) \notin flight
<1> DEFINE new == Request(sent + 1, kind, p, text)
<1>1. /\ sent \in Nat /\ flight \subseteq Req
      /\ \A r \in flight : r.n \in Nat /\ r.n <= sent
      /\ \A r, q \in flight : r.n = q.n => r = q
  BY DEF NetTyped, Req
<1>2. new \in Req /\ new.n = sent + 1
  BY <1>1 DEF Request, Req
<1>3. sent' = sent + 1 /\ flight' = flight \cup {new}
  BY DEF Send
<1> HIDE DEF new
<1>4. \A r \in flight : r.n # new.n
  BY <1>1, <1>2
<1>5. \A r \in flight' : r.n <= sent'
  BY <1>1, <1>2, <1>3
<1>6. \A r, q \in flight' : r.n = q.n => r = q
  BY <1>1, <1>3, <1>4
<1> QED
  BY <1>1, <1>2, <1>3, <1>4, <1>5, <1>6 DEF new

-----------------------------------------------------------------------------
(* The parts of what is to be shown of the wish for one path.              *)
LEMMA WishQuiet ==
  ASSUME WishOK, upset \subseteq upset',
         \A p \in Paths \ upset' : wish'[p] = wish[p] /\ file'[p] = file[p],
         \A p \in Paths \ upset' :
           /\ \A r \in flight : r.kind \in Writes /\ r.path = p => r \in flight'
           /\ \A r \in flight' : r.kind \in Writes /\ r.path = p => r \in flight
  PROVE  WishOK'
<1> SUFFICES ASSUME NEW p \in Paths \ upset'
             PROVE  WishFrom(p)'
  BY DEF WishOK
<1>1. /\ WishFrom(p) /\ wish'[p] = wish[p] /\ file'[p] = file[p]
  BY DEF WishOK
<1>2. \A r \in flight \cup flight' :
        (Sets(r, p) \/ Makes(r, p)) => (r \in flight <=> r \in flight')
  BY DEF Sets, Makes, Writes
<1>3. (\E q \in flight : Makes(q, p)) <=> (\E q \in flight' : Makes(q, p))
  BY <1>2
<1>4. \A r : (\E q \in flight : Makes(q, p) /\ q.n > r.n)
               <=> (\E q \in flight' : Makes(q, p) /\ q.n > r.n)
  BY <1>2
<1>5. ASSUME \A r \in flight' : ~Sets(r, p)
      PROVE  wish'[p] = Made(file'[p], \E q \in flight' : Makes(q, p))
  <2>1. \A r \in flight : ~Sets(r, p)
    BY <1>2, <1>5
  <2> QED
    BY <1>1, <1>3, <2>1 DEF WishFrom, Made
<1>6. ASSUME NEW r \in flight', Sets(r, p),
             \A q \in flight' : Sets(q, p) => q.n <= r.n
      PROVE  wish'[p] = Made(Value(r), \E q \in flight' : Makes(q, p) /\ q.n > r.n)
  <2>1. r \in flight /\ \A q \in flight : Sets(q, p) => q.n <= r.n
    BY <1>2, <1>6
  <2>2. wish[p] = Made(Value(r), \E q \in flight : Makes(q, p) /\ q.n > r.n)
    BY <1>1, <1>6, <2>1 DEF WishFrom
  <2> QED
    BY <1>1, <1>4, <2>2 DEF Made
<1> QED
  BY <1>5, <1>6 DEF WishFrom, Sets, Makes, Value, Made

(* What the user saves or deletes is the last one for its path.            *)
LEMMA WishSends ==
  ASSUME NetTyped, WishOK, NEW kind \in {"save", "delete"}, NEW p \in Paths,
         NEW text \in Nat, Send(kind, p, text),
         wish' = [wish EXCEPT ![p] = Value(Request(sent + 1, kind, p, text))],
         file' = file, upset' = upset
  PROVE  WishOK'
<1> DEFINE new == Request(sent + 1, kind, p, text)
<1>1. /\ flight' = flight \cup {new}
      /\ new.n = sent + 1 /\ new.path = p /\ new.kind = kind
      /\ Sets(new, p) /\ ~Makes(new, p)
      /\ sent \in Nat /\ \A r \in flight : r.n \in Nat /\ r.n <= sent
      /\ wish \in [Paths -> Nat \cup {NoFile}]
  BY DEF Send, Request, Sets, Makes, NetTyped, Req
<1> DEFINE v == Value(new)
<1>2. wish' = [wish EXCEPT ![p] = v]
  OBVIOUS
<1> HIDE DEF new, v
<1>3. \A o \in Paths : wish'[o] = IF o = p THEN v ELSE wish[o]
  BY <1>1, <1>2
<1> SUFFICES ASSUME NEW o \in Paths \ upset'
             PROVE  WishFrom(o)'
  BY DEF WishOK
<1>4. CASE o # p
  <2>1. WishFrom(o) /\ wish'[o] = wish[o] /\ file'[o] = file[o]
    BY <1>3, <1>4 DEF WishOK
  <2>2. ~Sets(new, o) /\ ~Makes(new, o)
    BY <1>1, <1>4 DEF Sets, Makes
  <2>3. (\E q \in flight : Makes(q, o)) <=> (\E q \in flight' : Makes(q, o))
    BY <1>1, <2>2
  <2>4. \A r : (\E q \in flight : Makes(q, o) /\ q.n > r.n)
                 <=> (\E q \in flight' : Makes(q, o) /\ q.n > r.n)
    BY <1>1, <2>2
  <2>5. ASSUME \A r \in flight' : ~Sets(r, o)
        PROVE  wish'[o] = Made(file'[o], \E q \in flight' : Makes(q, o))
    BY <1>1, <2>1, <2>3, <2>5 DEF WishFrom, Made
  <2>6. ASSUME NEW r \in flight', Sets(r, o),
               \A q \in flight' : Sets(q, o) => q.n <= r.n
        PROVE  wish'[o] =
                 Made(Value(r), \E q \in flight' : Makes(q, o) /\ q.n > r.n)
    <3>1. r \in flight /\ \A q \in flight : Sets(q, o) => q.n <= r.n
      BY <1>1, <2>2, <2>6
    <3>2. wish[o] = Made(Value(r), \E q \in flight : Makes(q, o) /\ q.n > r.n)
      BY <2>1, <2>6, <3>1 DEF WishFrom
    <3> QED
      BY <2>1, <2>4, <3>2 DEF Made
  <2> QED
    BY <2>5, <2>6 DEF WishFrom, Sets, Makes, Value, Made
<1>5. CASE o = p
  <2>1. new \in flight' /\ Sets(new, o) /\ wish'[o] = v
    BY <1>1, <1>3, <1>5
  <2>2. ASSUME NEW r \in flight', Sets(r, o),
               \A q \in flight' : Sets(q, o) => q.n <= r.n
        PROVE  wish'[o] =
                 Made(Value(r), \E q \in flight' : Makes(q, o) /\ q.n > r.n)
    <3>1. r = new
      BY <1>1, <2>1, <2>2
    <3>2. \A q \in flight' : q.n <= new.n
      BY <1>1
    <3>3. ~\E q \in flight' : Makes(q, o) /\ q.n > new.n
      BY <1>1, <3>2
    <3> QED
      BY <2>1, <3>1, <3>3 DEF v, Made
  <2> QED
    BY <2>1, <2>2 DEF WishFrom, Sets, Makes, Value, Made
<1> QED
  BY <1>4, <1>5

(* A file that is created is made where there was none.                    *)
LEMMA WishCreates ==
  ASSUME NetTyped, WishOK, NEW p \in Paths, Send("create", p, 0),
         wish' = IF wish[p] = NoFile THEN [wish EXCEPT ![p] = 0] ELSE wish,
         file' = file, upset' = upset
  PROVE  WishOK'
<1> DEFINE new == Request(sent + 1, "create", p, 0)
<1>1. /\ flight' = flight \cup {new}
      /\ new.n = sent + 1 /\ new.path = p
      /\ Makes(new, p) /\ \A o : ~Sets(new, o)
      /\ sent \in Nat /\ \A r \in flight : r.n \in Nat /\ r.n <= sent
      /\ wish \in [Paths -> Nat \cup {NoFile}]
  BY DEF Send, Request, Sets, Makes, NetTyped, Req
<1> HIDE DEF new
<1>2. \A o \in Paths : wish'[o] = IF o = p THEN Made(wish[p], TRUE) ELSE wish[o]
  BY <1>1 DEF Made
<1> SUFFICES ASSUME NEW o \in Paths \ upset'
             PROVE  WishFrom(o)'
  BY DEF WishOK
<1>3. WishFrom(o) /\ file'[o] = file[o]
  BY DEF WishOK
<1>4. \A r \in flight' : Sets(r, o) => r \in flight /\ r.n < new.n
  BY <1>1
<1>5. CASE o # p
  <2>1. wish'[o] = wish[o] /\ ~Makes(new, o)
    BY <1>1, <1>2, <1>5 DEF Makes
  <2>2. (\E q \in flight : Makes(q, o)) <=> (\E q \in flight' : Makes(q, o))
    BY <1>1, <2>1
  <2>3. \A r : (\E q \in flight : Makes(q, o) /\ q.n > r.n)
                 <=> (\E q \in flight' : Makes(q, o) /\ q.n > r.n)
    BY <1>1, <2>1
  <2>4. ASSUME \A r \in flight' : ~Sets(r, o)
        PROVE  wish'[o] = Made(file'[o], \E q \in flight' : Makes(q, o))
    BY <1>1, <1>3, <2>1, <2>2, <2>4 DEF WishFrom, Made
  <2>5. ASSUME NEW r \in flight', Sets(r, o),
               \A q \in flight' : Sets(q, o) => q.n <= r.n
        PROVE  wish'[o] =
                 Made(Value(r), \E q \in flight' : Makes(q, o) /\ q.n > r.n)
    <3>1. r \in flight /\ \A q \in flight : Sets(q, o) => q.n <= r.n
      BY <1>1, <1>4, <2>5
    <3>2. wish[o] = Made(Value(r), \E q \in flight : Makes(q, o) /\ q.n > r.n)
      BY <1>3, <2>5, <3>1 DEF WishFrom
    <3> QED
      BY <2>1, <2>3, <3>2 DEF Made
  <2> QED
    BY <2>4, <2>5 DEF WishFrom, Sets, Makes, Value, Made
<1>6. CASE o = p
  <2>1. /\ wish'[o] = Made(wish[o], TRUE)
        /\ new \in flight' /\ Makes(new, o)
    BY <1>1, <1>2, <1>6
  <2>2. \A text, made : Made(Made(text, made), TRUE) = Made(text, TRUE)
    BY IdeAssumption DEF Made
  <2>3. ASSUME \A r \in flight' : ~Sets(r, o)
        PROVE  wish'[o] = Made(file'[o], \E q \in flight' : Makes(q, o))
    <3>1. wish[o] = Made(file[o], \E q \in flight : Makes(q, o))
      BY <1>1, <1>3, <2>3 DEF WishFrom
    <3>2. wish'[o] = Made(file[o], TRUE)
      BY <2>1, <2>2, <3>1
    <3> QED
      BY <1>3, <2>1, <3>2 DEF Made
  <2>4. ASSUME NEW r \in flight', Sets(r, o),
               \A q \in flight' : Sets(q, o) => q.n <= r.n
        PROVE  wish'[o] =
                 Made(Value(r), \E q \in flight' : Makes(q, o) /\ q.n > r.n)
    <3>1. r \in flight /\ \A q \in flight : Sets(q, o) => q.n <= r.n
      BY <1>1, <1>4, <2>4
    <3>2. wish[o] = Made(Value(r), \E q \in flight : Makes(q, o) /\ q.n > r.n)
      BY <1>3, <2>4, <3>1 DEF WishFrom
    <3>3. wish'[o] = Made(Value(r), TRUE)
      BY <2>1, <2>2, <3>2
    <3>4. new.n > r.n
      BY <1>1, <3>1
    <3> QED
      BY <2>1, <3>3, <3>4 DEF Made
  <2> QED
    BY <2>3, <2>4 DEF WishFrom, Sets, Makes, Value, Made
<1> QED
  BY <1>5, <1>6

(* The server takes the oldest request that writes a file.                 *)
LEMMA WishHandles ==
  ASSUME NetTyped, WishOK, NEW r \in flight, Handle(r)
  PROVE  WishOK'
<1>1. /\ r.kind \in Writes /\ flight' = flight \ {r} /\ wish' = wish
      /\ r.path \in Paths /\ r.n \in Nat
      /\ file' = [file EXCEPT ![r.path] = Stored(r)]
      /\ file \in [Paths -> Nat \cup {NoFile}]
      /\ \A q \in flight : q.n \in Nat /\ (q.n = r.n => q = r)
  BY DEF Handle, NetTyped, Req
<1>2. \A p \in Paths : file'[p] = IF p = r.path THEN Stored(r) ELSE file[p]
  BY <1>1
<1> SUFFICES ASSUME NEW p \in Paths \ upset'
             PROVE  WishFrom(p)'
  BY DEF WishOK
<1>3. WishFrom(p)
  BY DEF WishOK, Handle
<1>4. CASE p # r.path
  <2>1. ~Sets(r, p) /\ ~Makes(r, p) /\ file'[p] = file[p]
    BY <1>2, <1>4 DEF Sets, Makes
  <2>2. (\E q \in flight : Makes(q, p)) <=> (\E q \in flight' : Makes(q, p))
    BY <1>1, <2>1
  <2>3. \A s : (\E q \in flight : Makes(q, p) /\ q.n > s.n)
                 <=> (\E q \in flight' : Makes(q, p) /\ q.n > s.n)
    BY <1>1, <2>1
  <2>4. ASSUME \A s \in flight' : ~Sets(s, p)
        PROVE  wish'[p] = Made(file'[p], \E q \in flight' : Makes(q, p))
    BY <1>1, <1>3, <2>1, <2>2, <2>4 DEF WishFrom, Made
  <2>5. ASSUME NEW s \in flight', Sets(s, p),
               \A q \in flight' : Sets(q, p) => q.n <= s.n
        PROVE  wish'[p] =
                 Made(Value(s), \E q \in flight' : Makes(q, p) /\ q.n > s.n)
    <3>1. s \in flight /\ \A q \in flight : Sets(q, p) => q.n <= s.n
      BY <1>1, <2>1, <2>5
    <3>2. wish[p] = Made(Value(s), \E q \in flight : Makes(q, p) /\ q.n > s.n)
      BY <1>3, <2>5, <3>1 DEF WishFrom
    <3> QED
      BY <1>1, <2>3, <3>2 DEF Made
  <2> QED
    BY <2>4, <2>5 DEF WishFrom, Sets, Makes, Value, Made
<1>5. CASE p = r.path
  <2>1. ~Late(r)
    BY <1>5 DEF Handle
  <2>2. \A q \in flight' : Sets(q, p) \/ Makes(q, p) => q.n > r.n
    BY <1>1, <1>5, <2>1 DEF Late, Sets, Makes, Writes
  <2>3. CASE r.kind = "create"
    <3>1. Makes(r, p) /\ ~Sets(r, p) /\ file'[p] = Made(file[p], TRUE)
      BY <1>2, <1>5, <2>3 DEF Makes, Sets, Made, Stored
    <3>2. ASSUME \A s \in flight' : ~Sets(s, p)
          PROVE  wish'[p] = Made(file'[p], \E q \in flight' : Makes(q, p))
      <4>1. \A s \in flight : ~Sets(s, p)
        BY <1>1, <3>1, <3>2
      <4>2. wish[p] = Made(file[p], TRUE)
        BY <1>3, <3>1, <4>1 DEF WishFrom, Made
      <4> QED
        BY <1>1, <3>1, <4>2 DEF Made
    <3>3. ASSUME NEW s \in flight', Sets(s, p),
                 \A q \in flight' : Sets(q, p) => q.n <= s.n
          PROVE  wish'[p] =
                   Made(Value(s), \E q \in flight' : Makes(q, p) /\ q.n > s.n)
      <4>1. s \in flight /\ \A q \in flight : Sets(q, p) => q.n <= s.n
        BY <1>1, <3>1, <3>3
      <4>2. wish[p] = Made(Value(s), \E q \in flight : Makes(q, p) /\ q.n > s.n)
        BY <1>3, <3>3, <4>1 DEF WishFrom
      <4>3. ~(r.n > s.n)
        BY <1>1, <2>2, <3>3
      <4>4. (\E q \in flight : Makes(q, p) /\ q.n > s.n)
              <=> (\E q \in flight' : Makes(q, p) /\ q.n > s.n)
        BY <1>1, <4>3
      <4> QED
        BY <1>1, <4>2, <4>4 DEF Made
    <3> QED
      BY <3>2, <3>3 DEF WishFrom, Sets, Makes, Value, Made
  <2>4. CASE r.kind \in {"save", "delete"}
    <3>1. Sets(r, p) /\ file'[p] = Value(r)
      BY <1>2, <1>5, <2>4 DEF Sets, Value, Stored
    <3>2. ASSUME \A s \in flight' : ~Sets(s, p)
          PROVE  wish'[p] = Made(file'[p], \E q \in flight' : Makes(q, p))
      <4>1. \A q \in flight : Sets(q, p) => q.n <= r.n
        BY <1>1, <3>2
      <4>2. wish[p] = Made(Value(r), \E q \in flight : Makes(q, p) /\ q.n > r.n)
        BY <1>3, <3>1, <4>1 DEF WishFrom
      <4>3. (\E q \in flight : Makes(q, p) /\ q.n > r.n)
              <=> (\E q \in flight' : Makes(q, p))
        BY <1>1, <2>2
      <4> QED
        BY <1>1, <3>1, <4>2, <4>3 DEF Made
    <3>3. ASSUME NEW s \in flight', Sets(s, p),
                 \A q \in flight' : Sets(q, p) => q.n <= s.n
          PROVE  wish'[p] =
                   Made(Value(s), \E q \in flight' : Makes(q, p) /\ q.n > s.n)
      <4>1. s \in flight /\ s.n > r.n /\ s.n \in Nat
        BY <1>1, <2>2, <3>3
      <4>2. \A q \in flight : Sets(q, p) => q.n <= s.n
        BY <1>1, <3>3, <4>1
      <4>3. wish[p] = Made(Value(s), \E q \in flight : Makes(q, p) /\ q.n > s.n)
        BY <1>3, <3>3, <4>1, <4>2 DEF WishFrom
      <4>4. (\E q \in flight : Makes(q, p) /\ q.n > s.n)
              <=> (\E q \in flight' : Makes(q, p) /\ q.n > s.n)
        BY <1>1, <4>1
      <4> QED
        BY <1>1, <4>3, <4>4 DEF Made
    <3> QED
      BY <3>2, <3>3 DEF WishFrom, Sets, Makes, Value, Made
  <2> QED
    BY <1>1, <2>3, <2>4 DEF Writes
<1> QED
  BY <1>4, <1>5

-----------------------------------------------------------------------------
(* No tab is made and no text is asked for.                                *)
LEMMA OneKeeps ==
  ASSUME OneTab, doubled \subseteq doubled',
         \A p \in Paths \ doubled', r \in flight' :
           BringsText(r, p) => r \in flight,
         \A i \in 1 .. Len(tabs') : \E k \in 1 .. Len(tabs) :
           tabs'[i].path = tabs[k].path,
         \A i, j \in 1 .. Len(tabs') : \E k, l \in 1 .. Len(tabs) :
           /\ tabs'[i].path = tabs[k].path /\ tabs'[j].path = tabs[l].path
           /\ k = l => i = j
  PROVE  OneTab'
<1> SUFFICES ASSUME NEW p \in Paths \ doubled'
             PROVE  /\ \A i, j \in 1 .. Len(tabs') :
                         tabs'[i].path = p /\ tabs'[j].path = p => i = j
                    /\ \A r \in flight' : BringsText(r, p) =>
                         /\ \A i \in 1 .. Len(tabs') : tabs'[i].path # p
                         /\ \A q \in flight' : BringsText(q, p) => q = r
  BY DEF OneTab, BringsText
<1>1. p \in Paths \ doubled
  OBVIOUS
<1>2. \A i, j \in 1 .. Len(tabs') :
        tabs'[i].path = p /\ tabs'[j].path = p => i = j
  <2>1. SUFFICES ASSUME NEW i \in 1 .. Len(tabs'), NEW j \in 1 .. Len(tabs'),
                        tabs'[i].path = p, tabs'[j].path = p
                 PROVE  i = j
    OBVIOUS
  <2>2. PICK k \in 1 .. Len(tabs), l \in 1 .. Len(tabs) :
          /\ tabs'[i].path = tabs[k].path /\ tabs'[j].path = tabs[l].path
          /\ k = l => i = j
    OBVIOUS
  <2>3. k = l
    BY SMTT(30), <1>1, <2>1, <2>2 DEF OneTab
  <2> QED
    BY <2>2, <2>3
<1>3. ASSUME NEW r \in flight', BringsText(r, p)
      PROVE  /\ \A i \in 1 .. Len(tabs') : tabs'[i].path # p
             /\ \A q \in flight' : BringsText(q, p) => q = r
  <2>1. \A q \in flight' : BringsText(q, p) => q \in flight
    BY <1>3
  <2>2. /\ \A i \in 1 .. Len(tabs) : tabs[i].path # p
        /\ \A q \in flight : BringsText(q, p) => q = r
    BY <1>1, <1>3, <2>1 DEF OneTab
  <2>3. ASSUME NEW i \in 1 .. Len(tabs') PROVE tabs'[i].path # p
    <3>1. PICK k \in 1 .. Len(tabs) : tabs'[i].path = tabs[k].path
      OBVIOUS
    <3> QED
      BY <2>2, <3>1
  <2>4. \A q \in flight' : BringsText(q, p) => q = r
    BY <2>1, <2>2
  <2> QED
    BY <2>3, <2>4
<1> QED
  BY <1>2, <1>3

(* The same when the tabs stay where they are.                             *)
LEMMA OneStays ==
  ASSUME OneTab, doubled \subseteq doubled',
         \A p \in Paths \ doubled', r \in flight' :
           BringsText(r, p) => r \in flight,
         Len(tabs') = Len(tabs),
         \A i \in 1 .. Len(tabs) : tabs'[i].path = tabs[i].path
  PROVE  OneTab'
BY OneKeeps

(* And when one is closed.                                                 *)
LEMMA OneCloses ==
  ASSUME TabsTyped, OneTab, doubled \subseteq doubled',
         \A p \in Paths \ doubled', r \in flight' :
           BringsText(r, p) => r \in flight,
         NEW k \in 1 .. Len(tabs), CloseTab(k)
  PROVE  OneTab'
<1>1. /\ Len(tabs') = Len(tabs) - 1 /\ Len(tabs) \in Nat
      /\ \A j \in 1 .. Len(tabs') :
           tabs'[j] = IF j < k THEN tabs[j] ELSE tabs[j + 1]
  BY CloseTabFacts DEF TabsTyped
<1> DEFINE Old(j) == IF j < k THEN j ELSE j + 1
<1>2. \A j \in 1 .. Len(tabs') :
        Old(j) \in 1 .. Len(tabs) /\ tabs'[j] = tabs[Old(j)]
  BY <1>1
<1>3. \A i, j \in 1 .. Len(tabs') : Old(i) = Old(j) => i = j
  BY <1>1
<1> HIDE DEF Old
<1>4. \A i \in 1 .. Len(tabs') : \E l \in 1 .. Len(tabs) :
        tabs'[i].path = tabs[l].path
  BY <1>2
<1>5. \A i, j \in 1 .. Len(tabs') : \E l, m \in 1 .. Len(tabs) :
        /\ tabs'[i].path = tabs[l].path /\ tabs'[j].path = tabs[m].path
        /\ l = m => i = j
  BY <1>2, <1>3
<1> QED
  BY <1>4, <1>5, OneKeeps

(* What is sent to write a path brings no text, and there is no other      *)
(* request that was not under way.                                         *)
LEMMA WriteSends ==
  ASSUME NEW kind \in Writes, NEW o \in Paths, NEW text, Send(kind, o, text)
  PROVE  /\ \A p, r : r \in flight' /\ BringsText(r, p) => r \in flight
         /\ \A r \in flight' : r.kind = "opened" => r \in flight
         /\ \A r \in flight' : r.path # o => r \in flight
<1> DEFINE new == Request(sent + 1, kind, o, text)
<1>1. flight' = flight \cup {new} /\ new.path = o /\ new.kind \in Writes
  BY DEF Send, Request
<1> HIDE DEF new
<1>2. new.kind \notin {"open", "opened"}
  BY <1>1 DEF Writes
<1> QED
  BY <1>1, <1>2 DEF BringsText

-----------------------------------------------------------------------------
(* A path whose wish is as before, and whose tabs without a mark and       *)
(* requests under way were there before.                                   *)
LEMMA UnmarkedKeeps ==
  ASSUME NEW p, UnmarkedAt(p), wish'[p] = wish[p],
         \A i \in 1 .. Len(tabs') : tabs'[i].path = p /\ ~tabs'[i].modified =>
           \E k \in 1 .. Len(tabs) : tabs'[i] = tabs[k],
         \A r \in flight' : r.path = p => r \in flight
  PROVE  UnmarkedAt(p)'
<1>1. ASSUME NEW i \in 1 .. Len(tabs'), tabs'[i].path = p,
             ~tabs'[i].modified, ~tabs'[i].blank
      PROVE  wish'[p] \in {tabs'[i].text, NoFile}
  <2>1. PICK k \in 1 .. Len(tabs) : tabs'[i] = tabs[k]
    BY <1>1
  <2> QED
    BY <1>1, <2>1 DEF UnmarkedAt
<1>2. \A r \in flight' : r.kind = "opened" /\ r.path = p =>
        wish'[p] \in {r.text, NoFile}
  BY DEF UnmarkedAt
<1>3. ASSUME NEW r \in flight', NEW q \in flight', BringsText(r, p),
             q.kind \in Writes, q.path = p
      PROVE  wish'[p] = NoFile
  <2>1. r \in flight /\ q \in flight
    BY <1>3 DEF BringsText
  <2> QED
    BY <1>3, <2>1 DEF UnmarkedAt
<1> QED
  BY <1>1, <1>2, <1>3 DEF UnmarkedAt, BringsText

(* What is left after a tab is closed was there before.                    *)
LEMMA ClosingKeeps ==
  ASSUME TabsTyped, NEW k \in 1 .. Len(tabs), CloseTab(k)
  PROVE  /\ \A i \in 1 .. Len(tabs') : \E j \in 1 .. Len(tabs) :
              tabs'[i] = tabs[j] /\ j # k
<1>1. /\ Len(tabs') = Len(tabs) - 1 /\ Len(tabs) \in Nat
      /\ \A j \in 1 .. Len(tabs') :
           tabs'[j] = IF j < k THEN tabs[j] ELSE tabs[j + 1]
  BY CloseTabFacts DEF TabsTyped
<1> SUFFICES ASSUME NEW i \in 1 .. Len(tabs')
             PROVE  \E j \in 1 .. Len(tabs) : tabs'[i] = tabs[j] /\ j # k
  OBVIOUS
<1>2. CASE i < k
  BY <1>1, <1>2
<1>3. CASE ~(i < k)
  <2>1. i + 1 \in 1 .. Len(tabs) /\ i + 1 # k /\ tabs'[i] = tabs[i + 1]
    BY <1>1, <1>3
  <2> QED
    BY <2>1
<1> QED
  BY <1>2, <1>3

-----------------------------------------------------------------------------
(* One step of the program keeps the invariant.  First the steps that      *)
(* touch neither the network nor the wishes of the user.                   *)
LEMMA QuietKeeps ==
  ASSUME NetTyped, WishOK,
         UNCHANGED <<sent, flight, file, wish, upset>>
  PROVE  NetTyped' /\ WishOK'
<1>1. NetTyped'
  BY DEF NetTyped
<1>2. WishOK'
  BY WishQuiet
<1> QED
  BY <1>1, <1>2

(* A tab that is closed with nothing else.                                 *)
LEMMA CloseInv ==
  ASSUME IInv, NEW k \in 1 .. Len(tabs), CloseTab(k), dialog' = NoDialog,
         UNCHANGED <<tabCounter, edits, sent, flight, file, wish, upset, doubled, early>>
  PROVE  IInv'
<1>1. TabsTyped' /\ NetTyped' /\ WishOK'
  BY TabsShrink, QuietKeeps DEF IInv
<1>2. OneTab'
  <2>1. \A p \in Paths \ doubled', r \in flight' :
          BringsText(r, p) => r \in flight
    OBVIOUS
  <2> QED
    BY <2>1, OneCloses DEF IInv
<1>3. UnmarkedOK'
  <2> SUFFICES ASSUME NEW p \in Paths \ (upset' \cup doubled' \cup early')
               PROVE  UnmarkedAt(p)'
    BY DEF UnmarkedOK
  <2>1. UnmarkedAt(p)
    BY DEF IInv, UnmarkedOK
  <2>2. \A i \in 1 .. Len(tabs') : \E j \in 1 .. Len(tabs) : tabs'[i] = tabs[j]
    BY ClosingKeeps DEF IInv
  <2> QED
    BY <2>1, <2>2, UnmarkedKeeps
<1> QED
  BY <1>1, <1>2, <1>3 DEF IInv

LEMMA ClickTabInv ==
  ASSUME IInv, ClickTab
  PROVE  IInv'
<1>1. UNCHANGED <<tabs, dialog, tabCounter, edits, sent, flight, file, wish,
                  upset, doubled, early>>
  BY DEF ClickTab
<1>2. \E j \in 1 .. Len(tabs) : tabs[j].id = active'
  BY DEF ClickTab, TabIds
<1> QED
  BY <1>1, <1>2, QuietKeeps DEF IInv, TabsTyped, OneTab, UnmarkedOK, UnmarkedAt, BringsText

LEMMA EditInv ==
  ASSUME IInv, Edit
  PROVE  IInv'
<1>1. UNCHANGED <<active, dialog, tabCounter, sent, flight, file, wish, upset,
                  doubled, early>>
  BY DEF Edit, EditIn
<1>2. /\ tabs' \in Seq(Tab) /\ Len(tabs') = Len(tabs) /\ edits' \in Nat
      /\ \A j \in 1 .. Len(tabs) :
           /\ tabs'[j].id = tabs[j].id /\ tabs'[j].path = tabs[j].path
           /\ ~tabs'[j].modified => tabs'[j] = tabs[j]
  BY EditFacts DEF IInv
<1>3. TabsTyped'
  <2>1. Len(tabs') >= Len(tabs) /\ tabCounter' \in Nat
    BY <1>1, <1>2 DEF IInv, TabsTyped
  <2> QED
    BY <1>1, <1>2, <2>1, TabsStay DEF IInv
<1>4. NetTyped' /\ WishOK'
  BY <1>1, QuietKeeps DEF IInv
<1>5. OneTab'
  BY <1>1, <1>2, OneStays DEF IInv
<1>6. UnmarkedOK'
  <2> SUFFICES ASSUME NEW p \in Paths \ (upset' \cup doubled' \cup early')
               PROVE  UnmarkedAt(p)'
    BY DEF UnmarkedOK
  <2>1. UnmarkedAt(p) /\ wish'[p] = wish[p] /\ flight' = flight
    BY <1>1 DEF IInv, UnmarkedOK
  <2>2. \A i \in 1 .. Len(tabs') : ~tabs'[i].modified =>
          \E k \in 1 .. Len(tabs) : tabs'[i] = tabs[k]
    BY <1>2
  <2> QED
    BY <2>1, <2>2, UnmarkedKeeps
<1> QED
  BY <1>3, <1>4, <1>5, <1>6 DEF IInv

LEMMA CloseIconInv ==
  ASSUME IInv, NEW i \in 1 .. Len(tabs), CloseIcon(i)
  PROVE  IInv'
<1>1. UNCHANGED <<tabCounter, edits, sent, flight, file, wish, upset, doubled, early>>
  BY DEF CloseIcon
<1>2. CASE tabs[i].modified
  <2>1. UNCHANGED <<tabs, active>> /\ dialog' = tabs[i].id
    BY <1>2 DEF CloseIcon
  <2> QED
    BY <1>1, <2>1, QuietKeeps DEF IInv, TabsTyped, OneTab, UnmarkedOK, UnmarkedAt, BringsText
<1>3. CASE ~tabs[i].modified
  <2>1. CloseTab(i) /\ dialog' = NoDialog
    BY <1>3 DEF CloseIcon, UserActs
  <2> QED
    BY <1>1, <2>1, CloseInv
<1> QED
  BY <1>2, <1>3

LEMMA CloseByKeyInv ==
  ASSUME IInv, CloseByKey
  PROVE  IInv'
<1>1. Place(active) \in 1 .. Len(tabs)
  BY ActiveFacts DEF IInv, CloseByKey
<1> QED
  BY <1>1, CloseInv DEF CloseByKey, UserActs

LEMMA DialogDropInv ==
  ASSUME IInv, DialogDrop
  PROVE  IInv'
<1>1. Place(dialog) \in 1 .. Len(tabs)
  BY PlaceFacts DEF IInv, TabsTyped, DialogDrop
<1> QED
  BY <1>1, CloseInv DEF DialogDrop

LEMMA DialogCancelInv ==
  ASSUME IInv, DialogCancel
  PROVE  IInv'
<1>1. UNCHANGED <<tabs, active, tabCounter, edits, sent, flight, file, wish,
                  upset, doubled, early>> /\ dialog' = NoDialog
  BY DEF DialogCancel
<1> QED
  BY <1>1, QuietKeeps DEF IInv, TabsTyped, OneTab, UnmarkedOK, UnmarkedAt, BringsText

-----------------------------------------------------------------------------
(* The steps that send a request.                                          *)
LEMMA SaveInv ==
  ASSUME IInv, Save
  PROVE  IInv'
<1> DEFINE k == Place(active)
           o == ActiveTab.path
<1>1. /\ k \in 1 .. Len(tabs) /\ ActiveTab = tabs[k]
      /\ o \in Paths /\ ActiveTab.text \in Nat
  BY ActiveFacts DEF IInv, Save, SaveText, Tab
<1>2. /\ Send("save", o, ActiveTab.text)
      /\ wish' = [wish EXCEPT ![o] = ActiveTab.text]
      /\ UNCHANGED <<active, dialog, tabCounter, edits, file, upset, doubled, early>>
  BY DEF Save, SaveText
<1>3. /\ tabs' \in Seq(Tab) /\ Len(tabs') = Len(tabs)
      /\ \A j \in 1 .. Len(tabs) :
           /\ tabs'[j].id = tabs[j].id /\ tabs'[j].path = tabs[j].path
           /\ tabs'[j].text = tabs[j].text
           /\ j # k => tabs'[j] = tabs[j]
  BY SaveFacts DEF IInv
<1> HIDE DEF k
<1>4. TabsTyped'
  <2>1. Len(tabs') >= Len(tabs) /\ tabCounter' \in Nat /\ edits' \in Nat
    BY <1>2, <1>3 DEF IInv, TabsTyped
  <2> QED
    BY <1>2, <1>3, <2>1, TabsStay DEF IInv
<1>5. NetTyped'
  BY <1>1, <1>2, SendFacts DEF IInv, NetTyped, Kinds, Writes
<1>6. WishOK'
  <2>1. Value(Request(sent + 1, "save", o, ActiveTab.text)) = ActiveTab.text
    BY DEF Value, Request
  <2> QED
    BY <1>1, <1>2, <2>1, WishSends DEF IInv
<1>7. /\ \A p, r : r \in flight' /\ BringsText(r, p) => r \in flight
      /\ \A r \in flight' : r.kind = "opened" => r \in flight
      /\ \A r \in flight' : r.path # o => r \in flight
  <2>1. "save" \in Writes
    BY DEF Writes
  <2> QED
    BY <1>1, <1>2, <2>1, WriteSends
<1>8. OneTab'
  BY <1>2, <1>3, <1>7, OneStays DEF IInv
<1>9. UnmarkedOK'
  <2> SUFFICES ASSUME NEW p \in Paths \ (upset' \cup doubled' \cup early')
               PROVE  UnmarkedAt(p)'
    BY DEF UnmarkedOK
  <2>1. UnmarkedAt(p) /\ wish \in [Paths -> Nat \cup {NoFile}]
    BY <1>2 DEF IInv, UnmarkedOK, NetTyped
  <2>2. CASE p # o
    <3>1. wish'[p] = wish[p]
      BY <1>2, <2>1, <2>2
    <3>2. \A i \in 1 .. Len(tabs') : tabs'[i].path = p =>
            \E j \in 1 .. Len(tabs) : tabs'[i] = tabs[j] /\ tabs[j].path = p
      BY <1>1, <1>3, <2>2
    <3> QED
      BY <1>7, <2>1, <2>2, <3>1, <3>2, UnmarkedKeeps
  <2>3. CASE p = o
    <3>1. wish'[p] = ActiveTab.text
      BY <1>2, <2>1, <2>3
    <3>2. p \in Paths \ doubled
      BY <1>2
    <3>3. \A i \in 1 .. Len(tabs) : tabs[i].path = p => i = k
      BY <1>1, <2>3, <3>2 DEF IInv, OneTab
    <3>4. \A i \in 1 .. Len(tabs') :
            tabs'[i].path = p => tabs'[i].text = ActiveTab.text
      BY <1>1, <1>3, <3>3
    <3>5. \A r \in flight : ~BringsText(r, p)
      BY <1>1, <2>3, <3>2 DEF IInv, OneTab
    <3>6. \A r \in flight' : ~BringsText(r, p)
      BY <1>7, <3>5
    <3> QED
      BY <3>1, <3>4, <3>6 DEF UnmarkedAt, BringsText
  <2> QED
    BY <2>2, <2>3
<1> QED
  BY <1>4, <1>5, <1>6, <1>8, <1>9 DEF IInv

LEMMA DialogSaveInv ==
  ASSUME IInv, DialogSave
  PROVE  IInv'
<1> DEFINE k == Place(dialog)
           o == tabs[k].path
           text == tabs[k].text
<1>1. /\ k \in 1 .. Len(tabs) /\ tabs[k] \in Tab
      /\ o \in Paths /\ text \in Nat
  <2>1. dialog # NoDialog
    BY DEF DialogSave, DialogSaves
  <2>2. k \in 1 .. Len(tabs) /\ tabs \in Seq(Tab)
    BY <2>1, PlaceFacts DEF IInv, TabsTyped
  <2>3. tabs[k] \in Tab
    BY <2>2
  <2> QED
    BY <2>2, <2>3 DEF Tab
<1>2. /\ Send("save", o, text)
      /\ wish' = [wish EXCEPT ![o] = text]
      /\ CloseTab(k) /\ dialog' = NoDialog
      /\ UNCHANGED <<tabCounter, edits, file, upset, doubled, early>>
  BY DEF DialogSave, DialogSaves
<1> HIDE DEF k
<1>3. \A i \in 1 .. Len(tabs') : \E j \in 1 .. Len(tabs) :
        tabs'[i] = tabs[j] /\ j # k
  BY <1>1, <1>2, ClosingKeeps DEF IInv
<1>4. TabsTyped'
  BY <1>1, <1>2, TabsShrink DEF IInv
<1>5. NetTyped'
  BY <1>1, <1>2, SendFacts DEF IInv, NetTyped, Kinds, Writes
<1>6. WishOK'
  <2>1. Value(Request(sent + 1, "save", o, text)) = text
    BY DEF Value, Request
  <2> QED
    BY <1>1, <1>2, <2>1, WishSends DEF IInv
<1>7. /\ \A p, r : r \in flight' /\ BringsText(r, p) => r \in flight
      /\ \A r \in flight' : r.kind = "opened" => r \in flight
      /\ \A r \in flight' : r.path # o => r \in flight
  <2>1. "save" \in Writes
    BY DEF Writes
  <2> QED
    BY <1>1, <1>2, <2>1, WriteSends
<1>8. OneTab'
  BY <1>1, <1>2, <1>7, OneCloses DEF IInv
<1>9. UnmarkedOK'
  <2> SUFFICES ASSUME NEW p \in Paths \ (upset' \cup doubled' \cup early')
               PROVE  UnmarkedAt(p)'
    BY DEF UnmarkedOK
  <2>1. UnmarkedAt(p) /\ wish \in [Paths -> Nat \cup {NoFile}]
    BY <1>2 DEF IInv, UnmarkedOK, NetTyped
  <2>2. CASE p # o
    <3>1. wish'[p] = wish[p]
      BY <1>2, <2>1, <2>2
    <3> QED
      BY <1>3, <1>7, <2>1, <2>2, <3>1, UnmarkedKeeps
  <2>3. CASE p = o
    <3>1. p \in Paths \ doubled
      BY <1>2
    <3>2. \A i \in 1 .. Len(tabs) : tabs[i].path = p => i = k
      BY <1>1, <2>3, <3>1 DEF IInv, OneTab
    <3>3. \A i \in 1 .. Len(tabs') : tabs'[i].path # p
      BY <1>3, <3>2
    <3>4. \A r \in flight : ~BringsText(r, p)
      BY <1>1, <2>3, <3>1 DEF IInv, OneTab
    <3>5. \A r \in flight' : ~BringsText(r, p)
      BY <1>7, <3>4
    <3> QED
      BY <3>3, <3>5 DEF UnmarkedAt, BringsText
  <2> QED
    BY <2>2, <2>3
<1> QED
  BY <1>4, <1>5, <1>6, <1>8, <1>9 DEF IInv

LEMMA DeleteItemInv ==
  ASSUME IInv, NEW o \in Paths, DeleteItem(o)
  PROVE  IInv'
<1>1. /\ Send("delete", o, 0) /\ wish' = [wish EXCEPT ![o] = NoFile]
      /\ UNCHANGED <<tabs, active, dialog, tabCounter, edits, file, upset, doubled,
                     early>>
  BY DEF DeleteItem
<1>2. TabsTyped'
  BY <1>1 DEF IInv, TabsTyped
<1>3. NetTyped'
  BY <1>1, SendFacts DEF IInv, NetTyped, Kinds, Writes
<1>4. WishOK'
  <2>1. Value(Request(sent + 1, "delete", o, 0)) = NoFile
    BY DEF Value, Request
  <2> QED
    BY <1>1, <2>1, WishSends DEF IInv
<1>5. /\ \A p, r : r \in flight' /\ BringsText(r, p) => r \in flight
      /\ \A r \in flight' : r.kind = "opened" => r \in flight
      /\ \A r \in flight' : r.path # o => r \in flight
  <2>1. "delete" \in Writes
    BY DEF Writes
  <2> QED
    BY <1>1, <2>1, WriteSends
<1>6. OneTab'
  BY <1>1, <1>5, OneStays DEF IInv
<1>7. UnmarkedOK'
  <2> SUFFICES ASSUME NEW p \in Paths \ (upset' \cup doubled' \cup early')
               PROVE  UnmarkedAt(p)'
    BY DEF UnmarkedOK
  <2>1. UnmarkedAt(p) /\ wish \in [Paths -> Nat \cup {NoFile}]
    BY <1>1 DEF IInv, UnmarkedOK, NetTyped
  <2>2. CASE p # o
    <3>1. wish'[p] = wish[p]
      BY <1>1, <2>1, <2>2
    <3> QED
      BY <1>1, <1>5, <2>1, <2>2, <3>1, UnmarkedKeeps
  <2>3. CASE p = o
    <3>1. wish'[p] = NoFile
      BY <1>1, <2>1, <2>3
    <3> QED
      BY <3>1 DEF UnmarkedAt
  <2> QED
    BY <2>2, <2>3
<1> QED
  BY <1>2, <1>3, <1>4, <1>6, <1>7 DEF IInv

-----------------------------------------------------------------------------
(* A set of numbers that is not empty has a smallest one.                  *)
LEMMA Smallest ==
  ASSUME NEW T \in SUBSET Nat, T # {}
  PROVE  \E x \in T : \A y \in T : x <= y
<1> DEFINE R == {ss \in Nat \X Nat : ss[1] < ss[2]}
<1>1. IsWellFoundedOn(R, Nat)
  BY NatLessThanWellFounded DEF OpToRel
<1> HIDE DEF R
<1>2. PICK x \in T : \A y \in T : ~ (<<y, x>> \in R)
  BY <1>1, WFMin
<1>3. \A y \in T : ~ (y < x)
  BY <1>2 DEF R
<1> QED
  BY <1>3

(* A tab of a path that has one is the last of them.                       *)
LEMMA LastFacts ==
  ASSUME NEW p, tabs \in Seq(Tab), TabsOf(p) # {}
  PROVE  \E i \in 1 .. Len(tabs) : LastOf(p) = tabs[i].id
<1> DEFINE T == {Len(tabs) - i : i \in TabsOf(p)}
<1>1. T \in SUBSET Nat /\ T # {}
  BY DEF TabsOf
<1>2. PICK x \in T : \A y \in T : x <= y
  BY <1>1, Smallest
<1>3. PICK i \in TabsOf(p) : x = Len(tabs) - i
  OBVIOUS
<1>4. \A j \in TabsOf(p) : j <= i
  <2>1. SUFFICES ASSUME NEW j \in TabsOf(p) PROVE j <= i
    OBVIOUS
  <2>2. Len(tabs) - i <= Len(tabs) - j
    BY <1>2, <1>3
  <2> QED
    BY <2>2 DEF TabsOf
<1>5. (CHOOSE k \in TabsOf(p) : \A j \in TabsOf(p) : j <= k) \in TabsOf(p)
  BY <1>4
<1> QED
  BY <1>5 DEF LastOf, TabsOf

LEMMA OpenItemInv ==
  ASSUME IInv, NEW o \in Paths, OpenItem(o)
  PROVE  IInv'
<1>1. UNCHANGED <<tabs, dialog, tabCounter, edits, file, wish, upset>>
  BY DEF OpenItem
<1>2. CASE TabsOf(o) # {}
  <2>1. UNCHANGED <<sent, flight, doubled, early>> /\ active' = LastOf(o)
    BY <1>2 DEF OpenItem
  <2>2. \E j \in 1 .. Len(tabs) : tabs[j].id = active'
    BY <1>2, <2>1, LastFacts DEF IInv, TabsTyped
  <2> QED
    BY <1>1, <2>1, <2>2, QuietKeeps
       DEF IInv, TabsTyped, OneTab, UnmarkedOK, UnmarkedAt, BringsText
<1>3. CASE TabsOf(o) = {}
  <2> DEFINE new == Request(sent + 1, "open", o, 0)
  <2>1. /\ Send("open", o, 0) /\ active' = active
        /\ doubled' = Noted(doubled, o, Opening(o))
        /\ early' = Noted(early, o, Writing(o))
    BY <1>3 DEF OpenItem, AskForText
  <2>2. /\ new.path = o /\ new.kind = "open" /\ new.kind \notin Writes
        /\ flight' = flight \cup {new}
    BY <2>1 DEF Send, Request, Writes
  <2>3. NetTyped'
    BY <1>1, <2>1, SendFacts DEF IInv, NetTyped, Kinds
  <2> HIDE DEF new
  <2>4. TabsTyped'
    BY <1>1, <2>1 DEF IInv, TabsTyped
  <2>5. WishOK'
    BY <1>1, <2>2, WishQuiet DEF IInv
  <2>6. /\ doubled \subseteq doubled' /\ early \subseteq early'
        /\ o \notin doubled' => \A r \in flight : ~BringsText(r, o)
        /\ o \notin early' => \A r \in flight : r.kind \in Writes => r.path # o
    BY <2>1 DEF Noted, Opening, Writing, BringsText, Writes
  <2>7. OneTab'
    <3> SUFFICES ASSUME NEW p \in Paths \ doubled'
                 PROVE  /\ \A i, j \in 1 .. Len(tabs) :
                             tabs[i].path = p /\ tabs[j].path = p => i = j
                        /\ \A r \in flight' : BringsText(r, p) =>
                             /\ \A i \in 1 .. Len(tabs) : tabs[i].path # p
                             /\ \A q \in flight' : BringsText(q, p) => q = r
      BY <1>1 DEF OneTab, BringsText
    <3>1. /\ \A i, j \in 1 .. Len(tabs) :
              tabs[i].path = p /\ tabs[j].path = p => i = j
          /\ \A r \in flight : BringsText(r, p) =>
               /\ \A i \in 1 .. Len(tabs) : tabs[i].path # p
               /\ \A q \in flight : BringsText(q, p) => q = r
      BY <2>6 DEF IInv, OneTab
    <3>2. ASSUME NEW r \in flight', BringsText(r, p)
          PROVE  /\ \A i \in 1 .. Len(tabs) : tabs[i].path # p
                 /\ \A q \in flight' : BringsText(q, p) => q = r
      <4>1. CASE p = o
        <5>1. \A i \in 1 .. Len(tabs) : tabs[i].path # p
          BY <1>3, <4>1 DEF TabsOf
        <5>2. \A q \in flight' : BringsText(q, p) => q = new
          BY <2>2, <2>6, <4>1
        <5> QED
          BY <3>2, <5>1, <5>2
      <4>2. CASE p # o
        <5>1. \A q \in flight' : BringsText(q, p) => q \in flight
          BY <2>2, <4>2 DEF BringsText
        <5> QED
          BY <3>1, <3>2, <5>1
      <4> QED
        BY <4>1, <4>2
    <3> QED
      BY <3>1, <3>2
  <2>8. UnmarkedOK'
    <3> SUFFICES ASSUME NEW p \in Paths \ (upset' \cup doubled' \cup early')
                 PROVE  UnmarkedAt(p)'
      BY DEF UnmarkedOK
    <3>1. UnmarkedAt(p) /\ wish' = wish /\ tabs' = tabs
      BY <1>1, <2>6 DEF IInv, UnmarkedOK
    <3>2. CASE p # o
      <4>1. \A r \in flight' : r.path = p => r \in flight
        BY <2>2, <3>2
      <4> QED
        BY <3>1, <4>1, UnmarkedKeeps
    <3>3. CASE p = o
      <4>1. \A r \in flight' : r.kind \in Writes => r.path # p
        BY <2>2, <2>6, <3>3
      <4>2. \A r \in flight' : r.kind = "opened" => r \in flight
        BY <2>2
      <4> QED
        BY <3>1, <4>1, <4>2 DEF UnmarkedAt
    <3> QED
      BY <3>2, <3>3
  <2> QED
    BY <2>3, <2>4, <2>5, <2>7, <2>8 DEF IInv
<1> QED
  BY <1>2, <1>3

(* A tab that is added, and nothing that opens one is left for its path.   *)
LEMMA OneAdds ==
  ASSUME TabsTyped, OneTab, NEW o \in Paths, NEW text \in Nat,
         NEW blank \in BOOLEAN, NewTab(o, text, blank),
         doubled \subseteq doubled',
         \A p \in Paths \ doubled', r \in flight' :
           BringsText(r, p) => r \in flight,
         o \notin doubled' =>
           /\ \A r \in flight' : ~BringsText(r, o)
           /\ \A i \in 1 .. Len(tabs) : tabs[i].path # o
  PROVE  OneTab'
<1>1. /\ Len(tabs') = Len(tabs) + 1 /\ Len(tabs) \in Nat
      /\ \A j \in 1 .. Len(tabs) : tabs'[j] = tabs[j]
      /\ tabs'[Len(tabs')].path = o
  <2>1. Len(tabs) \in Nat
    BY DEF TabsTyped
  <2> QED
    BY <2>1, NewTabFacts
<1>2. \A i \in 1 .. Len(tabs') : i # Len(tabs') => i \in 1 .. Len(tabs)
  BY <1>1
<1> SUFFICES ASSUME NEW p \in Paths \ doubled'
             PROVE  /\ \A i, j \in 1 .. Len(tabs') :
                         tabs'[i].path = p /\ tabs'[j].path = p => i = j
                    /\ \A r \in flight' : BringsText(r, p) =>
                         /\ \A i \in 1 .. Len(tabs') : tabs'[i].path # p
                         /\ \A q \in flight' : BringsText(q, p) => q = r
  BY DEF OneTab, BringsText
<1>3. CASE p = o
  <2>1. \A i \in 1 .. Len(tabs') : tabs'[i].path = p => i = Len(tabs')
    BY <1>1, <1>2, <1>3
  <2>2. \A r \in flight' : ~BringsText(r, p)
    BY <1>3
  <2> QED
    BY <2>1, <2>2
<1>4. CASE p # o
  <2>1. \A i \in 1 .. Len(tabs') :
          tabs'[i].path = p => i \in 1 .. Len(tabs) /\ tabs[i].path = p
    BY <1>1, <1>2, <1>4
  <2>2. /\ \A i, j \in 1 .. Len(tabs) :
            tabs[i].path = p /\ tabs[j].path = p => i = j
        /\ \A r \in flight : BringsText(r, p) =>
             /\ \A i \in 1 .. Len(tabs) : tabs[i].path # p
             /\ \A q \in flight : BringsText(q, p) => q = r
    BY DEF OneTab
  <2>3. \A i, j \in 1 .. Len(tabs') :
          tabs'[i].path = p /\ tabs'[j].path = p => i = j
    BY <2>1, <2>2
  <2>4. ASSUME NEW r \in flight', BringsText(r, p)
        PROVE  /\ \A i \in 1 .. Len(tabs') : tabs'[i].path # p
               /\ \A q \in flight' : BringsText(q, p) => q = r
    <3>1. \A q \in flight' : BringsText(q, p) => q \in flight
      BY <2>4
    <3>2. \A i \in 1 .. Len(tabs') : tabs'[i].path # p
      BY <2>1, <2>2, <2>4, <3>1
    <3>3. \A q \in flight' : BringsText(q, p) => q = r
      BY <2>2, <2>4, <3>1
    <3> QED
      BY <3>2, <3>3
  <2> QED
    BY <2>3, <2>4
<1> QED
  BY <1>3, <1>4

(* A tab more leaves the ids that are kept their tabs.                     *)
LEMMA TabsGrow ==
  ASSUME TabsTyped, NEW o \in Paths, NEW text \in Nat, NEW blank \in BOOLEAN,
         NewTab(o, text, blank), UNCHANGED <<dialog, edits>>
  PROVE  TabsTyped'
<1>1. /\ tabs' \in Seq(Tab) /\ tabCounter' \in Nat
      /\ Len(tabs') = Len(tabs) + 1 /\ Len(tabs) \in Nat
      /\ \A j \in 1 .. Len(tabs) : tabs'[j] = tabs[j]
      /\ tabs'[Len(tabs')].id = active'
  BY NewTabFacts DEF TabsTyped
<1>2. /\ Len(tabs') >= Len(tabs) /\ Len(tabs') \in 1 .. Len(tabs')
      /\ edits' \in Nat /\ \A j \in 1 .. Len(tabs) : tabs'[j].id = tabs[j].id
  BY <1>1 DEF TabsTyped
<1>3. \E j \in 1 .. Len(tabs') : tabs'[j].id = active'
  BY <1>1, <1>2
<1> QED
  BY <1>1, <1>2, <1>3, TabsStay

(* A tab more is none of another path.                                     *)
LEMMA AddingKeeps ==
  ASSUME TabsTyped, NEW o \in Paths, NEW text \in Nat, NEW blank \in BOOLEAN,
         NewTab(o, text, blank)
  PROVE  \A i \in 1 .. Len(tabs') :
           \/ \E k \in 1 .. Len(tabs) : tabs'[i] = tabs[k]
           \/ tabs'[i].path = o /\ tabs'[i].text = text /\ tabs'[i].blank = blank
<1>1. /\ Len(tabs') = Len(tabs) + 1 /\ Len(tabs) \in Nat
      /\ \A j \in 1 .. Len(tabs) : tabs'[j] = tabs[j]
      /\ tabs'[Len(tabs')].path = o /\ tabs'[Len(tabs')].text = text
      /\ tabs'[Len(tabs')].blank = blank
  BY NewTabFacts DEF TabsTyped
<1> SUFFICES ASSUME NEW i \in 1 .. Len(tabs')
             PROVE  \/ \E k \in 1 .. Len(tabs) : tabs'[i] = tabs[k]
                    \/ /\ tabs'[i].path = o /\ tabs'[i].text = text
                       /\ tabs'[i].blank = blank
  OBVIOUS
<1>2. i = Len(tabs') \/ i \in 1 .. Len(tabs)
  BY <1>1
<1> QED
  BY <1>1, <1>2

LEMMA NewFileInv ==
  ASSUME IInv, NEW o \in Paths, NewFile(o)
  PROVE  IInv'
<1> DEFINE blank == wish[o] \notin {0, NoFile}
<1>1. /\ Send("create", o, 0) /\ NewTab(o, 0, blank) /\ blank \in BOOLEAN
      /\ doubled' = Noted(doubled, o, Opening(o) \/ TabsOf(o) # {})
      /\ wish' = IF wish[o] = NoFile THEN [wish EXCEPT ![o] = 0] ELSE wish
      /\ UNCHANGED <<dialog, edits, file, upset, early>>
  BY DEF NewFile
<1> HIDE DEF blank
<1>2. TabsTyped'
  BY <1>1, TabsGrow DEF IInv
<1>3. NetTyped'
  BY <1>1, SendFacts DEF IInv, NetTyped, Kinds, Writes
<1>4. WishOK'
  BY <1>1, WishCreates DEF IInv
<1>5. /\ \A p, r : r \in flight' /\ BringsText(r, p) => r \in flight
      /\ \A r \in flight' : r.kind = "opened" => r \in flight
      /\ \A r \in flight' : r.path # o => r \in flight
  <2>1. "create" \in Writes
    BY DEF Writes
  <2> QED
    BY <1>1, <2>1, WriteSends
<1>6. /\ doubled \subseteq doubled'
      /\ o \notin doubled' => /\ \A r \in flight : ~BringsText(r, o)
                             /\ \A i \in 1 .. Len(tabs) : tabs[i].path # o
  BY <1>1 DEF Noted, Opening, TabsOf, BringsText, Writes
<1>7. OneTab'
  <2>1. o \notin doubled' =>
          /\ \A r \in flight' : ~BringsText(r, o)
          /\ \A i \in 1 .. Len(tabs) : tabs[i].path # o
    BY <1>5, <1>6
  <2> QED
    BY <1>1, <1>5, <1>6, <2>1, OneAdds DEF IInv
<1>8. UnmarkedOK'
  <2> SUFFICES ASSUME NEW p \in Paths \ (upset' \cup doubled' \cup early')
               PROVE  UnmarkedAt(p)'
    BY DEF UnmarkedOK
  <2>1. UnmarkedAt(p) /\ wish \in [Paths -> Nat \cup {NoFile}]
    BY <1>1, <1>6 DEF IInv, UnmarkedOK, NetTyped
  <2>2. \A i \in 1 .. Len(tabs') :
          \/ \E k \in 1 .. Len(tabs) : tabs'[i] = tabs[k]
          \/ tabs'[i].path = o /\ tabs'[i].text = 0 /\ tabs'[i].blank = blank
    BY <1>1, AddingKeeps DEF IInv
  <2>3. CASE p # o
    <3>1. wish'[p] = wish[p]
      BY <1>1, <2>1, <2>3
    <3>2. \A i \in 1 .. Len(tabs') : tabs'[i].path = p =>
            \E k \in 1 .. Len(tabs) : tabs'[i] = tabs[k]
      BY <2>2, <2>3
    <3> QED
      BY <1>5, <2>1, <2>3, <3>1, <3>2, UnmarkedKeeps
  <2>4. CASE p = o
    <3>1. blank \/ wish'[p] = 0
      BY <1>1, <2>1, <2>4 DEF blank
    <3>2. \A i \in 1 .. Len(tabs') : tabs'[i].path = p =>
            tabs'[i].text = 0 /\ tabs'[i].blank = blank
      BY <1>6, <2>2, <2>4
    <3>3. \A r \in flight' : ~BringsText(r, p)
      BY <1>5, <1>6, <2>4
    <3> QED
      BY <3>1, <3>2, <3>3 DEF UnmarkedAt, BringsText
  <2> QED
    BY <2>3, <2>4
<1> QED
  BY <1>2, <1>3, <1>4, <1>7, <1>8 DEF IInv

-----------------------------------------------------------------------------
(* The steps of the server and of the network.                             *)
LEMMA HandleInv ==
  ASSUME IInv, NEW r \in flight, Handle(r)
  PROVE  IInv'
<1>1. /\ r.kind \in Writes /\ flight' = flight \ {r}
      /\ file' = [file EXCEPT ![r.path] = Stored(r)]
      /\ upset \subseteq upset'
      /\ UNCHANGED <<tabs, active, dialog, tabCounter, edits, sent, wish, doubled, early>>
  BY DEF Handle
<1>2. TabsTyped'
  BY <1>1 DEF IInv, TabsTyped
<1>3. NetTyped'
  <2>1. r.path \in Paths /\ r.text \in Nat /\ file \in [Paths -> Nat \cup {NoFile}]
    BY DEF IInv, NetTyped, Req
  <2>2. Stored(r) \in Nat \cup {NoFile}
    <3>1. CASE r.kind = "save"
      BY <2>1, <3>1 DEF Stored
    <3>2. CASE r.kind = "create"
      BY <2>1, <3>2 DEF Stored
    <3>3. CASE r.kind = "delete"
      BY <3>3 DEF Stored
    <3> QED
      BY <1>1, <3>1, <3>2, <3>3 DEF Writes
  <2>3. file' \in [Paths -> Nat \cup {NoFile}]
    BY <1>1, <2>1, <2>2
  <2> QED
    BY <1>1, <2>3 DEF IInv, NetTyped
<1>4. WishOK'
  BY WishHandles DEF IInv
<1>5. OneTab'
  BY <1>1, OneStays DEF IInv
<1>6. UnmarkedOK'
  BY <1>1 DEF IInv, UnmarkedOK, UnmarkedAt
<1> QED
  BY <1>2, <1>3, <1>4, <1>5, <1>6 DEF IInv

LEMMA FailInv ==
  ASSUME IInv, NEW r \in flight, Fail(r)
  PROVE  IInv'
<1>1. /\ flight' = flight \ {r} /\ upset' = upset \cup {r.path}
      /\ UNCHANGED <<tabs, active, dialog, tabCounter, edits, sent, file, wish,
                     doubled, early>>
  BY DEF Fail
<1>2. TabsTyped' /\ NetTyped'
  BY <1>1 DEF IInv, TabsTyped, NetTyped
<1>3. WishOK'
  <2>1. \A p \in Paths \ upset' :
          /\ \A q \in flight : q.kind \in Writes /\ q.path = p => q \in flight'
          /\ \A q \in flight' : q.kind \in Writes /\ q.path = p => q \in flight
    BY <1>1
  <2>2. \A p \in Paths \ upset' : wish'[p] = wish[p] /\ file'[p] = file[p]
    BY <1>1
  <2> QED
    BY <1>1, <2>1, <2>2, WishQuiet DEF IInv
<1>4. OneTab'
  BY <1>1, OneStays DEF IInv
<1>5. UnmarkedOK'
  BY <1>1 DEF IInv, UnmarkedOK, UnmarkedAt
<1> QED
  BY <1>2, <1>3, <1>4, <1>5 DEF IInv

LEMMA ReadTextInv ==
  ASSUME IInv, NEW r \in flight, ReadText(r)
  PROVE  IInv'
<1> DEFINE o == r.path
           new == [r EXCEPT !.kind = "opened", !.text = file[r.path]]
<1>1. /\ r.kind = "open" /\ file[o] # NoFile
      /\ flight' = (flight \ {r}) \cup {new}
      /\ UNCHANGED <<tabs, active, dialog, tabCounter, edits, sent, file, wish,
                     upset, doubled, early>>
  BY DEF ReadText
<1>2. /\ r \in Req /\ o \in Paths /\ r.n <= sent
      /\ file[o] \in Nat
  BY <1>1 DEF IInv, NetTyped, Req
<1>3. /\ new \in Req /\ new.n = r.n /\ new.path = o /\ new.kind = "opened"
      /\ new.text = file[o]
  BY <1>2 DEF Req, Kinds
<1> HIDE DEF new
<1>4. TabsTyped'
  BY <1>1 DEF IInv, TabsTyped
<1>5. NetTyped'
  <2>1. \A q \in flight' : q.n <= sent'
    BY <1>1, <1>2, <1>3 DEF IInv, NetTyped
  <2>2. \A q \in flight : q # r => q.n # new.n
    BY <1>3 DEF IInv, NetTyped
  <2>3. \A q, s \in flight' : q.n = s.n => q = s
    BY <1>1, <2>2 DEF IInv, NetTyped
  <2>4. flight' \subseteq Req
    BY <1>1, <1>3 DEF IInv, NetTyped
  <2> QED
    BY <1>1, <2>1, <2>3, <2>4 DEF IInv, NetTyped
<1>6. WishOK'
  <2>1. \A q \in flight \cup flight' :
          q.kind \in Writes => (q \in flight <=> q \in flight')
    BY <1>1, <1>3 DEF Writes
  <2> QED
    BY <1>1, <2>1, WishQuiet DEF IInv
<1>7. o \notin doubled =>
        /\ \A i \in 1 .. Len(tabs) : tabs[i].path # o
        /\ \A q \in flight : BringsText(q, o) => q = r
  BY <1>1, <1>2 DEF IInv, OneTab, BringsText
<1>8. OneTab'
  <2> SUFFICES ASSUME NEW p \in Paths \ doubled
               PROVE  /\ \A i, j \in 1 .. Len(tabs) :
                           tabs[i].path = p /\ tabs[j].path = p => i = j
                      /\ \A s \in flight' : BringsText(s, p) =>
                           /\ \A i \in 1 .. Len(tabs) : tabs[i].path # p
                           /\ \A q \in flight' : BringsText(q, p) => q = s
    BY <1>1 DEF OneTab, BringsText
  <2>1. /\ \A i, j \in 1 .. Len(tabs) :
            tabs[i].path = p /\ tabs[j].path = p => i = j
        /\ \A s \in flight : BringsText(s, p) =>
             /\ \A i \in 1 .. Len(tabs) : tabs[i].path # p
             /\ \A q \in flight : BringsText(q, p) => q = s
    BY DEF IInv, OneTab
  <2>2. CASE p = o
    <3>1. \A q \in flight' : BringsText(q, p) => q = new
      BY <1>1, <1>7, <2>2
    <3> QED
      BY <1>7, <2>1, <2>2, <3>1
  <2>3. CASE p # o
    <3>1. \A q \in flight' : BringsText(q, p) => q \in flight
      BY <1>1, <1>3, <2>3 DEF BringsText
    <3> QED
      BY <2>1, <3>1
  <2> QED
    BY <2>2, <2>3
<1>9. UnmarkedOK'
  <2> SUFFICES ASSUME NEW p \in Paths \ (upset' \cup doubled' \cup early')
               PROVE  UnmarkedAt(p)'
    BY DEF UnmarkedOK
  <2>1. UnmarkedAt(p) /\ WishFrom(p)
    BY <1>1 DEF IInv, UnmarkedOK, WishOK
  <2>2. CASE p # o
    <3>1. \A q \in flight' : q.path = p => q \in flight
      BY <1>1, <1>3, <2>2
    <3> QED
      BY <1>1, <2>1, <3>1, UnmarkedKeeps
  <2>3. CASE p = o
    <3>1. BringsText(r, p)
      BY <1>1, <2>3 DEF BringsText
    <3>2. \A q \in flight : q.kind \in Writes /\ q.path = p => wish[p] = NoFile
      BY <2>1, <3>1 DEF UnmarkedAt
    <3>3. wish[p] \in {file[p], NoFile}
      <4>1. CASE \E q \in flight : q.kind \in Writes /\ q.path = p
        BY <3>2, <4>1
      <4>2. CASE ~ \E q \in flight : q.kind \in Writes /\ q.path = p
        <5>1. \A q \in flight : ~Sets(q, p) /\ ~Makes(q, p)
          BY <4>2 DEF Sets, Makes, Writes
        <5> QED
          BY <2>1, <5>1 DEF WishFrom, Made
      <4> QED
        BY <4>1, <4>2
    <3>4. \A q \in flight' : q.kind = "opened" /\ q.path = p =>
            wish'[p] \in {q.text, NoFile}
      BY <1>1, <1>3, <2>1, <2>3, <3>3 DEF UnmarkedAt
    <3>5. \A q \in flight' : q.kind \in Writes => q \in flight
      BY <1>1, <1>3 DEF Writes
    <3> QED
      BY <1>1, <2>1, <3>2, <3>4, <3>5 DEF UnmarkedAt
  <2> QED
    BY <2>2, <2>3
<1> QED
  BY <1>4, <1>5, <1>6, <1>8, <1>9 DEF IInv

LEMMA OpenDoneInv ==
  ASSUME IInv, NEW r \in flight, OpenDone(r)
  PROVE  IInv'
<1> DEFINE o == r.path
<1>1. /\ r.kind = "opened" /\ NewTab(o, r.text, FALSE) /\ flight' = flight \ {r}
      /\ UNCHANGED <<dialog, edits, sent, file, wish, upset, doubled, early>>
  BY DEF OpenDone
<1>2. o \in Paths /\ r.text \in Nat
  BY DEF IInv, NetTyped, Req
<1>3. TabsTyped'
  BY <1>1, <1>2, TabsGrow DEF IInv
<1>4. NetTyped'
  BY <1>1 DEF IInv, NetTyped
<1>5. WishOK'
  <2>1. \A p \in Paths \ upset' :
          /\ \A q \in flight : q.kind \in Writes /\ q.path = p => q \in flight'
          /\ \A q \in flight' : q.kind \in Writes /\ q.path = p => q \in flight
    BY <1>1 DEF Writes
  <2>2. \A p \in Paths \ upset' : wish'[p] = wish[p] /\ file'[p] = file[p]
    BY <1>1
  <2> QED
    BY <1>1, <2>1, <2>2, WishQuiet DEF IInv
<1>6. o \notin doubled =>
        /\ \A i \in 1 .. Len(tabs) : tabs[i].path # o
        /\ \A q \in flight : BringsText(q, o) => q = r
  BY <1>1, <1>2 DEF IInv, OneTab, BringsText
<1>7. OneTab'
  <2>1. o \notin doubled' =>
          /\ \A q \in flight' : ~BringsText(q, o)
          /\ \A i \in 1 .. Len(tabs) : tabs[i].path # o
    BY <1>1, <1>6
  <2>2. \A p \in Paths \ doubled', q \in flight' :
          BringsText(q, p) => q \in flight
    BY <1>1
  <2> QED
    BY <1>1, <1>2, <2>1, <2>2, OneAdds DEF IInv
<1>8. UnmarkedOK'
  <2> SUFFICES ASSUME NEW p \in Paths \ (upset' \cup doubled' \cup early')
               PROVE  UnmarkedAt(p)'
    BY DEF UnmarkedOK
  <2>1. UnmarkedAt(p)
    BY <1>1 DEF IInv, UnmarkedOK
  <2>2. \A i \in 1 .. Len(tabs') :
          \/ \E k \in 1 .. Len(tabs) : tabs'[i] = tabs[k]
          \/ /\ tabs'[i].path = o /\ tabs'[i].text = r.text
             /\ tabs'[i].blank = FALSE
    BY <1>1, <1>2, AddingKeeps DEF IInv
  <2>3. p = o => wish[p] \in {r.text, NoFile}
    BY <1>1, <2>1 DEF UnmarkedAt
  <2>4. ASSUME NEW i \in 1 .. Len(tabs'), tabs'[i].path = p,
               ~tabs'[i].modified, ~tabs'[i].blank
        PROVE  wish'[p] \in {tabs'[i].text, NoFile}
    <3>1. CASE \E k \in 1 .. Len(tabs) : tabs'[i] = tabs[k]
      BY <1>1, <2>1, <2>4, <3>1 DEF UnmarkedAt
    <3>2. CASE tabs'[i].path = o /\ tabs'[i].text = r.text
      BY <1>1, <2>3, <2>4, <3>2
    <3> QED
      BY <2>2, <3>1, <3>2
  <2>5. /\ \A q \in flight' : q.kind = "opened" /\ q.path = p =>
             wish'[p] \in {q.text, NoFile}
        /\ \A s, q \in flight' :
             BringsText(s, p) /\ q.kind \in Writes /\ q.path = p => wish'[p] = NoFile
    BY <1>1, <2>1 DEF UnmarkedAt
  <2> QED
    BY <2>4, <2>5 DEF UnmarkedAt, BringsText
<1> QED
  BY <1>3, <1>4, <1>5, <1>7, <1>8 DEF IInv

-----------------------------------------------------------------------------
LEMMA InitInv ==
  ASSUME Init
  PROVE  IInv
<1>1. TabsTyped
  BY DEF Init, TabsTyped
<1>2. NetTyped
  BY DEF Init, NetTyped
<1>3. WishOK
  BY DEF Init, WishOK, WishFrom, Made
<1>4. OneTab
  BY DEF Init, OneTab
<1>5. UnmarkedOK
  BY DEF Init, UnmarkedOK, UnmarkedAt
<1> QED
  BY <1>1, <1>2, <1>3, <1>4, <1>5 DEF IInv

LEMMA NextInv ==
  ASSUME IInv, [Next]_vars
  PROVE  IInv'
<1>1. CASE ClickTab
  BY <1>1, ClickTabInv
<1>2. CASE Edit
  BY <1>2, EditInv
<1>3. CASE Save
  BY <1>3, SaveInv
<1>4. CASE CloseByKey
  BY <1>4, CloseByKeyInv
<1>5. CASE DialogSave
  BY <1>5, DialogSaveInv
<1>6. CASE DialogDrop
  BY <1>6, DialogDropInv
<1>7. CASE DialogCancel
  BY <1>7, DialogCancelInv
<1>8. CASE \E i \in 1 .. Len(tabs) : CloseIcon(i)
  BY <1>8, CloseIconInv
<1>9. CASE \E p \in Paths : OpenItem(p) \/ NewFile(p) \/ DeleteItem(p)
  BY <1>9, OpenItemInv, NewFileInv, DeleteItemInv
<1>10. CASE Network
  BY <1>10, HandleInv, ReadTextInv, FailInv, OpenDoneInv DEF Network
<1>11. CASE UNCHANGED vars
  <2>1. UNCHANGED <<tabs, active, dialog, tabCounter, edits, sent, flight, file,
                    wish, upset, doubled, early>>
    BY <1>11 DEF vars
  <2> QED
    BY <2>1, QuietKeeps DEF IInv, TabsTyped, OneTab, UnmarkedOK, UnmarkedAt, BringsText
<1> QED
  BY <1>1, <1>2, <1>3, <1>4, <1>5, <1>6, <1>7, <1>8, <1>9, <1>10, <1>11 DEF Next

(* The invariant holds throughout.                                         *)
LEMMA IInvHolds == Spec => []IInv
<1>1. Init => IInv
  BY InitInv
<1>2. IInv /\ [Next]_vars => IInv'
  BY NextInv
<1> QED
  BY <1>1, <1>2, PTL DEF Spec

-----------------------------------------------------------------------------
(* Whatever the order of handlers, tabs and dialogs: once the server has   *)
(* dealt with the requests for a path, and took them in their order, it    *)
(* has what the user last saved, created or deleted there.                 *)
THEOREM SavedStays == Spec => []SavedIsStored
<1>1. IInv => SavedIsStored
  <2> SUFFICES ASSUME IInv, NEW p \in Paths \ upset, ~Writing(p)
               PROVE  file[p] = wish[p]
    BY DEF SavedIsStored
  <2>1. \A r \in flight : ~Sets(r, p) /\ ~Makes(r, p)
    BY DEF Writing, Sets, Makes, Writes
  <2> QED
    BY <2>1 DEF IInv, WishOK, WishFrom, Made
<1> QED
  BY <1>1, IInvHolds, PTL

(* A tab that is closed without asking shows what is stored, or a file     *)
(* that the user has deleted.  Not so where a request failed or came late, *)
(* for a path that was opened while it was written or that a second tab    *)
(* was asked for, and for the empty tab that the new file dialog makes for *)
(* a file with a text.                                                     *)
THEOREM UnmarkedStays == Spec => []UnmarkedIsStored
<1>1. IInv => UnmarkedIsStored
  <2> SUFFICES ASSUME IInv, NEW i \in 1 .. Len(tabs), ~tabs[i].modified,
                      ~Writing(tabs[i].path),
                      ~tabs[i].blank,
                      tabs[i].path \notin upset \cup doubled \cup early
               PROVE  file[tabs[i].path] \in {tabs[i].text, NoFile}
    BY DEF UnmarkedIsStored
  <2> DEFINE p == tabs[i].path
  <2>1. p \in Paths
    <3>1. tabs[i] \in Tab
      BY DEF IInv, TabsTyped
    <3> QED
      BY <3>1 DEF Tab
  <2>2. \A r \in flight : ~Sets(r, p) /\ ~Makes(r, p)
    BY DEF Writing, Sets, Makes, Writes
  <2>3. wish[p] = file[p]
    BY <2>1, <2>2 DEF IInv, WishOK, WishFrom, Made
  <2>4. wish[p] \in {tabs[i].text, NoFile}
    BY <2>1 DEF IInv, UnmarkedOK, UnmarkedAt
  <2> QED
    BY <2>3, <2>4
<1> QED
  BY <1>1, IInvHolds, PTL

(* Two tabs never edit the same file, unless it was opened or created      *)
(* while its text was on its way, or created while a tab showed it.        *)
THEOREM OneTabStays == Spec => []OneTabPerPath
<1>1. IInv => OneTabPerPath
  <2> SUFFICES ASSUME IInv, NEW p \in Paths \ doubled
               PROVE  Cardinality(TabsOf(p)) < 2
    BY DEF OneTabPerPath
  <2>1. \A i, j \in TabsOf(p) : i = j
    BY DEF IInv, OneTab, TabsOf
  <2>2. CASE TabsOf(p) = {}
    BY <2>2, FS_EmptySet
  <2>3. CASE TabsOf(p) # {}
    <3>1. PICK i : TabsOf(p) = {i}
      BY <2>1, <2>3
    <3> QED
      BY <3>1, FS_Singleton
  <2> QED
    BY <2>2, <2>3
<1> QED
  BY <1>1, IInvHolds, PTL
-----------------------------------------------------------------------------
(* A model is of the places, and a child is in the folder it is listed in. *)
IsModel(m) ==
  /\ Known(m) \subseteq Places /\ m \in [Known(m) -> Node]
  /\ Root \in Known(m)
Kin(m) == \A d \in Known(m) : \A x \in m[d].kids : In[x] = d

(* Answers under way and in the queue, and the one that is worked on.      *)
Listings ==
  {r \in traffic : r.kind = "listed"} \cup {queue[i] : i \in 1 .. Len(queue)}
Answered(d) ==
  \/ \E r \in Listings : r.at = d
  \/ worker # None /\ worker.at = d

WorkOK ==
  worker # None => /\ IsModel(worker.given) /\ Kin(worker.given)
                   /\ \A x \in worker.items : In[x] = worker.at
KinOK ==
  /\ Kin(model)
  /\ \A r \in traffic \cup Listings : \A x \in r.items : In[x] = r.at

(* Where nothing has met, a write has no answer to meet.                   *)
PostAlone ==
  \A d \in Places \ met : Posting(d) =>
    ~Answered(d) /\ (d # Root => ~Busy(In[d]))

(* An answer tells what the server has.                                    *)
Tells(w) ==
  /\ w.at \notin met => w.items = Content(w.at)
  /\ \A e \in Subfolders(w.at) \ met : e \in w.bare => Content(e) = {}
AnswersTell ==
  /\ \A w \in Listings : Tells(w)
  /\ worker # None => Tells(worker)

(* A loaded folder with nothing under way is as the server has it.         *)
Follows(m) ==
  \A d \in Known(m) \ (met \cup lost) :
    ~Busy(d) =>
      /\ ~m[d].loading
      /\ m[d].loaded => ~Posting(d) /\ m[d].kids \cap Items = Content(d)
ModelsFollow ==
  Follows(model) /\ (worker # None => Follows(worker.given))

QueueOK == worker = None => queue = <<>>

TreeInv ==
  /\ TreeTypeOK /\ WorkOK /\ KinOK /\ PostAlone /\ AnswersTell /\ ModelsFollow
  /\ QueueOK

(* The folders below another one are deeper.                               *)
Depths(depth) ==
  /\ depth \in [Places -> Int]
  /\ \A d \in Folders : depth[In[d]] < depth[d]

LEMMA PlacesHaveDepth == \E depth : Depths(depth)
<1>1. PICK depth \in [Places -> 0 .. Cardinality(Folders)] :
        \A d \in Folders : depth[In[d]] < depth[d]
  BY FileTreeAssumption
<1>2. Cardinality(Folders) \in Nat
  BY FS_CardinalityType, FileTreeAssumption
<1>3. depth \in [Places -> Int]
  BY <1>1, <1>2
<1> QED
  BY <1>1, <1>3 DEF Depths

LEMMA BelowDeeper ==
  ASSUME NEW m, IsModel(m), Kin(m), NEW depth, Depths(depth),
         NEW d \in Known(m), NEW n \in Below(m, d)
  PROVE  n \in Folders /\ n \in Known(m) /\ depth[d] < depth[n]
<1> DEFINE S == {s \in Known(m) : s \in Folders /\ depth[d] < depth[s]}
<1>1. S \in SUBSET Known(m)
  OBVIOUS
<1>2. ASSUME NEW e \in S \cup {d}, NEW x \in m[e].kids \cap Known(m)
      PROVE  x \in S
  <2>1. e \in Known(m) /\ depth[d] <= depth[e] /\ e \in Places /\ d \in Places
    BY <1>2 DEF IsModel, Depths
  <2>2. x \in Folders /\ In[x] = e
    BY <1>2, <2>1, FileTreeAssumption DEF IsModel, Kin, Node, Places
  <2>3. depth[e] < depth[x] /\ x \in Places
    BY <2>2 DEF Depths, Places
  <2>4. depth[d] < depth[x]
    BY <2>1, <2>3 DEF Depths
  <2> QED
    BY <1>2, <2>2, <2>4
<1>3. n \in S
  BY <1>1, <1>2 DEF Below
<1> QED
  BY <1>3

(* What is below a folder is not the folder, nor around it.                *)
LEMMA BelowApart ==
  ASSUME NEW m, IsModel(m), Kin(m), NEW d \in Known(m), NEW n \in Below(m, d)
  PROVE  /\ n \in Folders /\ n \in Known(m) /\ n # d /\ d \notin Below(m, n)
         /\ d \in Folders => n # In[d]
<1>1. PICK depth : Depths(depth)
  BY PlacesHaveDepth
<1>2. n \in Folders /\ n \in Known(m) /\ depth[d] < depth[n]
  BY <1>1, BelowDeeper
<1>3. d \in Places /\ n \in Places
  BY <1>2 DEF IsModel
<1>4. d \notin Below(m, n)
  <2>1. SUFFICES ASSUME d \in Below(m, n) PROVE FALSE
    OBVIOUS
  <2>2. depth[n] < depth[d]
    BY <1>1, <1>2, <2>1, BelowDeeper
  <2> QED
    BY <1>1, <1>2, <1>3, <2>2 DEF Depths
<1>5. n # d
  BY <1>1, <1>2, <1>3 DEF Depths
<1>6. ASSUME d \in Folders PROVE n # In[d]
  <2>1. depth[In[d]] < depth[d] /\ In[d] \in Places
    BY <1>1, <1>6, FileTreeAssumption DEF Depths
  <2> QED
    BY <1>1, <1>2, <1>3, <2>1 DEF Depths
<1> QED
  BY <1>2, <1>4, <1>5, <1>6

(* A folder is not in itself.                                              *)
LEMMA InApart ==
  ASSUME NEW d \in Folders
  PROVE  In[d] # d /\ In[d] \in Places
<1>1. PICK depth : Depths(depth)
  BY PlacesHaveDepth
<1>2. In[d] \in Places /\ d \in Places
  BY FileTreeAssumption DEF Places
<1> QED
  BY <1>1, <1>2 DEF Depths

-----------------------------------------------------------------------------
(* What load_node and open_node make of a model.                           *)
LEMMA UnloadedKnown ==
  ASSUME NEW m, NEW open
  PROVE  Unloaded(m, open) \subseteq Known(m) \cap open
BY DEF Unloaded, ClosedIn

(* What load_node and open_node make of a model: some nodes are gone; of   *)
(* the rest those in all are loading, and the others stay as they were.    *)
LoadsOnly(new, m, all) ==
  /\ IsModel(new) /\ Kin(new) /\ Known(new) \subseteq Known(m)
  /\ \A n \in Known(new) :
       IF n \in all THEN new[n].loading
       ELSE /\ new[n].loading = m[n].loading
            /\ new[n].loaded = m[n].loaded /\ new[n].kids = m[n].kids

(* Loading and opening make a model of a model.                            *)
LEMMA AfterModel ==
  ASSUME NEW m, IsModel(m), Kin(m), NEW load \in SUBSET Known(m), NEW open
  PROVE  LoadsOnly(After(m, load, open), m, load \cup Unloaded(m, open))
<1> DEFINE o == Opened(m, open)
           all == load \cup Unloaded(m, open)
           gone == UNION {Below(o, d) : d \in {e \in all : o[e].loaded}}
           new == After(m, load, open)
<1>1. Known(o) = Known(m) /\ all \subseteq Known(m)
  BY UnloadedKnown DEF Opened, Known
<1>2. \A n \in Known(m) :
        /\ o[n] \in Node /\ o[n].loading = m[n].loading
        /\ o[n].loaded = m[n].loaded /\ o[n].kids = m[n].kids
  BY DEF Opened, IsModel, Node, Known
<1>3. o = [n \in Known(o) |-> o[n]]
  BY DEF Opened, Known
<1>4. IsModel(o) /\ Kin(o)
  BY <1>1, <1>2, <1>3 DEF IsModel, Kin
<1>5. Known(new) = Known(m) \ gone
  BY <1>1 DEF After, Loading, Known
<1>6. Root \notin gone
  BY <1>1, <1>4, BelowApart, FileTreeAssumption
<1>7. ASSUME NEW n \in Known(new)
      PROVE  /\ new[n] \in Node /\ new[n].kids \subseteq m[n].kids
             /\ IF n \in all THEN new[n].loading
                ELSE /\ new[n].loading = m[n].loading
                     /\ new[n].loaded = m[n].loaded /\ new[n].kids = m[n].kids
  <2>1. n \in Known(m)
    BY <1>5
  <2>2. CASE n \notin all
    <3>1. new[n] = o[n]
      BY <1>1, <1>5, <2>2 DEF After, Loading, Known
    <3> QED
      BY <1>2, <2>1, <2>2, <3>1
  <2>3. CASE n \in all
    <3>1. new[n] = [o[n] EXCEPT !.loading = TRUE, !.loaded = FALSE,
                      !.failed = FALSE,
                      !.kids = IF o[n].loaded THEN {} ELSE o[n].kids]
      BY <1>1, <1>5, <2>3 DEF After, Loading, Known
    <3> QED
      BY <1>2, <2>1, <2>3, <3>1 DEF Node
  <2> QED
    BY <2>2, <2>3
<1>8. new = [n \in Known(new) |-> new[n]]
  BY DEF After, Loading, Known
<1>9. new \in [Known(new) -> Node]
  BY <1>7, <1>8
<1>10. IsModel(new)
  BY <1>5, <1>6, <1>9 DEF IsModel
<1>11. Kin(new)
  BY <1>5, <1>7 DEF Kin
<1> QED
  BY <1>5, <1>7, <1>10, <1>11 DEF LoadsOnly
-----------------------------------------------------------------------------
(* What the calls of a handler send.                                       *)
LEMMA AskedAre ==
  ASSUME NEW m, NEW load, NEW open, NEW then, NEW n
  PROVE  /\ \A r \in Asked(m, n, load, then, open) :
              /\ r.kind = "list" /\ r.items = {} /\ r.kind \notin Posts
              /\ r.at \in load \cup Unloaded(m, open)
         /\ \A d \in load \cup Unloaded(m, open) :
              \E r \in Asked(m, n, load, then, open) : r.at = d
<1> DEFINE un == Unloaded(m, open)
<1>1. Asked(m, n, load, then, open) =
        {List(d, n, then) : d \in load} \cup {List(d, n, OpenThen(d)) : d \in un}
  BY DEF Asked
<1> HIDE DEF un
<1>2. \A d, t : /\ List(d, n, t).kind = "list" /\ List(d, n, t).items = {}
                /\ List(d, n, t).at = d
  BY DEF List
<1>3. "list" \notin Posts
  BY DEF Posts
<1> QED
  BY <1>1, <1>2, <1>3 DEF un

(* What load_node asks for are requests for places.                        *)
LEMMA AskedTyped ==
  ASSUME NEW m, IsModel(m), NEW load \in SUBSET Known(m),
         NEW open \in SUBSET Folders, NEW then \in Then, NEW n \in Nat
  PROVE  Asked(m, n, load, then, open) \subseteq Message
<1>1. Unloaded(m, open) \subseteq Folders
  BY UnloadedKnown
<1>2. load \subseteq Places /\ Folders \subseteq Places
  BY DEF IsModel, Places
<1>3. \A d \in load : List(d, n, then) \in Message
  BY <1>2 DEF List, Message
<1>4. \A d \in Unloaded(m, open) :
        OpenThen(d) \in Then /\ List(d, n, OpenThen(d)) \in Message
  BY <1>1, <1>2 DEF List, Message, OpenThen, Then
<1> QED
  BY <1>3, <1>4 DEF Asked

(* The calls of a handler keep the types of what is under way.             *)
LEMMA CallsTyped ==
  ASSUME TreeTypeOK, NEW m, IsModel(m), NEW load \in SUBSET Known(m),
         NEW open \in SUBSET Folders, NEW then \in Then,
         NEW rest \in SUBSET traffic, NEW posts \in SUBSET Message,
         Calls(m, load, then, open, rest, posts)
  PROVE  traffic' \subseteq Message /\ batch' \in Nat /\ met' \subseteq Places
<1>1. batch \in Nat /\ batch + 1 \in Nat /\ traffic \subseteq Message
      /\ met \subseteq Places
  BY DEF TreeTypeOK
<1>2. Asked(m, batch + 1, load, then, open) \subseteq Message
  BY <1>1, AskedTyped
<1>3. \A new : Meets(new) \subseteq Places
  BY DEF Meets
<1>4. met' \subseteq Places
  BY <1>1, <1>3 DEF Calls
<1>5. traffic' \subseteq Message
  BY <1>1, <1>2 DEF Calls
<1>6. batch' \in Nat
  BY <1>1 DEF Calls
<1> QED
  BY <1>4, <1>5, <1>6

(* What is asked for is busy then, and no writes are under way there but   *)
(* those that have met it.                                                 *)
LEMMA CallsSend ==
  ASSUME NEW m, NEW load, NEW open, NEW then, NEW rest \in SUBSET traffic,
         NEW posts, Calls(m, load, then, open, rest, posts),
         \A r \in posts : r.kind \in Posts
  PROVE  /\ met \subseteq met'
         /\ rest \subseteq traffic' /\ posts \subseteq traffic'
         /\ \A r \in traffic' : r \in rest \/ r \in posts
              \/ /\ r.kind = "list" /\ r.items = {}
                 /\ r.at \in load \cup Unloaded(m, open)
         /\ \A d \in load \cup Unloaded(m, open) : Busy(d)'
         /\ \A d \in Places : (\E r \in posts : r.at = d) =>
              d \in met' \/ (d # Root /\ ~Busy(d) /\ ~Busy(In[d]))
         /\ \A d \in load \cup Unloaded(m, open) :
              \A e \in Subfolders(d) : Posting(e) => e \in met'
<1> DEFINE asked == Asked(m, batch + 1, load, then, open)
           new == posts \cup asked
           all == load \cup Unloaded(m, open)
<1>1. /\ traffic' = rest \cup new
      /\ met' = met \cup Meets(new)
  BY DEF Calls
<1>2. /\ \A r \in asked : r.kind = "list" /\ r.items = {} /\ r.at \in all
                          /\ r.kind \notin Posts
      /\ \A d \in all : \E r \in asked : r.at = d
  <2> HIDE DEF asked, all
  <2> QED
    BY AskedAre DEF asked, all
<1> HIDE DEF asked, all
<1>3. \A r \in traffic' : r \in rest \/ r \in posts
        \/ (r.kind = "list" /\ r.items = {} /\ r.at \in all)
  BY <1>1, <1>2
<1>4. \A d \in all : Busy(d)'
  BY <1>1, <1>2 DEF Busy
<1>5. ASSUME NEW d \in Places, \E r \in posts : r.at = d
      PROVE  d \in met' \/ (d # Root /\ ~Busy(d) /\ ~Busy(In[d]))
  BY <1>1, <1>5 DEF Meets
<1>6. ASSUME NEW d \in all, NEW e \in Subfolders(d), Posting(e)
      PROVE  e \in met'
  <2>1. PICK r \in asked : r.at = d
    BY <1>2
  <2>2. e \in Places /\ r \in new /\ r.kind = "list"
    BY <1>2, <2>1 DEF Subfolders, Places
  <2>3. e \in Meets(new)
    <3> HIDE DEF new
    <3> QED
      BY <1>6, <2>1, <2>2 DEF Meets
  <2> QED
    BY <1>1, <2>3
<1> QED
  BY <1>1, <1>3, <1>4, <1>5, <1>6 DEF all

-----------------------------------------------------------------------------
(* A step that sends no write and answers nothing keeps PostAlone.         *)
LEMMA PostAloneKept ==
  ASSUME PostAlone,
         \A d \in Places \ met' : Posting(d)' =>
           /\ d \notin met /\ Posting(d)
           /\ Answered(d)' => Answered(d)
           /\ d # Root /\ Busy(In[d])' => Busy(In[d])
  PROVE  PostAlone'
<1> SUFFICES ASSUME NEW d \in Places \ met', Posting(d)'
             PROVE  ~Answered(d)' /\ (d # Root => ~Busy(In[d])')
  BY DEF PostAlone
<1> QED
  BY DEF PostAlone

(* Who is answered, and where nothing is busy.                             *)
LEMMA AnsweredIsBusy ==
  ASSUME NEW d, Answered(d)
  PROVE  Busy(d)
<1>1. CASE worker # None /\ worker.at = d
  BY <1>1 DEF Busy
<1>2. CASE \E r \in Listings : r.at = d
  <2>1. PICK r \in Listings : r.at = d
    BY <1>2
  <2>2. CASE r \in traffic /\ r.kind = "listed"
    BY <2>1, <2>2 DEF Busy, Posts
  <2>3. CASE \E i \in 1 .. Len(queue) : r = queue[i]
    BY <2>1, <2>3 DEF Busy
  <2> QED
    BY <2>1, <2>2, <2>3 DEF Listings
<1> QED
  BY <1>1, <1>2 DEF Answered
-----------------------------------------------------------------------------
(* A step that sends no write, with the worker and its queue as they are,  *)
(* and nothing answered.                                                   *)
LEMMA SendingKept ==
  ASSUME TreeInv, NEW m, NEW load, NEW open, NEW then,
         NEW rest \in SUBSET traffic, Calls(m, load, then, open, rest, {}),
         UNCHANGED <<worker, queue, stored>>, lost \subseteq lost'
  PROVE  /\ met \subseteq met' /\ WorkOK' /\ QueueOK' /\ PostAlone'
         /\ AnswersTell'
         /\ \A r \in traffic' \cup Listings' : \A x \in r.items : In[x] = r.at
         /\ \A d : Posting(d)' => Posting(d)
         /\ \A d : Content(d)' = Content(d)
         /\ \A d \in load \cup Unloaded(m, open) : Busy(d)'
<1> DEFINE all == load \cup Unloaded(m, open)
<1>1. /\ met \subseteq met' /\ rest \subseteq traffic'
      /\ \A r \in traffic' : r \in rest
           \/ (r.kind = "list" /\ r.items = {} /\ r.at \in all)
      /\ \A d \in all : Busy(d)'
      /\ \A d \in all : \A e \in Subfolders(d) : Posting(e) => e \in met'
  <2>1. PICK posts : posts = {}
    OBVIOUS
  <2>2. Calls(m, load, then, open, rest, posts) /\ \A r \in posts : r.kind \in Posts
    BY <2>1
  <2>3. /\ met \subseteq met'
        /\ rest \subseteq traffic' /\ posts \subseteq traffic'
        /\ \A r \in traffic' : r \in rest \/ r \in posts
             \/ /\ r.kind = "list" /\ r.items = {}
                /\ r.at \in load \cup Unloaded(m, open)
        /\ \A d \in load \cup Unloaded(m, open) : Busy(d)'
        /\ \A d \in load \cup Unloaded(m, open) :
             \A e \in Subfolders(d) : Posting(e) => e \in met'
    <3> HIDE DEF all
    <3> QED
      BY <2>2, CallsSend
  <2> QED
    BY <2>1, <2>3
<1> HIDE DEF all
<1>2. WorkOK' /\ QueueOK'
  BY DEF TreeInv, WorkOK, QueueOK
<1>3. Listings' \subseteq Listings
  BY <1>1 DEF Listings
<1>4. \A d : Posting(d)' => Posting(d)
  BY <1>1 DEF Posting, Posts
<1>5. \A d : Answered(d)' => Answered(d)
  BY <1>3 DEF Answered
<1>6. \A d : Busy(d)' => Busy(d) \/ d \in all
  BY <1>1 DEF Busy
<1>7. \A d : Content(d)' = Content(d)
  BY DEF Content
<1>8. PostAlone'
  <2>1. ASSUME NEW d \in Places \ met', Posting(d)', d # Root, Busy(In[d])'
        PROVE  Busy(In[d])
    <3>1. d \in Subfolders(In[d])
      BY <2>1 DEF Subfolders, Places
    <3>2. In[d] \notin all
      BY <1>1, <1>4, <2>1, <3>1
    <3> QED
      BY <1>6, <2>1, <3>2
  <2>2. \A d \in Places \ met' : Posting(d)' =>
           /\ d \notin met /\ Posting(d)
           /\ Answered(d)' => Answered(d)
           /\ d # Root /\ Busy(In[d])' => Busy(In[d])
    BY <1>1, <1>4, <1>5, <2>1
  <2> QED
    BY <2>2, PostAloneKept DEF TreeInv
<1>9. AnswersTell'
  <2>1. ASSUME NEW w, Tells(w) PROVE Tells(w)'
    BY <1>1, <1>7, <2>1 DEF Tells
  <2>2. \A w \in Listings' : Tells(w)'
    BY <1>3, <2>1 DEF TreeInv, AnswersTell
  <2>3. worker' # None => Tells(worker)'
    BY <1>1, <1>7 DEF TreeInv, AnswersTell, Tells
  <2> QED
    BY <2>2, <2>3 DEF AnswersTell
<1>10. \A r \in traffic' \cup Listings' : \A x \in r.items : In[x] = r.at
  BY <1>1, <1>3 DEF TreeInv, KinOK
<1> QED
  BY <1>1, <1>2, <1>4, <1>7, <1>8, <1>9, <1>10 DEF all

(* What a model says of a folder that nothing was done about.              *)
LEMMA FollowsKept ==
  ASSUME NEW m, Follows(m), met \subseteq met', lost \subseteq lost',
         \A d \in Known(m) \ (met' \cup lost') : ~Busy(d)' =>
           /\ ~Busy(d) /\ (Posting(d)' => Posting(d))
           /\ Content(d)' = Content(d)
  PROVE  \A d \in Known(m) \ (met' \cup lost') : ~Busy(d)' =>
           /\ ~m[d].loading
           /\ m[d].loaded => ~Posting(d)' /\ m[d].kids \cap Items = Content(d)'
BY DEF Follows

(* The user opens a folder, or open_node is tried again.                   *)
LEMMA OpenKept ==
  ASSUME TreeInv, NEW d \in Folders, NEW pending \in SUBSET Places,
         OpenNode(d, pending)
  PROVE  TreeInv'
<1>1. /\ model' = After(model, {}, {d})
      /\ Calls(model, {}, NoThen, {d}, traffic, {})
      /\ timers' = pending \cup Waiting(model, {d})
      /\ UNCHANGED <<worker, queue, stored, done, lost>>
  BY DEF OpenNode
<1>2. IsModel(model) /\ Kin(model)
  BY DEF TreeInv, TreeTypeOK, KinOK, IsModel
<1>3. /\ met \subseteq met' /\ WorkOK' /\ QueueOK' /\ PostAlone'
      /\ AnswersTell'
      /\ \A r \in traffic' \cup Listings' : \A x \in r.items : In[x] = r.at
      /\ \A e : Posting(e)' => Posting(e)
      /\ \A e : Content(e)' = Content(e)
      /\ \A e \in {} \cup Unloaded(model, {d}) : Busy(e)'
  BY <1>1, SendingKept
<1>4. /\ IsModel(model') /\ Kin(model')
      /\ Known(model') \subseteq Known(model)
      /\ \A n \in Known(model') :
           IF n \in {} \cup Unloaded(model, {d})
           THEN model'[n].loading
           ELSE /\ model'[n].loading = model[n].loading
                /\ model'[n].loaded = model[n].loaded
                /\ model'[n].kids = model[n].kids
  <2>1. PICK load \in SUBSET Known(model) : load = {}
    OBVIOUS
  <2>2. PICK open : open = {d}
    OBVIOUS
  <2>3. LoadsOnly(After(model, load, open), model, load \cup Unloaded(model, open))
    BY <1>2, AfterModel
  <2> QED
    BY <1>1, <2>1, <2>2, <2>3 DEF LoadsOnly
<1>5. TreeTypeOK'
  <2>1. traffic' \subseteq Message /\ batch' \in Nat /\ met' \subseteq Places
    <3>1. NoThen \in Then
      BY DEF NoThen, Then
    <3> QED
      BY <1>1, <1>2, <3>1, CallsTyped DEF TreeInv
  <2>2. timers' \subseteq Places
    BY <1>1 DEF Waiting, ClosedIn, Places
  <2> QED
    BY <1>1, <1>4, <2>1, <2>2 DEF TreeInv, TreeTypeOK, IsModel
<1>6. \A e : Busy(e) => Busy(e)'
  BY <1>1 DEF Busy, Calls
<1>7. ModelsFollow'
  <2>1. \A e : ~Busy(e)' => ~Busy(e) /\ e \notin Unloaded(model, {d})
    BY <1>3, <1>6
  <2>2. Follows(model)'
    BY <1>1, <1>3, <1>4, <2>1 DEF TreeInv, ModelsFollow, Follows
  <2>3. worker' # None => Follows(worker.given)'
    BY <1>1, <1>3, <2>1 DEF TreeInv, ModelsFollow, Follows
  <2> QED
    BY <2>2, <2>3 DEF ModelsFollow
<1> QED
  BY <1>3, <1>4, <1>5, <1>7 DEF TreeInv, KinOK

(* The user closes a folder.                                               *)
LEMMA CollapseKept ==
  ASSUME TreeInv, NEW d \in Folders, Collapse(d)
  PROVE  TreeInv'
<1>1. /\ d \in Known(model)
      /\ model' = [model EXCEPT ![d].opened = FALSE]
      /\ UNCHANGED <<worker, queue, timers, traffic, stored, batch, done, met,
                     lost>>
  BY DEF Collapse
<1>2. model \in [Known(model) -> Node]
  BY DEF TreeInv, TreeTypeOK
<1>3. /\ Known(model') = Known(model)
      /\ \A n \in Known(model) :
           /\ model'[n] \in Node /\ model'[n].loading = model[n].loading
           /\ model'[n].loaded = model[n].loaded
           /\ model'[n].kids = model[n].kids
  BY <1>1, <1>2 DEF Known, Node
<1>4. model' \in [Known(model') -> Node]
  BY <1>1, <1>3 DEF Known
<1>5. TreeTypeOK'
  BY <1>1, <1>3, <1>4 DEF TreeInv, TreeTypeOK
<1>6. /\ Listings' = Listings /\ \A e : Busy(e)' <=> Busy(e)
  BY <1>1 DEF Listings, Busy
<1>7. /\ \A e : Answered(e)' <=> Answered(e)
      /\ \A e : Posting(e)' <=> Posting(e)
      /\ \A e : Content(e)' = Content(e)
  BY <1>1, <1>6 DEF Answered, Posting, Content
<1>8. WorkOK' /\ QueueOK' /\ PostAlone'
  BY <1>1, <1>6, <1>7 DEF TreeInv, WorkOK, QueueOK, PostAlone
<1>9. AnswersTell'
  BY <1>1, <1>6, <1>7 DEF TreeInv, AnswersTell, Tells
<1>10. KinOK'
  BY <1>1, <1>3, <1>6 DEF TreeInv, KinOK, Kin
<1>11. ModelsFollow'
  BY <1>1, <1>3, <1>6, <1>7 DEF TreeInv, ModelsFollow, Follows
<1> QED
  BY <1>5, <1>8, <1>9, <1>10, <1>11 DEF TreeInv
-----------------------------------------------------------------------------
(* What changes what the server has.                                       *)
LEMMA HandlePostKept ==
  ASSUME TreeInv, NEW r \in traffic, HandlePost(r)
  PROVE  TreeInv'
<1>1. /\ r.kind \in Posts /\ traffic' = traffic \ {r}
      /\ stored' = IF r.kind = "create" THEN stored \cup r.items
                   ELSE stored \ r.items
      /\ UNCHANGED <<model, worker, queue, timers, batch, done, met, lost>>
  BY DEF HandlePost
<1>2. r.items \subseteq Items /\ r.at \in Places
      /\ \A x \in r.items : In[x] = r.at
  BY DEF TreeInv, TreeTypeOK, Message, KinOK
<1>3. \A d : d # r.at => Content(d)' = Content(d)
  BY <1>1, <1>2 DEF Content
<1>4. Posting(r.at)
  BY <1>1 DEF Posting
<1>5. /\ Listings' = Listings /\ \A d : Busy(d)' <=> Busy(d)
  BY <1>1 DEF Listings, Busy, Posts
<1>6. /\ \A d : Answered(d)' <=> Answered(d)
      /\ \A d : Posting(d)' => Posting(d)
  BY <1>1, <1>5 DEF Answered, Posting
<1>7. TreeTypeOK'
  BY <1>1, <1>2 DEF TreeInv, TreeTypeOK
<1>8. WorkOK' /\ QueueOK' /\ KinOK'
  BY <1>1, <1>5 DEF TreeInv, WorkOK, QueueOK, KinOK
<1>9. PostAlone'
  BY <1>1, <1>5, <1>6 DEF TreeInv, PostAlone
<1>10. ASSUME NEW w, Tells(w), Answered(w.at) PROVE Tells(w)'
  <2>1. r.at \notin met => r.at # w.at
    BY <1>2, <1>4, <1>10 DEF TreeInv, PostAlone
  <2>2. ASSUME NEW e \in Subfolders(w.at) \ met PROVE e # r.at
    <3>1. e # Root /\ In[e] = w.at /\ e \in Places
      BY FileTreeAssumption DEF Subfolders, Places
    <3>2. Busy(w.at)
      BY <1>10, AnsweredIsBusy
    <3> QED
      BY <1>4, <2>2, <3>1, <3>2 DEF TreeInv, PostAlone
  <2> QED
    BY <1>1, <1>3, <1>10, <2>1, <2>2 DEF Tells
<1>11. AnswersTell'
  <2>1. \A w \in Listings : Tells(w) /\ Answered(w.at)
    BY DEF TreeInv, AnswersTell, Answered
  <2>2. \A w \in Listings' : Tells(w)'
    BY <1>5, <1>10, <2>1
  <2>3. ASSUME worker' # None PROVE Tells(worker)'
    <3>1. PICK w : w = worker
      OBVIOUS
    <3>2. Tells(w) /\ Answered(w.at)
      BY <1>1, <2>3, <3>1 DEF TreeInv, AnswersTell, Answered
    <3>3. Tells(w)'
      BY <1>10, <3>2
    <3> QED
      BY <1>1, <3>1, <3>3 DEF Tells
  <2> QED
    BY <2>2, <2>3 DEF AnswersTell
<1>12. ASSUME NEW m, Follows(m) PROVE Follows(m)'
  <2> SUFFICES ASSUME NEW d \in Known(m) \ (met' \cup lost'), ~Busy(d)'
               PROVE  /\ ~m[d].loading
                      /\ m[d].loaded =>
                           ~Posting(d)' /\ m[d].kids \cap Items = Content(d)'
    BY DEF Follows
  <2>1. /\ ~m[d].loading
        /\ m[d].loaded => ~Posting(d) /\ m[d].kids \cap Items = Content(d)
    BY <1>1, <1>5, <1>12 DEF Follows
  <2> QED
    BY <1>3, <1>4, <1>6, <2>1
<1>13. ModelsFollow'
  <2>1. PICK m, w : m = model /\ w = worker
    OBVIOUS
  <2>2. Follows(m)' /\ (w # None => Follows(w.given)')
    BY <1>12, <2>1 DEF TreeInv, ModelsFollow
  <2> QED
    BY <1>1, <2>1, <2>2 DEF ModelsFollow, Follows
<1> QED
  BY <1>7, <1>8, <1>9, <1>11, <1>13 DEF TreeInv

(* A request for a folder's children is answered.                          *)
LEMMA HandleListKept ==
  ASSUME TreeInv, NEW r \in traffic, HandleList(r)
  PROVE  TreeInv'
<1>0. PICK answer :
        answer = [r EXCEPT !.kind = "listed", !.items = Content(r.at),
                           !.bare = {e \in Subfolders(r.at) :
                                       Content(e) \cup Subfolders(e) = {}}]
  OBVIOUS
<1>1. /\ r.kind = "list" /\ traffic' = (traffic \ {r}) \cup {answer}
      /\ met' = met \cup {d \in {r.at} \cup Subfolders(r.at) : Posting(d)}
      /\ UNCHANGED <<model, worker, queue, timers, stored, batch, done, lost>>
  BY <1>0 DEF HandleList
<1>2. r \in Message
  BY DEF TreeInv, TreeTypeOK
<1>3. stored \subseteq Items
  BY DEF TreeInv, TreeTypeOK
<1>4. /\ answer \in Message /\ answer.kind = "listed" /\ answer.at = r.at
      /\ answer.items = Content(r.at)
      /\ answer.bare \subseteq {e \in Folders : Content(e) = {}}
  BY <1>0, <1>2, <1>3 DEF Message, Content, Subfolders
<1>5. Subfolders(r.at) \subseteq Places /\ r.at \in Places
  BY <1>2 DEF Subfolders, Places, Message
<1>6. TreeTypeOK'
  BY <1>1, <1>4, <1>5 DEF TreeInv, TreeTypeOK
<1>7. Listings' = Listings \cup {answer}
  BY <1>1, <1>4 DEF Listings
<1>8. \A d : Content(d)' = Content(d)
  BY <1>1 DEF Content
<1>9. /\ \A d : Posting(d)' <=> Posting(d)
      /\ \A d : Busy(d)' <=> Busy(d)
  <2>1. r.kind \notin Posts /\ answer.kind \notin Posts
    BY <1>1, <1>4 DEF Posts
  <2> QED
    BY <1>1, <1>4, <2>1 DEF Posting, Busy
<1>10. \A d : Answered(d)' => Answered(d) \/ d = r.at
  BY <1>1, <1>4, <1>7 DEF Answered
<1>11. PostAlone'
  <2>1. \A d \in Places \ met' : Posting(d)' =>
          /\ d \notin met /\ Posting(d)
          /\ Answered(d)' => Answered(d)
          /\ d # Root /\ Busy(In[d])' => Busy(In[d])
    BY <1>1, <1>5, <1>9, <1>10
  <2> QED
    BY <2>1, PostAloneKept DEF TreeInv
<1>12. WorkOK' /\ QueueOK'
  BY <1>1 DEF TreeInv, WorkOK, QueueOK
<1>13. KinOK'
  <2>1. \A x \in answer.items : In[x] = answer.at
    BY <1>4 DEF Content
  <2> QED
    BY <1>1, <1>7, <2>1 DEF TreeInv, KinOK
<1>14. AnswersTell'
  <2>1. \A w : Tells(w) => Tells(w)'
    BY <1>1, <1>8 DEF Tells
  <2>2. Tells(answer)'
    BY <1>4, <1>8 DEF Tells
  <2>3. \A w \in Listings' : Tells(w)'
    BY <1>7, <2>1, <2>2 DEF TreeInv, AnswersTell
  <2>4. worker' # None => Tells(worker)'
    BY <1>1, <1>8 DEF TreeInv, AnswersTell, Tells
  <2> QED
    BY <2>3, <2>4 DEF AnswersTell
<1>15. ModelsFollow'
  BY <1>1, <1>8, <1>9 DEF TreeInv, ModelsFollow, Follows
<1> QED
  BY <1>6, <1>11, <1>12, <1>13, <1>14, <1>15 DEF TreeInv

(* A write fails.                                                          *)
LEMMA FailPostKept ==
  ASSUME TreeInv, NEW r \in traffic, FailPost(r)
  PROVE  TreeInv'
<1>1. /\ r.kind \in Posts /\ traffic' = traffic \ {r}
      /\ met' = met \cup {r.at}
      /\ UNCHANGED <<model, worker, queue, timers, stored, batch, done, lost>>
  BY DEF FailPost
<1>2. r.at \in Places
  BY DEF TreeInv, TreeTypeOK, Message
<1>3. /\ Listings' = Listings /\ \A d : Busy(d)' <=> Busy(d)
  BY <1>1 DEF Listings, Busy, Posts
<1>4. /\ \A d : Answered(d)' <=> Answered(d)
      /\ \A d : Posting(d)' => Posting(d)
      /\ \A d : Content(d)' = Content(d)
  BY <1>1, <1>3 DEF Answered, Posting, Content
<1>5. TreeTypeOK'
  BY <1>1, <1>2 DEF TreeInv, TreeTypeOK
<1>6. WorkOK' /\ QueueOK' /\ KinOK'
  BY <1>1, <1>3 DEF TreeInv, WorkOK, QueueOK, KinOK
<1>7. PostAlone'
  BY <1>1, <1>3, <1>4 DEF TreeInv, PostAlone
<1>8. AnswersTell'
  BY <1>1, <1>3, <1>4 DEF TreeInv, AnswersTell, Tells
<1>9. ModelsFollow'
  BY <1>1, <1>3, <1>4 DEF TreeInv, ModelsFollow, Follows
<1> QED
  BY <1>5, <1>6, <1>7, <1>8, <1>9 DEF TreeInv
-----------------------------------------------------------------------------
(* An answer that the worker is given, with a model.                       *)
LEMMA WorkIsJob ==
  ASSUME NEW m, IsModel(m), NEW r \in Message
  PROVE  /\ Work(m, r) \in Jobs(Known(m)) /\ Work(m, r) # None
         /\ Work(m, r).at = r.at /\ Work(m, r).items = r.items
         /\ Work(m, r).bare = r.bare /\ Work(m, r).given = m
<1>1. Work(m, r) \in Jobs(Known(m))
  BY DEF Work, Jobs, Message, IsModel
<1>2. None \notin Jobs(Known(m))
  BY FileTreeAssumption DEF IsModel
<1> QED
  BY <1>1, <1>2 DEF Work

(* A model in which a folder has no children any more is a model.          *)
LEMMA EmptiedModel ==
  ASSUME NEW m, IsModel(m), Kin(m), NEW d
  PROVE  /\ IsModel(Emptied(m, d)) /\ Kin(Emptied(m, d))
         /\ Known(Emptied(m, d)) = Known(m)
         /\ \A n \in Known(m) : n # d => Emptied(m, d)[n] = m[n]
<1>1. Known(Emptied(m, d)) = Known(m)
  BY DEF Emptied, Known, IsModel
<1>2. \A n \in Known(m) :
        /\ Emptied(m, d)[n] \in Node /\ Emptied(m, d)[n].kids \subseteq m[n].kids
        /\ n # d => Emptied(m, d)[n] = m[n]
  BY DEF Emptied, Known, IsModel, Node
<1>3. Emptied(m, d) = [n \in Known(m) |-> Emptied(m, d)[n]]
  BY <1>1 DEF Emptied, Known, IsModel
<1>4. IsModel(Emptied(m, d))
  BY <1>1, <1>2, <1>3 DEF IsModel
<1> QED
  BY <1>1, <1>2, <1>4 DEF Kin

(* A request or an answer comes to nothing: what models say of its folder  *)
(* no longer counts.                                                       *)
LEMMA RemovalKept ==
  ASSUME TreeInv, NEW r \in traffic, r.kind \notin Posts,
         traffic' = traffic \ {r}, UNCHANGED <<worker, queue, stored, met>>,
         lost \subseteq lost'
  PROVE  /\ WorkOK' /\ QueueOK' /\ PostAlone' /\ AnswersTell'
         /\ \A q \in traffic' \cup Listings' : \A x \in q.items : In[x] = q.at
         /\ \A d : Posting(d)' <=> Posting(d)
         /\ \A d : Content(d)' = Content(d)
         /\ \A d : Busy(d) => Busy(d)' \/ d = r.at
<1>1. Listings' \subseteq Listings
  BY DEF Listings
<1>2. /\ \A d : Answered(d)' => Answered(d)
      /\ \A d : Posting(d)' <=> Posting(d)
      /\ \A d : Content(d)' = Content(d)
      /\ \A d : Busy(d)' => Busy(d)
      /\ \A d : Busy(d) => Busy(d)' \/ d = r.at
  BY <1>1 DEF Answered, Posting, Content, Busy
<1>3. WorkOK' /\ QueueOK'
  BY DEF TreeInv, WorkOK, QueueOK
<1>4. PostAlone'
  BY <1>2 DEF TreeInv, PostAlone
<1>5. AnswersTell'
  BY <1>1, <1>2 DEF TreeInv, AnswersTell, Tells
<1> QED
  BY <1>1, <1>2, <1>3, <1>4, <1>5 DEF TreeInv, KinOK

(* An answer for a folder that the model does not know.                    *)
LEMMA GoneKept ==
  ASSUME TreeInv, NEW r \in traffic, r.kind \notin Posts,
         r.at \notin Known(model), Gone(r), Forgets(r.at)
  PROVE  TreeInv'
<1>1. /\ traffic' = traffic \ {r}
      /\ UNCHANGED <<model, worker, queue, timers, stored, batch, done, met>>
      /\ lost \subseteq lost' /\ lost' \subseteq lost \cup {r.at}
      /\ worker # None => r.at \notin Known(worker.given) \/ r.at \in lost'
  BY DEF Gone, Forgets
<1>2. /\ WorkOK' /\ QueueOK' /\ PostAlone' /\ AnswersTell'
      /\ \A q \in traffic' \cup Listings' : \A x \in q.items : In[x] = q.at
      /\ \A d : Posting(d)' <=> Posting(d)
      /\ \A d : Content(d)' = Content(d)
      /\ \A d : Busy(d) => Busy(d)' \/ d = r.at
  BY <1>1, RemovalKept
<1>3. TreeTypeOK'
  <2>1. r.at \in Places
    BY DEF TreeInv, TreeTypeOK, Message
  <2> QED
    BY <1>1, <2>1 DEF TreeInv, TreeTypeOK
<1>4. Follows(model)'
  BY <1>1, <1>2 DEF TreeInv, ModelsFollow, Follows
<1>5. worker' # None => Follows(worker.given)'
  BY <1>1, <1>2 DEF TreeInv, ModelsFollow, Follows
<1>6. KinOK'
  BY <1>1, <1>2 DEF TreeInv, KinOK
<1> QED
  BY <1>2, <1>3, <1>4, <1>5, <1>6 DEF TreeInv, ModelsFollow

(* An answer for a folder that the model knows goes to the worker, or into *)
(* its queue.                                                              *)
LEMMA TakenKept ==
  ASSUME TreeInv, NEW r \in traffic, r.at \in Known(model), Arrive(r)
  PROVE  TreeInv'
<1>1. /\ r.kind = "listed" /\ model' = Emptied(model, r.at)
      /\ IF worker = None
         THEN worker' = Work(model', r) /\ queue' = queue
         ELSE queue' = Append(queue, r) /\ worker' = worker
      /\ traffic' = traffic \ {r}
      /\ UNCHANGED <<timers, stored, batch, done, met, lost>>
  BY DEF Arrive
<1>2. IsModel(model) /\ Kin(model) /\ r \in Message /\ queue \in Seq(Message)
  BY DEF TreeInv, TreeTypeOK, KinOK, IsModel
<1>3. /\ IsModel(model') /\ Kin(model') /\ Known(model') = Known(model)
      /\ \A n \in Known(model) : n # r.at => model'[n] = model[n]
  BY <1>1, <1>2, EmptiedModel
<1>4. worker = None =>
        /\ worker' \in Jobs(Known(model')) /\ worker' # None
        /\ worker'.at = r.at /\ worker'.items = r.items
        /\ worker'.bare = r.bare /\ worker'.given = model'
  BY <1>1, <1>2, <1>3, WorkIsJob
<1>5. worker # None =>
        /\ worker' = worker /\ queue' \in Seq(Message)
        /\ Len(queue') = Len(queue) + 1
        /\ \A i \in 1 .. Len(queue) : queue'[i] = queue[i]
        /\ queue'[Len(queue) + 1] = r
  BY <1>1, <1>2, AppendProperties
<1>6. Len(queue) \in Nat
  BY <1>2
<1>7. r \in Listings /\ (worker = None => queue' = queue)
  BY <1>1 DEF Listings
<1>8. Listings' \subseteq Listings
  <2>1. ASSUME NEW i \in 1 .. Len(queue') PROVE queue'[i] \in Listings
    <3>1. CASE queue' = queue
      BY <2>1, <3>1 DEF Listings
    <3>2. CASE worker # None
      <4>1. i \in 1 .. Len(queue) \/ i = Len(queue) + 1
        BY <1>5, <1>6, <2>1, <3>2
      <4> QED
        BY <1>5, <1>7, <3>2, <4>1 DEF Listings
    <3> QED
      BY <1>7, <3>1, <3>2
  <2> QED
    BY <1>1, <2>1 DEF Listings
<1>9. \A d : Answered(d)' => Answered(d)
  <2>1. worker' # None => worker'.at = r.at \/ (worker # None /\ worker' = worker)
    BY <1>4, <1>5
  <2> QED
    BY <1>7, <1>8, <2>1 DEF Answered
<1>10. Busy(r.at)'
  <2>1. CASE worker = None
    BY <1>4, <2>1 DEF Busy
  <2>2. CASE worker # None
    <3>1. Len(queue) + 1 \in 1 .. Len(queue')
      BY <1>5, <1>6, <2>2
    <3> QED
      BY <1>5, <2>2, <3>1 DEF Busy
  <2> QED
    BY <2>1, <2>2
<1>11. \A d : Busy(d) => Busy(d)'
  <2> SUFFICES ASSUME NEW d, Busy(d), d # r.at PROVE Busy(d)'
    BY <1>10
  <2>1. CASE \E q \in traffic : q.at = d /\ q.kind \notin Posts
    BY <1>1, <2>1 DEF Busy
  <2>2. CASE worker # None /\ worker.at = d
    BY <1>5, <2>2 DEF Busy
  <2>3. CASE \E i \in 1 .. Len(queue) : queue[i].at = d
    <3>1. PICK i \in 1 .. Len(queue) : queue[i].at = d
      BY <2>3
    <3>2. i \in 1 .. Len(queue') /\ queue'[i] = queue[i]
      BY <1>5, <1>6, <1>7, <3>1
    <3> QED
      BY <3>1, <3>2 DEF Busy
  <2> QED
    BY <2>1, <2>2, <2>3 DEF Busy
<1>12. \A d : Busy(d)' => Busy(d)
  <2> SUFFICES ASSUME NEW d, Busy(d)' PROVE Busy(d)
    OBVIOUS
  <2>1. CASE \E q \in traffic' : q.at = d /\ q.kind \notin Posts
    BY <1>1, <2>1 DEF Busy
  <2>2. CASE Answered(d)'
    BY <1>9, <2>2, AnsweredIsBusy
  <2>3. CASE \E i \in 1 .. Len(queue') : queue'[i].at = d
    BY <2>2, <2>3 DEF Answered, Listings
  <2>4. CASE worker' # None /\ worker'.at = d
    BY <2>2, <2>4 DEF Answered
  <2> QED
    BY <2>1, <2>3, <2>4 DEF Busy
<1>13. /\ \A d : Posting(d)' <=> Posting(d)
       /\ \A d : Content(d)' = Content(d)
  BY <1>1 DEF Posting, Content, Posts
<1>14. TreeTypeOK'
  <2>1. traffic' \subseteq Message
    BY <1>1 DEF TreeInv, TreeTypeOK
  <2>2. queue' \in Seq(Message)
    BY <1>2, <1>5, <1>7
  <2>3. worker' # None => /\ Known(worker'.given) \subseteq Places
                          /\ worker' \in Jobs(Known(worker'.given))
    <3>1. CASE worker = None
      BY <1>3, <1>4, <3>1 DEF IsModel
    <3>2. CASE worker # None
      BY <1>5, <3>2 DEF TreeInv, TreeTypeOK
    <3> QED
      BY <3>1, <3>2
  <2> QED
    BY <1>1, <1>3, <2>1, <2>2, <2>3 DEF TreeInv, TreeTypeOK, IsModel
<1>15. /\ \A q \in traffic \cup Listings : \A x \in q.items : In[x] = q.at
  BY DEF TreeInv, KinOK
<1>16. KinOK'
  BY <1>1, <1>3, <1>8, <1>15 DEF KinOK
<1>17. WorkOK'
  <2>1. CASE worker = None
    BY <1>3, <1>4, <1>7, <1>15, <2>1 DEF WorkOK
  <2>2. CASE worker # None
    BY <1>5, <2>2 DEF TreeInv, WorkOK
  <2> QED
    BY <2>1, <2>2
<1>18. QueueOK'
  BY <1>4, <1>5 DEF QueueOK
<1>19. PostAlone'
  BY <1>1, <1>9, <1>12, <1>13 DEF TreeInv, PostAlone
<1>20. AnswersTell'
  <2>1. \A w \in Listings : Tells(w)'
    BY <1>1, <1>13 DEF TreeInv, AnswersTell, Tells
  <2>2. worker' # None => Tells(worker)'
    <3>1. CASE worker = None
      BY <1>4, <1>7, <2>1, <3>1 DEF Tells
    <3>2. CASE worker # None
      BY <1>1, <1>5, <1>13, <3>2 DEF TreeInv, AnswersTell, Tells
    <3> QED
      BY <3>1, <3>2
  <2> QED
    BY <1>8, <2>1, <2>2 DEF AnswersTell
<1>21. Follows(model)'
  BY <1>1, <1>3, <1>10, <1>11, <1>13 DEF TreeInv, ModelsFollow, Follows
<1>22. worker' # None => Follows(worker.given)'
  <2>1. CASE worker = None
    BY <1>4, <1>21, <2>1 DEF Follows
  <2>2. CASE worker # None
    BY <1>1, <1>5, <1>11, <1>13, <2>2 DEF TreeInv, ModelsFollow, Follows
  <2> QED
    BY <2>1, <2>2
<1> QED
  BY <1>14, <1>16, <1>17, <1>18, <1>19, <1>20, <1>21, <1>22
  DEF TreeInv, ModelsFollow

(* An answer goes to the worker, or to the queue.                          *)
LEMMA ArriveKept ==
  ASSUME TreeInv, NEW r \in traffic, Arrive(r)
  PROVE  TreeInv'
<1>1. CASE r.at \in Known(model)
  BY <1>1, TakenKept
<1>2. CASE r.at \notin Known(model)
  <2>1. Gone(r) /\ Forgets(r.at) /\ r.kind \notin Posts
    BY <1>2 DEF Arrive, Posts
  <2> QED
    BY <1>2, <2>1, GoneKept
<1> QED
  BY <1>1, <1>2
-----------------------------------------------------------------------------
(* What the end of load_node opens and loads.                              *)
LEMMA EndsWhat ==
  ASSUME NEW m, NEW then \in Then, NEW ok
  PROVE  /\ Loads(m, then) \subseteq Known(m)
         /\ Opens(m, then, ok) \subseteq Folders
         /\ Waiting(m, Opens(m, then, ok)) \subseteq Folders
         /\ then.id \in Nat
<1>1. Loads(m, then) \subseteq Known(m)
  BY DEF Loads, ToLoad, Wanted
<1>2. Opens(m, then, ok) \subseteq Folders /\ then.id \in Nat
  BY DEF Opens, Then
<1>3. Waiting(m, Opens(m, then, ok)) \subseteq Folders
  BY <1>2 DEF Waiting, ClosedIn
<1> QED
  BY <1>1, <1>2, <1>3

(* What the end of load_node sends, and what it marks, is of its type.     *)
LEMMA LoadEndsTyped ==
  ASSUME TreeInv, NEW m, IsModel(m), NEW then \in Then, NEW ok,
         NEW rest \in SUBSET traffic, LoadEnds(m, then, ok, rest)
  PROVE  /\ traffic' \subseteq Message /\ batch' \in Nat /\ met' \subseteq Places
         /\ done' \subseteq Nat
<1>1. Calls(m, Loads(m, then), then, Opens(m, then, ok), rest, {})
  BY DEF LoadEnds
<1>2. PICK load, open, posts : load = Loads(m, then) /\ open = Opens(m, then, ok)
                               /\ posts = {}
  OBVIOUS
<1>3. /\ load \in SUBSET Known(m) /\ open \in SUBSET Folders
      /\ posts \in SUBSET Message /\ TreeTypeOK
  BY <1>2, EndsWhat DEF TreeInv
<1>4. Calls(m, load, then, open, rest, posts)
  BY <1>1, <1>2
<1>5. traffic' \subseteq Message /\ batch' \in Nat /\ met' \subseteq Places
  BY <1>3, <1>4, CallsTyped
<1>6. done' \subseteq Nat
  BY EndsWhat DEF LoadEnds, TreeInv, TreeTypeOK
<1> QED
  BY <1>5, <1>6

(* A node that has ended loading.                                          *)
LEMMA SettledNode ==
  ASSUME NEW node \in Node, NEW ok \in BOOLEAN
  PROVE  /\ Settled(node, ok) \in Node /\ Settled(node, ok).kids = node.kids
         /\ ~Settled(node, ok).loading /\ (Settled(node, ok).loaded <=> ok)
<1>1. CASE ok = TRUE
  BY <1>1 DEF Settled, Node
<1>2. CASE ok = FALSE
  BY <1>2 DEF Settled, Node
<1> QED
  BY <1>1, <1>2

(* The model in which the load of d has ended, with success or not.        *)
SettledAt(m, d, ok) == [m EXCEPT ![d] = Settled(@, ok)]
LEMMA SettledModel ==
  ASSUME NEW m, IsModel(m), Kin(m), NEW d, NEW ok \in BOOLEAN, NEW s,
         s = SettledAt(m, d, ok)
  PROVE  /\ IsModel(s) /\ Kin(s) /\ Known(s) = Known(m)
         /\ \A n \in Known(m) :
              /\ s[n].kids = m[n].kids
              /\ n # d => s[n] = m[n]
              /\ n = d => ~s[n].loading /\ (s[n].loaded <=> ok)
<1>1. Known(s) = Known(m)
  BY DEF SettledAt, Known, IsModel
<1>2. \A n \in Known(m) : n # d => s[n] = m[n]
  BY DEF SettledAt, Known, IsModel
<1>3. d \in Known(m) => s[d] = Settled(m[d], ok) /\ m[d] \in Node
  BY DEF SettledAt, Known, IsModel
<1>4. d \in Known(m) => /\ s[d] \in Node /\ s[d].kids = m[d].kids
                        /\ ~s[d].loading /\ (s[d].loaded <=> ok)
  BY <1>3, SettledNode
<1>5. \A n \in Known(m) : s[n] \in Node /\ s[n].kids = m[n].kids
  BY <1>2, <1>4 DEF IsModel
<1>6. s = [n \in Known(s) |-> s[n]]
  BY <1>1 DEF SettledAt, Known, IsModel
<1>7. IsModel(s)
  BY <1>1, <1>5, <1>6 DEF IsModel
<1>8. Kin(s)
  BY <1>1, <1>5 DEF Kin
<1> QED
  BY <1>1, <1>2, <1>4, <1>5, <1>7, <1>8

(* A request for children fails.                                           *)
LEMMA FailKnownKept ==
  ASSUME TreeInv, NEW r \in traffic, r.at \in Known(model), FailList(r)
  PROVE  TreeInv'
<1>1. PICK m : m = [model EXCEPT ![r.at] = Settled(@, FALSE)]
  OBVIOUS
<1>2. PICK load, open : load = Loads(m, r.then) /\ open = Opens(m, r.then, FALSE)
  OBVIOUS
<1>3. /\ model' = After(m, load, open)
      /\ LoadEnds(m, r.then, FALSE, traffic \ {r})
      /\ timers' = timers \cup Waiting(m, open)
      /\ UNCHANGED <<worker, queue, stored>>
      /\ r.kind = "list" /\ Forgets(r.at)
  BY <1>1, <1>2 DEF FailList, Ended
<1>4. /\ lost \subseteq lost' /\ lost' \subseteq lost \cup {r.at}
      /\ worker # None => r.at \notin Known(worker.given) \/ r.at \in lost'
  BY <1>3 DEF Forgets
<1>5. IsModel(model) /\ Kin(model) /\ r \in Message /\ r.then \in Then
      /\ r.at \in Places
  BY DEF TreeInv, TreeTypeOK, KinOK, IsModel, Message
<1>6. /\ IsModel(m) /\ Kin(m) /\ Known(m) = Known(model)
      /\ \A n \in Known(model) :
           /\ m[n].kids = model[n].kids
           /\ n # r.at => m[n] = model[n]
           /\ n = r.at => ~m[n].loading /\ ~m[n].loaded
  <2>1. PICK ok \in BOOLEAN : ok = FALSE
    OBVIOUS
  <2>2. m = SettledAt(model, r.at, ok)
    BY <1>1, <2>1 DEF SettledAt
  <2>3. /\ IsModel(m) /\ Kin(m) /\ Known(m) = Known(model)
        /\ \A n \in Known(model) :
             /\ m[n].kids = model[n].kids
             /\ n # r.at => m[n] = model[n]
             /\ n = r.at => ~m[n].loading /\ (m[n].loaded <=> ok)
    BY <1>5, <2>2, SettledModel
  <2> QED
    BY <2>1, <2>3
<1>7. load \in SUBSET Known(m) /\ open \subseteq Folders
      /\ Waiting(m, open) \subseteq Folders
  BY <1>2, <1>5, EndsWhat
<1>8. /\ IsModel(model') /\ Kin(model')
      /\ Known(model') \subseteq Known(m)
      /\ \A n \in Known(model') :
           IF n \in load \cup Unloaded(m, open)
           THEN model'[n].loading
           ELSE /\ model'[n].loading = m[n].loading
                /\ model'[n].loaded = m[n].loaded
                /\ model'[n].kids = m[n].kids
  <2>1. LoadsOnly(After(m, load, open), m, load \cup Unloaded(m, open))
    BY <1>6, <1>7, AfterModel
  <2> QED
    BY <1>3, <2>1 DEF LoadsOnly
<1>9. PICK rest \in SUBSET traffic : rest = traffic \ {r}
  OBVIOUS
<1>10. Calls(m, load, r.then, open, rest, {})
  BY <1>2, <1>3, <1>9 DEF LoadEnds
<1>11. /\ met \subseteq met' /\ WorkOK' /\ QueueOK' /\ PostAlone'
       /\ AnswersTell'
       /\ \A q \in traffic' \cup Listings' : \A x \in q.items : In[x] = q.at
       /\ \A d : Posting(d)' => Posting(d)
       /\ \A d : Content(d)' = Content(d)
       /\ \A d \in load \cup Unloaded(m, open) : Busy(d)'
  BY <1>3, <1>4, <1>10, SendingKept
<1>12. TreeTypeOK'
  <2>1. /\ traffic' \subseteq Message /\ batch' \in Nat /\ met' \subseteq Places
        /\ done' \subseteq Nat
    BY <1>3, <1>5, <1>6, <1>9, LoadEndsTyped
  <2>2. timers' \subseteq Places
    BY <1>3, <1>7 DEF TreeInv, TreeTypeOK, Places
  <2>3. lost' \subseteq Places
    BY <1>4, <1>5 DEF TreeInv, TreeTypeOK
  <2> QED
    BY <1>3, <1>8, <2>1, <2>2, <2>3 DEF TreeInv, TreeTypeOK, IsModel
<1>13. \A d : Busy(d) => Busy(d)' \/ d = r.at
  <2>1. traffic \ {r} \subseteq traffic'
    BY <1>9, <1>10 DEF Calls
  <2> QED
    BY <1>3, <2>1 DEF Busy
<1>14. Follows(model)'
  <2> SUFFICES ASSUME NEW d \in Known(model') \ (met' \cup lost'), ~Busy(d)'
               PROVE  /\ ~model'[d].loading
                      /\ model'[d].loaded =>
                           ~Posting(d)' /\ model'[d].kids \cap Items = Content(d)'
    BY DEF Follows
  <2>1. /\ model'[d].loading = m[d].loading
        /\ model'[d].loaded = m[d].loaded
        /\ model'[d].kids = m[d].kids
    BY <1>8, <1>11
  <2>2. CASE d = r.at
    BY <1>6, <1>8, <2>1, <2>2
  <2>3. CASE d # r.at
    <3>1. m[d] = model[d] /\ d \in Known(model) \ (met \cup lost) /\ ~Busy(d)
      BY <1>4, <1>6, <1>8, <1>11, <1>13, <2>3
    <3> QED
      BY <1>11, <2>1, <3>1 DEF TreeInv, ModelsFollow, Follows
  <2> QED
    BY <2>2, <2>3
<1>15. worker' # None => Follows(worker.given)'
  <2> SUFFICES ASSUME worker # None,
                      NEW d \in Known(worker.given) \ (met' \cup lost'), ~Busy(d)'
               PROVE  /\ ~worker.given[d].loading
                      /\ worker.given[d].loaded =>
                           /\ ~Posting(d)'
                           /\ worker.given[d].kids \cap Items = Content(d)'
    BY <1>3 DEF Follows
  <2>1. d \in Known(worker.given) \ (met \cup lost) /\ ~Busy(d)
    BY <1>4, <1>11, <1>13
  <2> QED
    BY <1>11, <2>1 DEF TreeInv, ModelsFollow, Follows
<1> QED
  BY <1>8, <1>11, <1>12, <1>14, <1>15 DEF TreeInv, KinOK, ModelsFollow

(* A listing that fails ends the load of its folder.                       *)
LEMMA FailListKept ==
  ASSUME TreeInv, NEW r \in traffic, FailList(r)
  PROVE  TreeInv'
<1>1. CASE r.at \in Known(model)
  BY <1>1, FailKnownKept
<1>2. CASE r.at \notin Known(model)
  <2>1. Gone(r) /\ Forgets(r.at) /\ r.kind \notin Posts
    BY <1>2 DEF FailList, Posts
  <2> QED
    BY <1>2, <2>1, GoneKept
<1> QED
  BY <1>1, <1>2

-----------------------------------------------------------------------------
(* A folder that is known, and where nothing is busy or has met anything,  *)
(* is loaded again after a write.                                          *)
LEMMA RefreshLoads ==
  ASSUME TreeInv, NEW d \in Known(model), d \in Folders, d \notin met \cup lost,
         ~Busy(d)
  PROVE  d \in ToLoad(model, Refreshed(d), TRUE)
<1>1. IsModel(model) /\ Kin(model)
  BY DEF TreeInv, TreeTypeOK, KinOK, IsModel
<1>2. ~model[d].loading
  BY DEF TreeInv, ModelsFollow, Follows
<1>3. d \in Refreshed(d) /\ Refreshed(d) \subseteq Below(model, d) \cup {d}
  BY DEF Refreshed
<1>4. \A e \in Below(model, d) : d \notin Below(model, e) /\ e \in Known(model)
  BY <1>1, BelowApart
<1>5. d \notin Below(model, d)
  BY <1>4
<1> QED
  BY <1>2, <1>3, <1>4, <1>5 DEF ToLoad, Wanted

(* A file is made or deleted, and its folder refreshed.                    *)
LEMMA PostKept ==
  ASSUME TreeInv, NEW kind \in Posts, NEW x \in Items,
         In[x] # Root => In[x] \in Known(model) \/ Busy(In[In[x]]),
         PostAndRefresh(kind, x, In[x])
  PROVE  TreeInv'
<1>1. PICK d : d = In[x]
  OBVIOUS
<1>2. PICK nodes : nodes = IF d = Root \/ d \notin Known(model) THEN {}
                           ELSE Refreshed(d)
  OBVIOUS
<1>3. PICK load, open, posts, then :
        /\ load = ToLoad(model, nodes, TRUE) /\ open = {}
        /\ posts = {Post(kind, x, batch + 1)}
        /\ then = [id |-> batch + 1, wait |-> nodes,
                   open |-> {e \in nodes : model[e].opened}]
  OBVIOUS
<1>4. /\ model' = After(model, load, open)
      /\ Calls(model, load, then, open, traffic, posts)
      /\ UNCHANGED <<worker, queue, timers, stored, done, lost>>
  BY <1>1, <1>2, <1>3 DEF PostAndRefresh
<1>5. IsModel(model) /\ Kin(model) /\ batch \in Nat /\ batch + 1 \in Nat
  BY DEF TreeInv, TreeTypeOK, KinOK, IsModel
<1>6. d \in Places /\ (d # Root => d \in Folders)
  BY <1>1, FileTreeAssumption DEF Places
<1>7. nodes # {} => /\ d \in Folders /\ d # Root /\ d \in Known(model)
                    /\ nodes \subseteq Below(model, d) \cup {d}
  BY <1>2, <1>6 DEF Refreshed
<1>8. nodes \subseteq Folders
  BY <1>5, <1>6, <1>7, BelowApart
<1>9. load \subseteq nodes /\ load \subseteq Known(model)
  BY <1>3 DEF ToLoad, Wanted
<1>10. In[d] \notin load
  <2> SUFFICES ASSUME load # {} PROVE In[d] \notin load
    OBVIOUS
  <2>1. d \in Folders /\ d \in Known(model)
    BY <1>7, <1>9
  <2>2. \A n \in Below(model, d) : n # In[d]
    BY <1>5, <2>1, BelowApart
  <2>3. In[d] # d
    BY <2>1, InApart
  <2> QED
    BY <1>7, <1>9, <2>2, <2>3
<1>11. /\ then \in Then
       /\ posts \subseteq Message
       /\ \A r \in posts : /\ r.kind \in Posts /\ r.at = d
                           /\ \A y \in r.items : In[y] = d
       /\ \E r \in posts : r.at = d
  <2>1. d \in Places /\ nodes \subseteq Places
    BY <1>6, <1>8 DEF Places
  <2>2. then \in Then
    BY <1>3, <1>5, <1>8, <2>1 DEF Then
  <2>3. NoThen \in Then
    BY DEF NoThen, Then
  <2>4. Post(kind, x, batch + 1) \in Message
    BY <1>1, <1>5, <2>1, <2>3 DEF Post, Message
  <2> QED
    BY <1>1, <1>3, <2>2, <2>4 DEF Post
<1>12. Unloaded(model, open) = {}
  BY <1>3, UnloadedKnown
<1>13. /\ met \subseteq met'
       /\ traffic \subseteq traffic' /\ posts \subseteq traffic'
       /\ \A r \in traffic' : r \in traffic \/ r \in posts
            \/ (r.kind = "list" /\ r.items = {} /\ r.at \in load)
       /\ \A e \in load : Busy(e)'
       /\ \A e \in Places : (\E r \in posts : r.at = e) =>
            e \in met' \/ (e # Root /\ ~Busy(e) /\ ~Busy(In[e]))
       /\ \A n \in load : \A e \in Subfolders(n) : Posting(e) => e \in met'
  <2>0. PICK rest \in SUBSET traffic : rest = traffic
    OBVIOUS
  <2>1. PICK all : all = load \cup Unloaded(model, open)
    OBVIOUS
  <2>2. /\ Calls(model, load, then, open, rest, posts)
        /\ \A r \in posts : r.kind \in Posts
    BY <1>4, <1>11, <2>0
  <2>3. /\ met \subseteq met'
        /\ rest \subseteq traffic' /\ posts \subseteq traffic'
        /\ \A r \in traffic' : r \in rest \/ r \in posts
             \/ /\ r.kind = "list" /\ r.items = {}
                /\ r.at \in load \cup Unloaded(model, open)
        /\ \A e \in load \cup Unloaded(model, open) : Busy(e)'
        /\ \A e \in Places : (\E r \in posts : r.at = e) =>
             e \in met' \/ (e # Root /\ ~Busy(e) /\ ~Busy(In[e]))
        /\ \A n \in load \cup Unloaded(model, open) :
             \A e \in Subfolders(n) : Posting(e) => e \in met'
    BY <2>2, CallsSend
  <2>4. all = load
    BY <1>12, <2>1
  <2>5. /\ \A r \in traffic' : r \in rest \/ r \in posts
             \/ (r.kind = "list" /\ r.items = {} /\ r.at \in all)
        /\ \A e \in all : Busy(e)'
        /\ \A n \in all : \A e \in Subfolders(n) : Posting(e) => e \in met'
    BY <2>1, <2>3
  <2> QED
    BY <2>0, <2>1, <2>3, <2>4, <2>5
<1>14. /\ IsModel(model') /\ Kin(model')
       /\ Known(model') \subseteq Known(model)
       /\ \A n \in Known(model') :
            IF n \in load \cup Unloaded(model, open)
            THEN model'[n].loading
            ELSE /\ model'[n].loading = model[n].loading
                 /\ model'[n].loaded = model[n].loaded
                 /\ model'[n].kids = model[n].kids
  <2>1. load \in SUBSET Known(model)
    BY <1>9
  <2>2. LoadsOnly(After(model, load, open), model,
                  load \cup Unloaded(model, open))
    BY <1>5, <2>1, AfterModel
  <2> QED
    BY <1>4, <2>2 DEF LoadsOnly
<1>15. d \in met' \/ (d # Root /\ ~Busy(d) /\ ~Busy(In[d]))
  BY <1>6, <1>11, <1>13
<1>16. d \in met' \cup lost' \/ Busy(d)'
  <2> SUFFICES ASSUME d \notin met', d \notin lost' PROVE Busy(d)'
    OBVIOUS
  <2>1. d # Root /\ ~Busy(d) /\ d \in Known(model) /\ d \notin met \cup lost
    BY <1>1, <1>4, <1>13, <1>15
  <2>2. d \in ToLoad(model, Refreshed(d), TRUE)
    BY <1>6, <2>1, RefreshLoads
  <2> QED
    BY <1>2, <1>3, <1>6, <1>13, <2>1, <2>2
<1>17. /\ Listings' = Listings
       /\ \A e : Answered(e)' <=> Answered(e)
       /\ \A e : Content(e)' = Content(e)
  <2>1. \A r \in traffic' : r.kind = "listed" => r \in traffic
    BY <1>11, <1>13 DEF Posts
  <2>2. Listings' = Listings
    BY <1>4, <1>13, <2>1 DEF Listings
  <2> QED
    BY <1>4, <2>2 DEF Answered, Content
<1>18. \A e : Posting(e)' => Posting(e) \/ e = d
  BY <1>11, <1>13 DEF Posting, Posts
<1>19. /\ \A e : Busy(e) => Busy(e)'
       /\ \A e : Busy(e)' => Busy(e) \/ e \in load
  BY <1>4, <1>11, <1>13 DEF Busy
<1>20. TreeTypeOK'
  <2>1. traffic' \subseteq Message /\ batch' \in Nat /\ met' \subseteq Places
    <3>1. PICK rest \in SUBSET traffic : rest = traffic
      OBVIOUS
    <3>2. Calls(model, load, then, open, rest, posts)
      BY <1>4, <3>1
    <3>3. load \in SUBSET Known(model) /\ open \in SUBSET Folders /\ TreeTypeOK
          /\ posts \in SUBSET Message
      BY <1>3, <1>9, <1>11 DEF TreeInv
    <3> QED
      BY <1>5, <1>11, <3>2, <3>3, CallsTyped
  <2> QED
    BY <1>4, <1>14, <2>1 DEF TreeInv, TreeTypeOK, IsModel
<1>21. KinOK'
  <2>1. \A r \in traffic' : \A y \in r.items : In[y] = r.at
    BY <1>11, <1>13 DEF TreeInv, KinOK
  <2> QED
    BY <1>14, <1>17, <2>1 DEF TreeInv, KinOK
<1>22. WorkOK' /\ QueueOK'
  BY <1>4 DEF TreeInv, WorkOK, QueueOK
<1>23. PostAlone'
  <2> SUFFICES ASSUME NEW e \in Places \ met', Posting(e)'
               PROVE  ~Answered(e)' /\ (e # Root => ~Busy(In[e])')
    BY DEF PostAlone
  <2>1. CASE e = d
    <3>1. ~Answered(d) /\ ~Busy(In[d])
      BY <1>15, <2>1, AnsweredIsBusy
    <3> QED
      BY <1>10, <1>17, <1>19, <2>1, <3>1
  <2>2. CASE e # d
    <3>1. Posting(e) /\ e \notin met
      BY <1>13, <1>18, <2>2
    <3>2. ~Answered(e) /\ (e # Root => ~Busy(In[e]))
      BY <3>1 DEF TreeInv, PostAlone
    <3>3. e # Root => In[e] \notin load
      <4>1. e # Root => e \in Subfolders(In[e])
        BY DEF Subfolders, Places
      <4> QED
        BY <1>13, <3>1, <4>1
    <3> QED
      BY <1>17, <1>19, <3>2, <3>3
  <2> QED
    BY <2>1, <2>2
<1>24. AnswersTell'
  BY <1>4, <1>13, <1>17 DEF TreeInv, AnswersTell, Tells
<1>25. \A e : e \notin met' \cup lost' /\ ~Busy(e)' =>
         /\ ~Busy(e) /\ e \notin met \cup lost /\ e \notin load
         /\ (Posting(e)' => Posting(e))
  BY <1>4, <1>13, <1>16, <1>18, <1>19
<1>26. Follows(model)'
  BY <1>12, <1>14, <1>17, <1>25 DEF TreeInv, ModelsFollow, Follows
<1>27. worker' # None => Follows(worker.given)'
  BY <1>4, <1>17, <1>25 DEF TreeInv, ModelsFollow, Follows
<1> QED
  BY <1>20, <1>21, <1>22, <1>23, <1>24, <1>26, <1>27 DEF TreeInv, ModelsFollow
-----------------------------------------------------------------------------
(* A node that is new.                                                     *)
LEMMA FreshNode ==
  ASSUME NEW bare \in BOOLEAN
  PROVE  /\ Fresh(bare) \in Node /\ Fresh(bare).kids = {}
         /\ ~Fresh(bare).loading /\ (Fresh(bare).loaded <=> bare)
<1>1. CASE bare = TRUE
  BY <1>1 DEF Fresh, Node
<1>2. CASE bare = FALSE
  BY <1>2 DEF Fresh, Node
<1> QED
  BY <1>1, <1>2

(* The model that a worker hands back, with what was loading meanwhile.    *)
LEMMA MergedModel ==
  ASSUME TreeInv, worker # None, NEW w, w = worker,
         NEW mod, mod = Merged(model, Parsed(w))
  PROVE  /\ w.at \in Places /\ w.then \in Then /\ IsModel(mod) /\ Kin(mod)
         /\ Known(mod) = Known(w.given) \cup Subfolders(w.at)
         /\ \A n \in Known(mod) :
              /\ mod[n].loading /\ ~(n \in Known(model) /\ model[n].loading) =>
                   n \notin Subfolders(w.at) /\ w.given[n].loading
              /\ n \in Subfolders(w.at) =>
                   mod[n].kids = {} /\ (mod[n].loaded => n \in w.bare)
              /\ n = w.at => mod[n].kids \cap Items = w.items
              /\ n \notin Subfolders(w.at) /\ n # w.at =>
                   /\ mod[n].kids = w.given[n].kids
                   /\ mod[n].loaded = w.given[n].loaded
<1> PICK subs : subs = Subfolders(w.at)
  OBVIOUS
<1> PICK p : p = Parsed(w)
  OBVIOUS
<1>1. /\ w \in Jobs(Known(w.given)) /\ IsModel(w.given) /\ Kin(w.given)
      /\ \A x \in w.items : In[x] = w.at
  BY DEF TreeInv, TreeTypeOK, WorkOK
<1>2. /\ w.at \in Places /\ w.items \subseteq Items /\ w.bare \subseteq Folders
      /\ w.then \in Then
  BY <1>1 DEF Jobs
<1>3. /\ subs \subseteq Folders /\ \A n \in subs : In[n] = w.at
      /\ w.at \notin subs
  BY InApart DEF Subfolders
<1>4. /\ Known(p) = Known(w.given) \cup subs
      /\ \A n \in Known(w.given) \cup subs :
           p[n] = IF n \in subs THEN Fresh(n \in w.bare)
                  ELSE IF n = w.at
                       THEN [w.given[n] EXCEPT !.kids = w.items \cup subs]
                       ELSE w.given[n]
  BY DEF Parsed, Known
<1>5. \A n \in subs :
        /\ p[n] \in Node /\ p[n].kids = {} /\ ~p[n].loading
        /\ (p[n].loaded => n \in w.bare)
  <2>1. ASSUME NEW n \in subs
        PROVE  /\ p[n] \in Node /\ p[n].kids = {} /\ ~p[n].loading
               /\ (p[n].loaded => n \in w.bare)
    <3>1. PICK bare \in BOOLEAN : bare <=> n \in w.bare
      OBVIOUS
    <3>2. p[n] = Fresh(bare)
      <4>1. p[n] = Fresh(n \in w.bare)
        BY <1>4, <2>1
      <4>2. bare = (n \in w.bare)
        BY <3>1
      <4> QED
        BY <4>1, <4>2
    <3> QED
      BY <3>1, <3>2, FreshNode
  <2> QED
    BY <2>1
<1>6. ASSUME NEW n \in Known(w.given), n \notin subs
      PROVE  /\ p[n] \in Node /\ p[n].loading = w.given[n].loading
             /\ n = w.at => p[n].kids = w.items \cup subs
             /\ n # w.at => p[n] = w.given[n]
  <2>1. w.given[n] \in Node
    BY <1>1 DEF IsModel
  <2>2. CASE n = w.at
    <3>1. p[n] = [w.given[n] EXCEPT !.kids = w.items \cup subs]
      BY <1>4, <1>6, <2>2
    <3>2. w.items \cup subs \subseteq Folders \cup Items
      BY <1>2, <1>3
    <3> QED
      BY <2>1, <2>2, <3>1, <3>2 DEF Node
  <2>3. CASE n # w.at
    BY <1>4, <1>6, <2>1, <2>3
  <2> QED
    BY <2>2, <2>3
<1>7. \A n \in Known(p) : p[n] \in Node
  BY <1>4, <1>5, <1>6
<1>8. Known(mod) = Known(p)
  BY DEF Merged, Known
<1>9. ASSUME NEW n \in Known(mod)
      PROVE  /\ mod[n] \in Node /\ mod[n].kids = p[n].kids
             /\ mod[n].loaded = p[n].loaded
             /\ mod[n].loading => p[n].loading
                                  \/ (n \in Known(model) /\ model[n].loading)
  <2>1. p[n] \in Node /\ n \in Known(p)
    BY <1>7, <1>8
  <2>2. mod[n] = IF n \in Known(model) /\ model[n].loading
                 THEN [p[n] EXCEPT !.loading = TRUE] ELSE p[n]
    BY <2>1 DEF Merged, Known
  <2>3. CASE n \in Known(model) /\ model[n].loading
    <3>1. mod[n] = [p[n] EXCEPT !.loading = TRUE]
      BY <2>2, <2>3
    <3> QED
      BY <2>1, <2>3, <3>1 DEF Node
  <2>4. CASE ~(n \in Known(model) /\ model[n].loading)
    BY <2>1, <2>2, <2>4
  <2> QED
    BY <2>3, <2>4
<1>10. IsModel(mod)
  <2>1. mod = [n \in Known(mod) |-> mod[n]]
    BY <1>8 DEF Merged, Known
  <2>2. mod \in [Known(mod) -> Node]
    BY <1>9, <2>1
  <2> QED
    BY <1>1, <1>3, <1>4, <1>8, <2>2 DEF IsModel, Places
<1>11. Kin(mod)
  <2> SUFFICES ASSUME NEW n \in Known(mod), NEW x \in mod[n].kids
               PROVE  In[x] = n
    BY DEF Kin
  <2>1. x \in p[n].kids
    BY <1>9
  <2>2. CASE n \in subs
    BY <1>5, <2>1, <2>2
  <2>3. CASE n \notin subs
    <3>1. n \in Known(w.given)
      BY <1>4, <1>8, <2>3
    <3> QED
      BY <1>1, <1>3, <1>6, <2>1, <2>3, <3>1 DEF Kin
  <2> QED
    BY <2>2, <2>3
<1>12. Items \cap subs = {}
  BY <1>3, FileTreeAssumption DEF Places
<1>13. ASSUME NEW n \in Known(mod)
      PROVE  /\ mod[n].loading /\ ~(n \in Known(model) /\ model[n].loading) =>
                  n \notin subs /\ w.given[n].loading
             /\ n \in subs => mod[n].kids = {} /\ (mod[n].loaded => n \in w.bare)
             /\ n = w.at => mod[n].kids \cap Items = w.items
             /\ n \notin subs /\ n # w.at =>
                  /\ mod[n].kids = w.given[n].kids
                  /\ mod[n].loaded = w.given[n].loaded
  <2>1. CASE n \in subs
    BY <1>3, <1>5, <1>9, <2>1
  <2>2. CASE n \notin subs
    <3>1. n \in Known(w.given)
      BY <1>4, <1>8, <2>2
    <3>2. n = w.at => mod[n].kids = w.items \cup subs
      BY <1>6, <1>9, <2>2, <3>1
    <3>3. n = w.at => mod[n].kids \cap Items = w.items
      BY <1>2, <1>12, <3>2
    <3> QED
      BY <1>6, <1>9, <2>2, <3>1, <3>3
  <2> QED
    BY <2>1, <2>2
<1> QED
  BY <1>2, <1>4, <1>8, <1>10, <1>11, <1>13

(* The model, the folder of the worker loaded.                             *)
LEMMA LoadedModel ==
  ASSUME NEW m, IsModel(m), Kin(m), NEW d, NEW s, s = Loaded(m, d)
  PROVE  /\ IsModel(s) /\ Kin(s) /\ Known(s) = Known(m)
         /\ \A n \in Known(m) :
              /\ s[n].kids = m[n].kids
              /\ n # d => s[n] = m[n]
              /\ n = d => ~s[n].loading
<1>1. Known(s) = Known(m)
  BY DEF Loaded, Known, IsModel
<1>2. \A n \in Known(m) : n # d => s[n] = m[n]
  BY DEF Loaded, Known, IsModel
<1>3. ASSUME d \in Known(m)
      PROVE  s[d] \in Node /\ s[d].kids = m[d].kids /\ ~s[d].loading
  <2>1. m[d] \in Node
    BY <1>3 DEF IsModel
  <2>2. PICK node : node = Settled(m[d], TRUE)
    OBVIOUS
  <2>3. PICK ok \in BOOLEAN : ok = TRUE
    OBVIOUS
  <2>4. node = Settled(m[d], ok)
    BY <2>2, <2>3
  <2>5. node \in Node /\ node.kids = m[d].kids /\ ~node.loading
    BY <2>1, <2>4, SettledNode
  <2>6. s[d] = [node EXCEPT !.opened = @ /\ ~Redrawn(m, d)]
    BY <1>3, <2>2 DEF Loaded, Known, IsModel
  <2>7. \A b \in BOOLEAN : LET q == [node EXCEPT !.opened = b] IN
          q \in Node /\ q.kids = node.kids /\ q.loading = node.loading
    BY <2>5 DEF Node
  <2>8. PICK b \in BOOLEAN : b = (node.opened /\ ~Redrawn(m, d))
    OBVIOUS
  <2>9. s[d] = [node EXCEPT !.opened = b]
    BY <2>6, <2>8
  <2> QED
    BY <2>5, <2>7, <2>9
<1>4. \A n \in Known(m) : s[n] \in Node /\ s[n].kids = m[n].kids
  BY <1>2, <1>3 DEF IsModel
<1>5. s = [n \in Known(s) |-> s[n]]
  BY <1>1 DEF Loaded, Known, IsModel
<1>6. IsModel(s)
  BY <1>1, <1>4, <1>5 DEF IsModel
<1>7. Kin(s)
  BY <1>1, <1>4 DEF Kin
<1> QED
  BY <1>1, <1>2, <1>3, <1>4, <1>6, <1>7
(* The worker is done, and takes the next answer from the queue.           *)
LEMMA WorkerDoneKept ==
  ASSUME TreeInv, WorkerDone
  PROVE  TreeInv'
<1>1. PICK w, mod : w = worker /\ mod = Merged(model, Parsed(w))
  OBVIOUS
<1>2. PICK m : m = Loaded(mod, w.at)
  OBVIOUS
<1>3. PICK load, open, subs :
        /\ load = Loads(m, w.then) /\ open = Opens(m, w.then, TRUE)
        /\ subs = Subfolders(w.at)
  OBVIOUS
<1>4. PICK all, end : all = load \cup Unloaded(m, open)
                      /\ end = After(m, load, open)
  OBVIOUS
<1>5. /\ w # None /\ LoadEnds(m, w.then, TRUE, traffic)
      /\ timers' = timers \cup Waiting(m, open)
                          \cup {e \in {w.at} : Redrawn(mod, e)}
      /\ TakeNext(end)
      /\ UNCHANGED <<stored, lost>>
  BY <1>1, <1>2, <1>3, <1>4 DEF WorkerDone, Ended
<1>6. /\ w.at \in Places /\ w.then \in Then /\ IsModel(mod) /\ Kin(mod)
      /\ Known(mod) = Known(w.given) \cup subs
      /\ \A n \in Known(mod) :
           /\ mod[n].loading /\ ~(n \in Known(model) /\ model[n].loading) =>
                n \notin subs /\ w.given[n].loading
           /\ n \in subs => mod[n].kids = {} /\ (mod[n].loaded => n \in w.bare)
           /\ n = w.at => mod[n].kids \cap Items = w.items
           /\ n \notin subs /\ n # w.at =>
                /\ mod[n].kids = w.given[n].kids
                /\ mod[n].loaded = w.given[n].loaded
  <2>1. /\ w.at \in Places /\ w.then \in Then /\ IsModel(mod) /\ Kin(mod)
        /\ Known(mod) = Known(w.given) \cup Subfolders(w.at)
        /\ \A n \in Known(mod) :
             /\ mod[n].loading /\ ~(n \in Known(model) /\ model[n].loading) =>
                  n \notin Subfolders(w.at) /\ w.given[n].loading
             /\ n \in Subfolders(w.at) =>
                  mod[n].kids = {} /\ (mod[n].loaded => n \in w.bare)
             /\ n = w.at => mod[n].kids \cap Items = w.items
             /\ n \notin Subfolders(w.at) /\ n # w.at =>
                  /\ mod[n].kids = w.given[n].kids
                  /\ mod[n].loaded = w.given[n].loaded
    BY <1>1, <1>5, MergedModel
  <2> QED
    BY <1>3, <2>1
<1>7. /\ IsModel(m) /\ Kin(m) /\ Known(m) = Known(mod)
      /\ \A n \in Known(mod) :
           /\ m[n].kids = mod[n].kids
           /\ n # w.at => m[n] = mod[n]
           /\ n = w.at => ~m[n].loading
  BY <1>2, <1>6, LoadedModel
<1>8. load \in SUBSET Known(m) /\ open \subseteq Folders
      /\ Waiting(m, open) \subseteq Folders
  BY <1>3, <1>6, EndsWhat
<1>9. /\ IsModel(end) /\ Kin(end) /\ Known(end) \subseteq Known(m)
      /\ \A n \in Known(end) :
           IF n \in all THEN end[n].loading
           ELSE /\ end[n].loading = m[n].loading
                /\ end[n].loaded = m[n].loaded
                /\ end[n].kids = m[n].kids
  <2>1. LoadsOnly(After(m, load, open), m, load \cup Unloaded(m, open))
    BY <1>7, <1>8, AfterModel
  <2> QED
    BY <1>4, <2>1 DEF LoadsOnly
<1>10. PICK posts, rest \in SUBSET traffic : posts = {} /\ rest = traffic
  OBVIOUS
<1>11. Calls(m, load, w.then, open, rest, posts) /\ \A r \in posts : r.kind \in Posts
  BY <1>3, <1>5, <1>10 DEF LoadEnds
<1>12. /\ met \subseteq met' /\ traffic \subseteq traffic'
       /\ \A r \in traffic' : r \in traffic
            \/ (r.kind = "list" /\ r.items = {} /\ r.at \in all)
       /\ \A e \in all : Busy(e)'
       /\ \A n \in all : \A e \in Subfolders(n) : Posting(e) => e \in met'
  <2>1. /\ met \subseteq met'
        /\ rest \subseteq traffic' /\ posts \subseteq traffic'
        /\ \A r \in traffic' : r \in rest \/ r \in posts
             \/ /\ r.kind = "list" /\ r.items = {}
                /\ r.at \in load \cup Unloaded(m, open)
        /\ \A e \in load \cup Unloaded(m, open) : Busy(e)'
        /\ \A n \in load \cup Unloaded(m, open) :
             \A e \in Subfolders(n) : Posting(e) => e \in met'
    BY <1>11, CallsSend
  <2> QED
    BY <1>4, <1>10, <2>1
<1>13. queue \in Seq(Message) /\ Len(queue) \in Nat
  BY DEF TreeInv, TreeTypeOK
<1>14. /\ model' = end \/ \E h \in Listings : model' = Emptied(end, h.at)
       /\ worker' = None => queue = <<>> /\ queue' = <<>> /\ model' = end
       /\ worker' # None =>
            \E h \in Listings :
              /\ h \in Message /\ model' = Emptied(end, h.at)
              /\ worker' = Work(model', h)
              /\ queue' \in Seq(Message)
              /\ \A i \in 1 .. Len(queue') : \E j \in 1 .. Len(queue) :
                   queue'[i] = queue[j]
              /\ \A j \in 1 .. Len(queue) :
                   queue[j] = h \/ \E i \in 1 .. Len(queue') : queue'[i] = queue[j]
  <2>1. CASE queue = <<>>
    <3>1. worker' = None /\ queue' = queue /\ model' = end
      BY <1>5, <2>1 DEF TakeNext, Rests
    <3> QED
      BY <2>1, <3>1
  <2>2. CASE queue # <<>>
    <3>1. PICK h : h = Head(queue)
      OBVIOUS
    <3>2. /\ model' = Emptied(end, h.at) /\ worker' = Work(model', h)
          /\ queue' = Tail(queue)
      BY <1>5, <2>2, <3>1 DEF TakeNext
    <3>3. /\ Len(queue) > 0 /\ h = queue[1] /\ h \in Message
          /\ queue' \in Seq(Message) /\ Len(queue') = Len(queue) - 1
          /\ \A i \in 1 .. Len(queue') : queue'[i] = queue[i + 1]
      BY <1>13, <2>2, <3>1, <3>2, HeadTailProperties
    <3>4. h \in Listings
      BY <1>13, <3>3 DEF Listings
    <3>5. ASSUME NEW i \in 1 .. Len(queue')
          PROVE  \E j \in 1 .. Len(queue) : queue'[i] = queue[j]
      <4>1. i + 1 \in 1 .. Len(queue)
        BY <1>13, <3>3
      <4> QED
        BY <3>3, <4>1
    <3>6. ASSUME NEW j \in 1 .. Len(queue), j # 1
          PROVE  \E i \in 1 .. Len(queue') : queue'[i] = queue[j]
      <4>1. j - 1 \in 1 .. Len(queue') /\ (j - 1) + 1 = j
        BY <1>13, <3>3, <3>6
      <4> QED
        BY <3>3, <4>1
    <3>7. worker' # None
      <4>1. IsModel(model')
        BY <1>9, <3>2, EmptiedModel
      <4> QED
        BY <3>2, <3>3, <4>1, WorkIsJob
    <3> QED
      BY <3>2, <3>3, <3>4, <3>5, <3>6, <3>7
  <2> QED
    BY <2>1, <2>2
<1>15. /\ IsModel(model') /\ Kin(model') /\ Known(model') = Known(end)
       /\ worker' = None => model' = end
       /\ worker' # None =>
            \E h \in Listings :
              /\ h \in Message
              /\ \A n \in Known(end) : n # h.at => model'[n] = end[n]
              /\ worker'.at = h.at /\ worker'.items = h.items
              /\ worker'.bare = h.bare /\ worker'.given = model'
              /\ worker' \in Jobs(Known(model'))
              /\ \A j \in 1 .. Len(queue) :
                   queue[j] = h \/ \E i \in 1 .. Len(queue') : queue'[i] = queue[j]
  <2>1. CASE worker' = None
    BY <1>9, <1>14, <2>1
  <2>2. CASE worker' # None
    <3>1. PICK h \in Listings :
              /\ h \in Message /\ model' = Emptied(end, h.at)
              /\ worker' = Work(model', h)
              /\ \A j \in 1 .. Len(queue) :
                   queue[j] = h \/ \E i \in 1 .. Len(queue') : queue'[i] = queue[j]
      BY <1>14, <2>2
    <3>2. /\ IsModel(model') /\ Kin(model') /\ Known(model') = Known(end)
          /\ \A n \in Known(end) : n # h.at => model'[n] = end[n]
      BY <1>9, <3>1, EmptiedModel
    <3>3. /\ worker'.at = h.at /\ worker'.items = h.items
          /\ worker'.bare = h.bare /\ worker'.given = model'
          /\ worker' \in Jobs(Known(model'))
      BY <3>1, <3>2, WorkIsJob
    <3> QED
      BY <2>2, <3>1, <3>2, <3>3
  <2> QED
    BY <2>1, <2>2
<1>16. queue' \in Seq(Message)
       /\ \A i \in 1 .. Len(queue') : queue'[i] \in Listings
  <2>1. CASE worker' = None
    BY <1>13, <1>14, <2>1
  <2>2. CASE worker' # None
    BY <1>14, <2>2 DEF Listings
  <2> QED
    BY <2>1, <2>2
<1>17. Listings' \subseteq Listings
  BY <1>12, <1>16 DEF Listings
<1>18. \A e : Answered(e)' => Answered(e)
  BY <1>15, <1>17 DEF Answered
<1>19. \A e : Busy(e)' => Busy(e) \/ e \in all
  <2> SUFFICES ASSUME NEW e, Busy(e)', e \notin all PROVE Busy(e)
    OBVIOUS
  <2>1. CASE \E r \in traffic' : r.at = e /\ r.kind \notin Posts
    BY <1>12, <2>1 DEF Busy
  <2>2. CASE Answered(e)'
    BY <1>18, <2>2, AnsweredIsBusy
  <2>3. CASE \E i \in 1 .. Len(queue') : queue'[i].at = e
    BY <1>16, <2>3, AnsweredIsBusy DEF Answered
  <2>4. CASE worker' # None /\ worker'.at = e
    BY <2>2, <2>4 DEF Answered
  <2> QED
    BY <2>1, <2>3, <2>4 DEF Busy
<1>20. \A e : Busy(e) => Busy(e)' \/ e = w.at
  <2> SUFFICES ASSUME NEW e, Busy(e), e # w.at PROVE Busy(e)'
    OBVIOUS
  <2>1. CASE \E r \in traffic : r.at = e /\ r.kind \notin Posts
    BY <1>12, <2>1 DEF Busy
  <2>2. CASE \E j \in 1 .. Len(queue) : queue[j].at = e
    <3>1. PICK j \in 1 .. Len(queue) : queue[j].at = e
      BY <2>2
    <3>2. worker' # None
      BY <1>14, <3>1
    <3>3. (worker'.at = e) \/ \E i \in 1 .. Len(queue') : queue'[i].at = e
      BY <1>15, <3>1, <3>2
    <3> QED
      BY <3>2, <3>3 DEF Busy
  <2> QED
    BY <1>1, <2>1, <2>2 DEF Busy
<1>21. /\ \A e : Posting(e)' => Posting(e)
       /\ \A e : Content(e)' = Content(e)
  BY <1>5, <1>12 DEF Posting, Content, Posts
<1>22. TreeTypeOK'
  <2>1. /\ traffic' \subseteq Message /\ batch' \in Nat /\ met' \subseteq Places
        /\ done' \subseteq Nat
    BY <1>5, <1>6, <1>7, <1>10, LoadEndsTyped
  <2>2. timers' \subseteq Places
    BY <1>5, <1>6, <1>8 DEF TreeInv, TreeTypeOK, Places
  <2> QED
    BY <1>5, <1>15, <1>16, <2>1, <2>2 DEF TreeInv, TreeTypeOK, IsModel
<1>23. KinOK'
  <2>1. \A r \in traffic' \cup Listings' : \A x \in r.items : In[x] = r.at
    BY <1>12, <1>17 DEF TreeInv, KinOK
  <2> QED
    BY <1>15, <2>1 DEF KinOK
<1>24. WorkOK'
  <2>1. \A r \in Listings : \A x \in r.items : In[x] = r.at
    BY DEF TreeInv, KinOK
  <2> QED
    BY <1>15, <2>1 DEF WorkOK
<1>25. QueueOK'
  BY <1>14 DEF QueueOK
<1>26. PostAlone'
  <2>1. ASSUME NEW e \in Places \ met', Posting(e)', e # Root, Busy(In[e])'
        PROVE  Busy(In[e])
    <3>1. e \in Subfolders(In[e])
      BY <2>1 DEF Subfolders, Places
    <3>2. In[e] \notin all
      BY <1>12, <1>21, <2>1, <3>1
    <3> QED
      BY <1>19, <2>1, <3>2
  <2>2. \A e \in Places \ met' : Posting(e)' =>
          /\ e \notin met /\ Posting(e)
          /\ Answered(e)' => Answered(e)
          /\ e # Root /\ Busy(In[e])' => Busy(In[e])
    BY <1>12, <1>18, <1>21, <2>1
  <2> QED
    BY <2>2, PostAloneKept DEF TreeInv
<1>27. AnswersTell'
  <2>1. \A h \in Listings : Tells(h)'
    BY <1>12, <1>21 DEF TreeInv, AnswersTell, Tells
  <2>2. worker' # None => Tells(worker)'
    BY <1>15, <2>1 DEF Tells
  <2> QED
    BY <1>17, <2>1, <2>2 DEF AnswersTell
<1>28. ASSUME NEW n \in Known(m) \ (met' \cup lost'), n \notin all, ~Busy(n)'
       PROVE  /\ ~m[n].loading
              /\ m[n].loaded => ~Posting(n) /\ m[n].kids \cap Items = Content(n)
  <2>1. /\ n \in Known(mod) /\ n \notin met /\ n \notin lost /\ n \in Places
        /\ Tells(w) /\ Answered(w.at)
    BY <1>1, <1>5, <1>6, <1>7, <1>12, <1>28
    DEF TreeInv, AnswersTell, Answered, IsModel
  <2>2. CASE n = w.at
    <3>1. ~Posting(n)
      BY <2>1, <2>2 DEF TreeInv, PostAlone
    <3>2. m[n].kids \cap Items = Content(n)
      BY <1>6, <1>7, <2>1, <2>2 DEF Tells
    <3> QED
      BY <1>7, <2>1, <2>2, <3>1, <3>2
  <2>3. CASE n # w.at
    <3>1. ~Busy(n) /\ m[n] = mod[n]
      BY <1>7, <1>20, <1>28, <2>1, <2>3
    <3>2. ~(n \in Known(model) /\ model[n].loading)
      BY <2>1, <3>1 DEF TreeInv, ModelsFollow, Follows
    <3>3. CASE n \in subs
      <4>1. n \in Folders /\ In[n] = w.at /\ n # Root
        BY <1>3, <3>3, FileTreeAssumption DEF Subfolders
      <4>2. ~Posting(n)
        BY <2>1, <4>1, AnsweredIsBusy DEF TreeInv, PostAlone
      <4>3. n \in w.bare => Content(n) = {}
        BY <1>3, <2>1, <3>3 DEF Tells
      <4> QED
        BY <1>6, <2>1, <3>1, <3>2, <3>3, <4>2, <4>3
    <3>4. CASE n \notin subs
      <4>1. n \in Known(w.given) \ (met \cup lost)
        BY <1>6, <2>1, <3>4
      <4>2. /\ ~w.given[n].loading
            /\ w.given[n].loaded =>
                 ~Posting(n) /\ w.given[n].kids \cap Items = Content(n)
        BY <1>1, <1>5, <3>1, <4>1 DEF TreeInv, ModelsFollow, Follows
      <4> QED
        BY <1>6, <2>1, <2>3, <3>1, <3>2, <3>4, <4>2
    <3> QED
      BY <3>3, <3>4
  <2> QED
    BY <2>2, <2>3
<1>29. Follows(model)'
  <2> SUFFICES ASSUME NEW n \in Known(model') \ (met' \cup lost'), ~Busy(n)'
               PROVE  /\ ~model'[n].loading
                      /\ model'[n].loaded =>
                           ~Posting(n)' /\ model'[n].kids \cap Items = Content(n)'
    BY DEF Follows
  <2>1. n \in Known(m) /\ n \in Known(end) /\ n \notin all
    BY <1>9, <1>12, <1>15
  <2>2. model'[n] = end[n]
    <3>1. CASE worker' = None
      BY <1>15, <3>1
    <3>2. CASE worker' # None
      <4>1. n # worker'.at
        BY <3>2 DEF Busy
      <4> QED
        BY <1>15, <2>1, <3>2, <4>1
    <3> QED
      BY <3>1, <3>2
  <2>3. /\ model'[n].loading = m[n].loading
        /\ model'[n].loaded = m[n].loaded
        /\ model'[n].kids = m[n].kids
    BY <1>9, <2>1, <2>2
  <2>4. /\ ~m[n].loading
        /\ m[n].loaded => ~Posting(n) /\ m[n].kids \cap Items = Content(n)
    BY <1>28, <2>1
  <2> QED
    BY <1>21, <2>3, <2>4
<1>30. worker' # None => Follows(worker.given)'
  <2> SUFFICES ASSUME worker' # None PROVE Follows(worker.given)'
    OBVIOUS
  <2>1. worker'.given = model'
    BY <1>15
  <2> QED
    BY <1>29, <2>1 DEF Follows
<1> QED
  BY <1>22, <1>23, <1>24, <1>25, <1>26, <1>27, <1>29, <1>30
  DEF TreeInv, ModelsFollow

-----------------------------------------------------------------------------
(* The tree starts with its root, which the first request loads.           *)
LEMMA TreeInitInv == TreeInit => TreeInv
<1> SUFFICES ASSUME TreeInit PROVE TreeInv
  OBVIOUS
<1>1. PICK ask, node : ask = List(Root, 0, NoThen)
                       /\ node = [Fresh(FALSE) EXCEPT !.loading = TRUE]
  OBVIOUS
<1>2. /\ model = [d \in {Root} |-> node]
      /\ worker = None /\ queue = <<>> /\ timers = {} /\ traffic = {ask}
      /\ stored \in SUBSET Items
      /\ batch = 0 /\ done = {} /\ met = {} /\ lost = {}
  BY <1>1 DEF TreeInit
<1>3. /\ node \in Node /\ node.kids = {}
  BY <1>1 DEF Fresh, Node
<1>4. /\ ask \in Message /\ ask.kind = "list" /\ ask.at = Root /\ ask.items = {}
      /\ ask.kind \notin Posts
  BY <1>1 DEF List, Message, NoThen, Then, Places, Posts
<1>5. /\ Known(model) = {Root} /\ model[Root] = node
      /\ model \in [Known(model) -> Node]
  BY <1>2, <1>3 DEF Known
<1>6. Len(queue) = 0 /\ queue \in Seq(Message)
  BY <1>2
<1>7. TreeTypeOK
  BY <1>2, <1>4, <1>5, <1>6 DEF TreeTypeOK, Places
<1>8. Listings = {}
  BY <1>2, <1>4, <1>6 DEF Listings
<1>9. Busy(Root) /\ \A d : ~Posting(d)
  BY <1>2, <1>4 DEF Busy, Posting
<1>10. WorkOK /\ QueueOK /\ PostAlone /\ AnswersTell
  BY <1>2, <1>8, <1>9 DEF WorkOK, QueueOK, PostAlone, AnswersTell
<1>11. KinOK
  BY <1>2, <1>3, <1>4, <1>5, <1>8 DEF KinOK, Kin
<1>12. ModelsFollow
  BY <1>2, <1>5, <1>9 DEF ModelsFollow, Follows
<1> QED
  BY <1>7, <1>10, <1>11, <1>12 DEF TreeInv

(* Each step keeps the invariant, each action by a lemma of its own.       *)
LEMMA TreeNextInv == TreeInv /\ [TreeNext]_treeVars => TreeInv'
<1> SUFFICES ASSUME TreeInv, [TreeNext]_treeVars PROVE TreeInv'
  OBVIOUS
<1>1. timers \subseteq Places
  BY DEF TreeInv, TreeTypeOK
<1>2. ASSUME NEW d \in Folders, Expand(d) PROVE TreeInv'
  <2>1. OpenNode(d, timers) /\ timers \in SUBSET Places
    BY <1>1, <1>2 DEF Expand
  <2>2. PICK pending \in SUBSET Places : pending = timers
    BY <2>1
  <2> QED
    BY <2>1, <2>2, OpenKept
<1>3. ASSUME NEW d \in Folders, Collapse(d) PROVE TreeInv'
  BY <1>3, CollapseKept
<1>4. ASSUME NEW d \in Folders, Timer(d) PROVE TreeInv'
  <2>1. PICK pending \in SUBSET Places : pending = timers \ {d}
    BY <1>1
  <2> QED
    BY <1>4, <2>1, OpenKept DEF Timer
<1>5. ASSUME NEW x \in Items, CreateItem(x) PROVE TreeInv'
  <2>1. PICK kind \in Posts : kind = "create"
    BY DEF Posts
  <2> QED
    BY <1>5, <2>1, PostKept DEF CreateItem
<1>6. ASSUME NEW x \in Items, RemoveItem(x) PROVE TreeInv'
  <2>1. PICK kind \in Posts : kind = "delete"
    BY DEF Posts
  <2> QED
    BY <1>6, <2>1, PostKept DEF RemoveItem
<1>7. ASSUME NEW r \in traffic, HandlePost(r) \/ HandleList(r) \/ Arrive(r)
                                \/ FailPost(r) \/ FailList(r)
      PROVE  TreeInv'
  BY <1>7, HandlePostKept, HandleListKept, ArriveKept, FailPostKept, FailListKept
<1>8. CASE UNCHANGED treeVars
  <2>1. UNCHANGED <<model, worker, queue, timers, traffic, stored, batch, done,
                    met, lost>>
    BY <1>8 DEF treeVars
  <2>2. /\ Listings' = Listings /\ \A e : Busy(e)' <=> Busy(e)
    BY <2>1 DEF Listings, Busy
  <2>3. /\ \A e : Answered(e)' <=> Answered(e)
        /\ \A e : Posting(e)' <=> Posting(e)
        /\ \A e : Content(e)' = Content(e)
    BY <2>1, <2>2 DEF Answered, Posting, Content
  <2>4. TreeTypeOK'
    BY <2>1 DEF TreeInv, TreeTypeOK
  <2>5. WorkOK' /\ QueueOK' /\ KinOK' /\ PostAlone'
    BY <2>1, <2>2, <2>3 DEF TreeInv, WorkOK, QueueOK, KinOK, PostAlone
  <2>6. AnswersTell'
    BY <2>1, <2>2, <2>3 DEF TreeInv, AnswersTell, Tells
  <2>7. ModelsFollow'
    BY <2>1, <2>2, <2>3 DEF TreeInv, ModelsFollow, Follows
  <2> QED
    BY <2>4, <2>5, <2>6, <2>7 DEF TreeInv
<1> QED
  BY <1>2, <1>3, <1>4, <1>5, <1>6, <1>7, <1>8, WorkerDoneKept
  DEF TreeNext, User, Answers

(* When nothing is under way, a folder that jstree shows as loaded has the *)
(* items that the server has, unless requests for it met others or failed, *)
(* or its answer came to nothing: with no request, worker or queue no      *)
(* folder is busy, and Follows says the rest.                              *)
THEOREM TreeFollows == TreeSpec => []TreeFollowsServer
<1>1. TreeInv => TreeFollowsServer
  <2> SUFFICES ASSUME TreeInv, traffic = {}, worker = None,
                      NEW d \in Known(model) \ (met \cup lost), model[d].loaded
               PROVE  model[d].kids \cap Items = Content(d)
    BY DEF TreeFollowsServer
  <2>1. queue = <<>>
    BY DEF TreeInv, QueueOK
  <2>2. ~Busy(d)
    BY <2>1 DEF Busy
  <2> QED
    BY <2>2 DEF TreeInv, ModelsFollow, Follows
<1> QED
  BY <1>1, TreeInitInv, TreeNextInv, PTL DEF TreeSpec
=============================================================================
