-------------------------------- MODULE Ide --------------------------------
(***************************************************************************)
(* The editors of the IDE: ide.js in the browser, ide.xqm on the server.   *)
(* The script runs one handler at a time; what it sends is under way with  *)
(* everything else it sent, and the server may handle requests in any      *)
(* order, lose them, and answer in any order.  No handler of a POST looks  *)
(* at the answer.                                                          *)
(*                                                                         *)
(* A text is the number of the edit that made it, 0 for the empty text and *)
(* 1 for what a file holds when the page is opened.                        *)
(* The tree of files and the runs of queries are in modules of their own.  *)
(***************************************************************************)
EXTENDS Integers, Sequences, FiniteSets

CONSTANTS
  Paths,
  NoFile,        \* what the server has at a path without a file
  NoDialog,      \* the confirm dialog is not shown
  MaxEdits,      \* bound on the number of edits
  MaxRequests,   \* bound on the number of requests
  MaxTabs        \* bound on the number of tabs ever opened

ASSUME IdeAssumption ==
  /\ MaxEdits \in Nat /\ MaxRequests \in Nat /\ MaxTabs \in Nat
  /\ NoFile \notin Int /\ NoDialog \notin Int

VARIABLES
  tabs,      \* the tabs from left to right
  active,    \* the id of the active tab, 0 if there is none
  dialog,    \* the id of the tab the confirm dialog was opened for
  tabCounter,
  edits,
  sent,      \* the number of requests so far
  flight,    \* requests and answers under way
  file,      \* the text at each path on the server
  wish,      \* history: the text that was last saved at a path
  upset,     \* history: paths where a request failed or came out of order
  doubled,   \* history: paths that were asked for once more than for one tab
  early      \* history: paths opened while they were being written

vars == <<tabs, active, dialog, tabCounter, edits, sent, flight, file, wish,
          upset, doubled, early>>

(* blank is history: the tab was made empty for a file with a text, and    *)
(* was not saved since.                                                    *)
Tab == [id : Nat, path : Paths, text : Nat, modified : BOOLEAN,
        blank : BOOLEAN]
TabIds == {tabs[i].id : i \in 1 .. Len(tabs)}
Place(id) == CHOOSE i \in 1 .. Len(tabs) : tabs[i].id = id
ActiveTab == tabs[Place(active)]
TabsOf(p) == {i \in 1 .. Len(tabs) : tabs[i].path = p}

(* Requests in flight carry the number of their sending.                   *)
Request(n, kind, path, text) ==
  [n |-> n, kind |-> kind, path |-> path, text |-> text]
Writes == {"save", "create", "delete"}
Opening(p) == \E r \in flight : r.kind \notin Writes /\ r.path = p
Writing(p) == \E r \in flight : r.kind \in Writes /\ r.path = p

Send(kind, path, text) ==
  /\ sent < MaxRequests
  /\ sent' = sent + 1
  /\ flight' = flight \cup {Request(sent + 1, kind, path, text)}

(* History is only ever added to.                                          *)
Noted(paths, p, when) == IF when THEN paths \cup {p} ELSE paths

(* A modal dialog takes all input of the user.                             *)
UserActs == dialog = NoDialog

-----------------------------------------------------------------------------
(* createTextEditor: the new tab is the last one, and is clicked.          *)
NewTab(path, text, blank) ==
  /\ tabCounter < MaxTabs
  /\ tabCounter' = tabCounter + 1
  /\ tabs' = Append(tabs, [id |-> tabCounter + 1, path |-> path, text |-> text,
                           modified |-> FALSE, blank |-> blank])
  /\ active' = tabCounter + 1

(* closeTab and the refresh of the tabs widget: if the active tab is gone, *)
(* the one before it, or else the first, becomes active.                   *)
Closed(i) == SubSeq(tabs, 1, i - 1) \o SubSeq(tabs, i + 1, Len(tabs))

CloseTab(i) ==
  LET rest == Closed(i) IN
  /\ tabs' = rest
  /\ active' = IF tabs[i].id # active THEN active
               ELSE IF rest = <<>> THEN 0
               ELSE rest[IF i = 1 THEN 1 ELSE i - 1].id

ClickTab ==
  /\ UserActs
  /\ active' \in TabIds \ {active}
  /\ UNCHANGED <<tabs, dialog, tabCounter, edits, sent, flight, file, wish,
                 upset, doubled, early>>

(* The change handler of an editor marks the active tab.                   *)
EditIn(marked) ==
  /\ UserActs /\ active # 0
  /\ edits < MaxEdits
  /\ edits' = edits + 1
  /\ tabs' = [[tabs EXCEPT ![Place(active)].text = edits + 1]
                    EXCEPT ![marked].modified = TRUE]
  /\ UNCHANGED <<active, dialog, tabCounter, sent, flight, file, wish, upset,
                 doubled, early>>

Edit_marksLast == EditIn(Len(tabs))  \* Slip: #tabs a:last, as in createTextEditor

Edit == EditIn(Place(active))

(* The save button sends the text and takes the mark away at once.         *)
SaveText(text) ==
  /\ UserActs /\ active # 0
  /\ Send("save", ActiveTab.path, text)
  /\ wish' = [wish EXCEPT ![ActiveTab.path] = ActiveTab.text]
  /\ tabs' = [tabs EXCEPT ![Place(active)] =
                 [@ EXCEPT !.modified = FALSE, !.blank = FALSE]]
  /\ UNCHANGED <<active, dialog, tabCounter, edits, file, upset, doubled, early>>

Save == SaveText(ActiveTab.text)

CloseIcon(i) ==
  /\ UserActs
  /\ IF tabs[i].modified
     THEN dialog' = tabs[i].id /\ UNCHANGED <<tabs, active>>
     ELSE CloseTab(i) /\ UNCHANGED dialog
  /\ UNCHANGED <<tabCounter, edits, sent, flight, file, wish, upset, doubled,
                 early>>

(* Alt-Backspace removes the active tab and asks nothing.                  *)
CloseByKey ==
  /\ UserActs /\ active # 0
  /\ CloseTab(Place(active))
  /\ UNCHANGED <<dialog, tabCounter, edits, sent, flight, file, wish, upset,
                 doubled, early>>

(* The buttons of the confirm dialog.  Its path and its editor are those   *)
(* of the tab whose icon was clicked, whatever was opened meanwhile.       *)
DialogSaves(i) ==
  LET tab == tabs[Place(dialog)] IN
  /\ dialog # NoDialog
  /\ Send("save", tab.path, tabs[i].text)
  /\ wish' = [wish EXCEPT ![tab.path] = tab.text]
  /\ CloseTab(Place(dialog))
  /\ dialog' = NoDialog
  /\ UNCHANGED <<tabCounter, edits, file, upset, doubled, early>>

DialogSave_ofActive == DialogSaves(Place(active))  \* Slip: the active editor

DialogSave == DialogSaves(Place(dialog))

DialogDrop ==
  /\ dialog # NoDialog
  /\ CloseTab(Place(dialog))
  /\ dialog' = NoDialog
  /\ UNCHANGED <<tabCounter, edits, sent, flight, file, wish, upset, doubled,
                 early>>

DialogCancel ==
  /\ dialog # NoDialog
  /\ dialog' = NoDialog
  /\ UNCHANGED <<tabs, active, tabCounter, edits, sent, flight, file, wish,
                 upset, doubled, early>>

-----------------------------------------------------------------------------
(* The context menu.  Open looks for a tab of the path and clicks every    *)
(* one it finds; else it asks for the text.                                *)
LastOf(p) == tabs[CHOOSE i \in TabsOf(p) : \A j \in TabsOf(p) : j <= i].id

AskForText(p) ==
  /\ Send("open", p, 0)
  /\ doubled' = Noted(doubled, p, Opening(p))
  /\ early' = Noted(early, p, Writing(p))
  /\ UNCHANGED active

OpenItem_again(p) ==  \* Slip: a tab of the path is not looked for
  /\ UserActs
  /\ AskForText(p)
  /\ UNCHANGED <<tabs, dialog, tabCounter, edits, file, wish, upset>>

OpenItem(p) ==
  /\ UserActs
  /\ IF TabsOf(p) # {}
     THEN active' = LastOf(p) /\ UNCHANGED <<sent, flight, doubled, early>>
     ELSE AskForText(p)
  /\ UNCHANGED <<tabs, dialog, tabCounter, edits, file, wish, upset>>

(* Create of the new file dialog: the tab is there before the file, it is  *)
(* empty, and nobody looks whether there is a file of that name, which     *)
(* createfile leaves as it is.                                             *)
NewFile(p) ==
  /\ UserActs
  /\ Send("create", p, 0)
  /\ NewTab(p, 0, wish[p] \notin {0, NoFile})
  /\ doubled' = Noted(doubled, p, Opening(p) \/ TabsOf(p) # {})
  /\ wish' = IF wish[p] = NoFile THEN [wish EXCEPT ![p] = 0] ELSE wish
  /\ UNCHANGED <<dialog, edits, file, upset, early>>

DeleteItem(p) ==
  /\ UserActs
  /\ Send("delete", p, 0)
  /\ wish' = [wish EXCEPT ![p] = NoFile]
  /\ UNCHANGED <<tabs, active, dialog, tabCounter, edits, file, upset, doubled,
                 early>>

-----------------------------------------------------------------------------
(* The functions of ide.xqm.                                               *)
Stored(r) ==
  CASE r.kind = "save" -> r.text
    [] r.kind = "create" -> IF file[r.path] = NoFile THEN 0 ELSE file[r.path]
    [] r.kind = "delete" -> NoFile

Late(r) ==
  \E q \in flight : q.kind \in Writes /\ q.path = r.path /\ q.n < r.n

Handle(r) ==
  /\ r.kind \in Writes
  /\ file' = [file EXCEPT ![r.path] = Stored(r)]
  /\ flight' = flight \ {r}
  /\ upset' = IF Late(r) THEN upset \cup {r.path} ELSE upset
  /\ UNCHANGED <<tabs, active, dialog, tabCounter, edits, sent, wish, doubled,
                 early>>

ReadText(r) ==
  /\ r.kind = "open" /\ file[r.path] # NoFile
  /\ flight' = (flight \ {r})
                 \cup {[r EXCEPT !.kind = "opened", !.text = file[r.path]]}
  /\ UNCHANGED <<tabs, active, dialog, tabCounter, edits, sent, file, wish,
                 upset, doubled, early>>

(* A request is lost, or the server fails: nothing happens in the browser. *)
Fail(r) ==
  /\ flight' = flight \ {r}
  /\ upset' = upset \cup {r.path}
  /\ UNCHANGED <<tabs, active, dialog, tabCounter, edits, sent, file, wish,
                 doubled, early>>

(* The text has arrived: the tab is made whatever has been opened since,   *)
(* and whatever has been stored since.                                     *)
OpenDone(r) ==
  /\ r.kind = "opened"
  /\ NewTab(r.path, r.text, FALSE)
  /\ flight' = flight \ {r}
  /\ UNCHANGED <<dialog, edits, sent, file, wish, upset, doubled, early>>

-----------------------------------------------------------------------------
Init ==
  /\ tabs = <<>> /\ active = 0 /\ dialog = NoDialog /\ tabCounter = 0
  /\ edits = 1 /\ sent = 0 /\ flight = {}
  /\ file \in [Paths -> {0, 1, NoFile}] /\ wish = file
  /\ upset = {} /\ doubled = {} /\ early = {}

Network == \E r \in flight : Handle(r) \/ ReadText(r) \/ Fail(r) \/ OpenDone(r)

Next ==
  \/ ClickTab \/ Edit \/ Save \/ CloseByKey
  \/ DialogSave \/ DialogDrop \/ DialogCancel
  \/ \E i \in 1 .. Len(tabs) : CloseIcon(i)
  \/ \E p \in Paths : OpenItem(p) \/ NewFile(p) \/ DeleteItem(p)
  \/ Network

Spec == Init /\ [][Next]_vars

-----------------------------------------------------------------------------
TypeOK ==
  /\ tabs \in Seq(Tab)
  /\ active \in TabIds \cup {0}
  /\ dialog \in TabIds \cup {NoDialog}
  /\ flight \subseteq [n : 1 .. sent, path : Paths, text : 0 .. edits,
                      kind : Writes \cup {"open", "opened"}]
  /\ file \in [Paths -> 0 .. edits \cup {NoFile}]
  /\ wish \in [Paths -> 0 .. edits \cup {NoFile}]
  /\ upset \cup doubled \cup early \subseteq Paths

(* What the user saved, created or deleted last is what the server has,    *)
(* once it has dealt with the requests of that path: from whichever tab or *)
(* dialog they came, and unless a request failed or the server took one    *)
(* before another that was sent earlier.                                   *)
SavedIsStored ==
  \A p \in Paths \ upset : ~Writing(p) => file[p] = wish[p]

(* A tab without the mark of changes shows what is stored, unless the user *)
(* deleted the file, so nothing is lost when it is closed without asking   *)
(* or when beforeunload lets the page go. There are four exceptions, which *)
(* are faults of the page. A request for the path failed or came late,     *)
(* which no handler notices. The path was opened while a write of it was   *)
(* under way, and the older text came. A second tab was asked for, see     *)
(* below, and the other one was saved. And the tab was made by the new     *)
(* file dialog for a file that has a text already: createfile leaves it    *)
(* alone, the tab shows nothing instead of it and has no mark, and saving  *)
(* the tab replaces the text by what was typed into the empty tab.         *)
UnmarkedIsStored ==
  \A i \in 1 .. Len(tabs) :
    LET p == tabs[i].path IN
    /\ ~tabs[i].modified /\ ~tabs[i].blank
    /\ ~Writing(p) /\ p \notin upset \cup doubled \cup early
    => file[p] \in {tabs[i].text, NoFile}

(* A file has one tab, whatever is saved, deleted, closed or answered      *)
(* late, unless the user asked for a second one in a way that no handler   *)
(* looks for: the file was opened or created while its text was on its way *)
(* to a tab, or it was created while a tab showed it.                      *)
OneTabPerPath ==
  \A p \in Paths \ doubled : Cardinality(TabsOf(p)) < 2
=============================================================================
