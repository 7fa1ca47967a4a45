--------------------------- MODULE SnapshotLeases ---------------------------
(***************************************************************************)
(* What a session promises to the thread that has it: a view of the index  *)
(* that nobody else changes, lent to one thread at a time.  A view is the  *)
(* number of writes it shows.  A session that is lent shows at least what  *)
(* every finished commit(true) was asked to show; the thread's own         *)
(* commit(true) shows at least what was written when it was called.        *)
(***************************************************************************)
EXTENDS Integers

CONSTANTS Threads, Sessions, None

VARIABLES
  written,   \* the number of writes
  promised,  \* the writes that a finished commit(true) was asked to show
  holder,    \* the thread that has a session
  view,      \* the writes a session shows, -1 for a session nobody has
  asked      \* the writes a thread's commit(true) was asked to show

vars == <<written, promised, holder, view, asked>>

Init ==
  /\ written = 0 /\ promised = 0
  /\ holder = [s \in Sessions |-> None]
  /\ view = [s \in Sessions |-> -1]
  /\ asked = [t \in Threads |-> 0]

Write ==
  /\ written' = written + 1
  /\ UNCHANGED <<promised, holder, view, asked>>

Lend(t, s) ==
  /\ \A r \in Sessions : holder[r] # t
  /\ holder[s] = None
  /\ \E v \in promised .. written : view' = [view EXCEPT ![s] = v]
  /\ holder' = [holder EXCEPT ![s] = t]
  /\ UNCHANGED <<written, promised, asked>>

(* A commit(true) begins, or fails and promises nothing.                   *)
Ask(t) ==
  /\ \E n \in {0, written} : asked' = [asked EXCEPT ![t] = n]
  /\ UNCHANGED <<written, promised, holder, view>>

Show(t, s) ==
  /\ holder[s] = t
  /\ \E v \in view[s] .. written :
       /\ v >= asked[t]
       /\ view' = [view EXCEPT ![s] = v]
  /\ promised' = IF asked[t] > promised THEN asked[t] ELSE promised
  /\ UNCHANGED <<written, holder, asked>>

TakeBack(t, s) ==
  /\ holder[s] = t
  /\ holder' = [holder EXCEPT ![s] = None]
  /\ view' = [view EXCEPT ![s] = -1]
  /\ asked' = [asked EXCEPT ![t] = 0]
  /\ UNCHANGED <<written, promised>>

Next ==
  \/ Write
  \/ \E t \in Threads :
       \/ Ask(t)
       \/ \E s \in Sessions :
            Lend(t, s) \/ Show(t, s) \/ TakeBack(t, s)

Spec == Init /\ [][Next]_vars
=============================================================================
