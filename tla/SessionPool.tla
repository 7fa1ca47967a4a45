---------------------------- MODULE SessionPool ----------------------------
(***************************************************************************)
(* The sessions of an index: XMLIndex lends them to threads and keeps the  *)
(* returned ones in a stack, a session reads through a Lucene searcher it  *)
(* holds a reference to, commit(true) exchanges that searcher, and open    *)
(* and close of the index run beside all this without the monitor that     *)
(* aquireSession and returnSession take.                                   *)
(*                                                                         *)
(* A searcher is the number of its creation.  Lucene closes it when its    *)
(* reference count drops to 0.  Every open of the node store makes a new   *)
(* SearcherManager, which holds a reference to its current searcher;       *)
(* managers[g] is that searcher.  NodeStore.close never closes a manager.  *)
(*                                                                         *)
(* Simplifications: the index is opened and closed by one thread, as the   *)
(* web context and the tests do; a refresh that was under way when the     *)
(* index was closed ends before the index is opened again; what is written *)
(* is a count of writes.                                                   *)
(***************************************************************************)
EXTENDS Integers, Sequences, FiniteSets

CONSTANTS
  Threads,      \* threads that acquire sessions
  Sessions,     \* the Session objects there can be
  None,         \* no thread, no session
  Reopener,     \* the thread of ControlledRealTimeReopenThread
  MaxOpens,     \* bound on the number of times the node store is opened
  MaxWrites,    \* bound on the number of writes
  MaxMistakes   \* bound on the returns of a session that was returned before

ASSUME PoolAssumption ==
  /\ Reopener \notin Threads
  /\ None \notin Threads \cup Sessions \cup {Reopener}
  /\ MaxOpens \in Nat /\ MaxWrites \in Nat /\ MaxMistakes \in Nat
  /\ IsFiniteSet(Sessions)

VARIABLES
  isOpen,     \* XMLIndex.isOpen
  writer,     \* is there an IndexWriter, which holds the lock of the directory
  stage,      \* what the thread in XMLIndex.open or close is doing
  managers,   \* the current searcher of every SearcherManager made so far
  content,    \* the number of writes that each searcher made so far shows
  refs,       \* the reference count of each searcher
  written,    \* the number of writes so far
  refresh,    \* who holds the refresh lock, and the writes it will show
  monitor,    \* the thread in aquireSession or returnSession
  pool,       \* sessionPool, the top last
  sess,       \* the fields of each session
  thread,     \* what each thread is doing
  twice,      \* history: the sessions that were returned twice
  stolen,     \* history: the sessions closed while another thread had them
  promised    \* history: the writes before a commit(true) that has returned,
              \* not counting sessions that were returned twice

lifeVars == <<isOpen, writer, stage>>
luceneVars == <<managers, content, refs, refresh>>
poolVars == <<monitor, pool, twice, stolen>>
vars == <<lifeVars, luceneVars, written, poolVars, sess, thread, promised>>

Searchers == 1 .. Len(content)
Current == managers[Len(managers)]
InPool == {pool[i] : i \in 1 .. Len(pool)}
Unmade == {s \in Sessions : ~sess[s].made}

(* No refresh is under way.                                                *)
NoRefresh == [by |-> None, shows |-> 0]

(* A thread that has no session.  last is the session it returned last.    *)
Idle(s) == [at |-> "idle", session |-> None, due |-> 0, last |-> s]

-----------------------------------------------------------------------------
(* The thread has acquired the session and not returned it.                *)
Has(t, s) == thread[t].session = s /\ thread[t].at # "returningAgain"

(* XMLIndex.open: the node store, then the name store, then isOpen.  The   *)
(* lock of a writer that was never closed makes the next open fail.        *)
NewStore ==
  /\ ~isOpen /\ stage = "idle" /\ refresh = NoRefresh
  /\ Len(managers) < MaxOpens
  /\ writer' = TRUE
  /\ stage' = "opening"
  /\ content' = Append(content, written)
  /\ refs' = Append(refs, 1)
  /\ managers' = Append(managers, Len(content) + 1)
  /\ UNCHANGED <<isOpen, refresh, written, poolVars, sess, thread,
                 promised>>

OpenStore_overLock == NewStore  \* Slip: a writer that is open does not matter

OpenStore == ~writer /\ NewStore

OpenNames ==
  /\ stage = "opening"
  /\ isOpen' = TRUE
  /\ stage' = "idle"
  /\ UNCHANGED <<writer, luceneVars, written, poolVars, sess, thread,
                 promised>>

(* The exception of the name store leaves open with the node store open.   *)
OpenFails ==
  /\ stage = "opening"
  /\ stage' = "idle"
  /\ UNCHANGED <<isOpen, writer, luceneVars, written, poolVars, sess, thread,
                 promised>>

(* XMLIndex.close: the node store joins the reopen thread and closes the   *)
(* writer, then the name store, then isOpen.                               *)
CloseStore ==
  /\ isOpen /\ stage = "idle" /\ refresh.by # Reopener
  /\ writer' = FALSE
  /\ stage' = "closing"
  /\ UNCHANGED <<isOpen, luceneVars, written, poolVars, sess, thread,
                 promised>>

CloseNames ==
  /\ stage = "closing"
  /\ isOpen' = FALSE
  /\ stage' = "idle"
  /\ UNCHANGED <<writer, luceneVars, written, poolVars, sess, thread,
                 promised>>

(* The writer or the name store fails to close: the index stays open, with *)
(* no writer, until it is closed again.                                    *)
CloseFails ==
  /\ stage = "closing"
  /\ stage' = "idle"
  /\ UNCHANGED <<isOpen, writer, luceneVars, written, poolVars, sess,
                 thread, promised>>

-----------------------------------------------------------------------------
(* A write by the user of a session (addDocument and the like): XMLIndex   *)
(* checks isOpen, a closed writer throws.                                  *)
Write(t) ==
  /\ thread[t].at = "using" /\ sess[thread[t].session].open
  /\ isOpen /\ writer
  /\ written < MaxWrites
  /\ written' = written + 1
  /\ UNCHANGED <<lifeVars, luceneVars, poolVars, sess, thread, promised>>

(* A refresh takes the refresh lock and a reference to the current         *)
(* searcher, makes a reader of what is written, swaps it for the current   *)
(* searcher if anything has changed, and drops its reference.              *)
Begins(r) ==
  /\ writer
  /\ refresh = NoRefresh
  /\ refs[Current] > 0
  /\ refresh' = [by |-> r, shows |-> written]
  /\ refs' = [refs EXCEPT ![Current] = @ + 1]

Changed == refresh.shows # content[Current]
Dropped == IF Changed THEN 2 ELSE 1
AfterDrop == IF refs[Current] < Dropped THEN 0 ELSE refs[Current] - Dropped

Ends(r) ==
  /\ refresh.by = r
  /\ refresh' = NoRefresh
  /\ IF Changed
     THEN LET x == Len(content) + 1 IN
          /\ content' = Append(content, refresh.shows)
          /\ managers' = [managers EXCEPT ![Len(managers)] = x]
          /\ refs' = Append([refs EXCEPT ![Current] = AfterDrop], 1)
     ELSE /\ refs' = [refs EXCEPT ![Current] = AfterDrop]
          /\ UNCHANGED <<managers, content>>

(* The reopen thread, which only runs while the node store is open.        *)
ReopenBegin ==
  /\ Begins(Reopener)
  /\ content[Current] < written
  /\ UNCHANGED <<lifeVars, managers, content, written, poolVars, sess, thread,
                 promised>>

ReopenEnd ==
  /\ Ends(Reopener)
  /\ UNCHANGED <<lifeVars, written, poolVars, sess, thread, promised>>

-----------------------------------------------------------------------------
Goes(t, place) == thread' = [thread EXCEPT ![t].at = place]

(* Session.commit: the commit itself makes nothing visible; commit(true)   *)
(* waits for the refresh lock, commit(false) goes on without a refresh if  *)
(* another one is under way.                                               *)
Commits(t, place, due) ==
  /\ thread[t].at = "using" /\ sess[thread[t].session].open
  /\ writer
  /\ thread' = [thread EXCEPT ![t].at = place, ![t].due = due]
  /\ UNCHANGED <<lifeVars, luceneVars, written, poolVars, sess, promised>>

CommitStart_triesOnly(t) ==  \* Slip: commit(true) does not wait either
  \/ Commits(t, IF refresh = NoRefresh THEN "refresh" ELSE "release", written)
  \/ Commits(t, "tryRefresh", thread[t].due)

CommitStart(t) ==
  Commits(t, "refresh", written) \/ Commits(t, "tryRefresh", thread[t].due)

CommitSkips(t) ==
  /\ thread[t].at = "tryRefresh"
  /\ refresh.by \notin {None, t}
  /\ Goes(t, "using")
  /\ UNCHANGED <<lifeVars, luceneVars, written, poolVars, sess, promised>>

CommitBegins(t) ==
  /\ thread[t].at \in {"refresh", "tryRefresh"}
  /\ Begins(t)
  /\ UNCHANGED <<lifeVars, managers, content, written, poolVars, sess, thread,
                 promised>>

CommitEnds(t) ==
  /\ Ends(t)
  /\ refs[Current] >= Dropped
  /\ Goes(t, IF thread[t].at = "refresh" THEN "release" ELSE "using")
  /\ UNCHANGED <<lifeVars, written, poolVars, sess, promised>>

(* The index was closed in between, or the current searcher was released   *)
(* once too often: the refresh throws out of commit, and the session keeps *)
(* the searcher it had.                                                    *)
CommitThrows(t) ==
  /\ thread[t].at \in {"refresh", "tryRefresh"}
  /\ \/ /\ refresh.by # t
        /\ ~writer \/ refs[Current] = 0
        /\ UNCHANGED luceneVars
     \/ Ends(t) /\ refs[Current] < Dropped
  /\ thread' = [thread EXCEPT ![t].at = "using", ![t].due = 0]
  /\ UNCHANGED <<lifeVars, written, poolVars, sess, promised>>

-----------------------------------------------------------------------------
(* Reference counting.  A release of a searcher that is closed throws.     *)
Releases(x) == refs[x] > 0 /\ refs' = [refs EXCEPT ![x] = @ - 1]
Takes(s, x) == sess' = [sess EXCEPT ![s].made = TRUE, ![s].open = TRUE,
                                    ![s].searcher = x, ![s].counted = TRUE]

(* Session.commit(true), after the refresh: release the searcher of the    *)
(* session, acquire the current one.  counted says whether the session     *)
(* holds a reference to the searcher in its field.                         *)
SwitchRelease(t) ==
  LET s == thread[t].session IN
  /\ thread[t].at = "release"
  /\ sess[s].searcher # 0
  /\ Releases(sess[s].searcher)
  /\ sess' = [sess EXCEPT ![s].counted = FALSE]
  /\ Goes(t, "acquire")
  /\ UNCHANGED <<lifeVars, managers, content, refresh, written, poolVars,
                 promised>>

SwitchAcquire(t) ==
  LET s == thread[t].session IN
  /\ thread[t].at = "acquire"
  /\ refs[Current] > 0
  /\ refs' = [refs EXCEPT ![Current] = @ + 1]
  /\ sess' = [sess EXCEPT ![s].searcher = Current, ![s].counted = TRUE]
  /\ promised' = IF s \notin twice /\ promised < thread[t].due
                 THEN thread[t].due ELSE promised
  /\ Goes(t, "using")
  /\ UNCHANGED <<lifeVars, managers, content, refresh, written, poolVars>>

(* The session was closed under the committing thread, or a searcher was   *)
(* released once too often: null or an AlreadyClosedException.             *)
SwitchThrows(t) ==
  /\ \/ /\ thread[t].at = "release"
        /\ LET x == sess[thread[t].session].searcher IN
           IF x = 0 THEN TRUE ELSE refs[x] = 0
     \/ thread[t].at = "acquire" /\ refs[Current] = 0
  /\ thread' = [thread EXCEPT ![t].at = "using", ![t].due = 0]
  /\ UNCHANGED <<lifeVars, luceneVars, written, poolVars, sess, promised>>

-----------------------------------------------------------------------------
(* aquireSession: checkOpen under the monitor; close does not take it.     *)
AquireCheck(t) ==
  /\ thread[t].at = "idle" /\ monitor = None /\ isOpen
  /\ pool # <<>> \/ Unmade # {}  \* bound: Sessions
  /\ monitor' = t
  /\ Goes(t, "aquiring")
  /\ UNCHANGED <<lifeVars, luceneVars, written, pool, twice, stolen, sess,
                 promised>>

(* The top of the stack, or a new Session if the stack is empty.           *)
Popped(s, rest) ==
  IF pool = <<>>
  THEN s \in Unmade /\ rest = <<>>
  ELSE s = pool[Len(pool)] /\ rest = SubSeq(pool, 1, Len(pool) - 1)

Rests == {<<>>, SubSeq(pool, 1, Len(pool) - 1)}

Lends(t, s, rest) ==
  /\ thread[t].at = "aquiring"
  /\ refs[Current] > 0
  /\ Takes(s, Current)
  /\ refs' = [refs EXCEPT ![Current] = @ + 1]
  /\ thread' = [thread EXCEPT ![t] = [Idle(None) EXCEPT !.at = "using",
                                                        !.session = s]]
  /\ pool' = rest
  /\ monitor' = None
  /\ UNCHANGED <<lifeVars, managers, content, refresh, written, twice, stolen,
                 promised>>

AquireEnd_opensAnyway(t) ==  \* Slip: an open session is opened again
  \E s \in Sessions, rest \in Rests : Popped(s, rest) /\ Lends(t, s, rest)

AquireEnd(t) ==
  \E s \in Sessions, rest \in Rests :
    Popped(s, rest) /\ ~sess[s].open /\ Lends(t, s, rest)

(* Session.open throws if the session is open, or if the current searcher  *)
(* was closed: the session is out of the stack and nobody has it.          *)
AquireThrows(t) ==
  \E s \in Sessions, rest \in Rests :
    /\ thread[t].at = "aquiring"
    /\ Popped(s, rest)
    /\ sess[s].open \/ refs[Current] = 0
    /\ sess' = [sess EXCEPT ![s].made = TRUE]
    /\ pool' = rest
    /\ monitor' = None
    /\ Goes(t, "idle")
    /\ UNCHANGED <<lifeVars, luceneVars, written, twice, stolen, promised>>

(* returnSession is called, and waits for the monitor.                     *)
Return(t) ==
  /\ thread[t].at = "using"
  /\ Goes(t, "leaving")
  /\ UNCHANGED <<lifeVars, luceneVars, written, poolVars, sess, promised>>

(* returnSession: checkOpen, then close the session if it is open, then    *)
(* push it.                                                                *)
ReturnCheck(t) ==
  /\ thread[t].at = "leaving" /\ monitor = None /\ isOpen
  /\ monitor' = t
  /\ Goes(t, "returning")
  /\ UNCHANGED <<lifeVars, luceneVars, written, pool, twice, stolen, sess,
                 promised>>

(* The thread returns the session it returned last once more.              *)
ReturnAgain(t) ==
  /\ thread[t].at = "idle" /\ thread[t].last # None
  /\ monitor = None /\ isOpen
  /\ Cardinality(twice) < MaxMistakes
  /\ monitor' = t
  /\ thread' = [thread EXCEPT ![t].at = "returningAgain",
                              ![t].session = thread[t].last]
  /\ twice' = twice \cup {thread[t].last}
  /\ UNCHANGED <<lifeVars, luceneVars, written, pool, stolen, sess, promised>>

TakesBack(t, s) ==
  /\ thread[t].at \in {"returning", "returningAgain"}
  /\ s = thread[t].session
  /\ sess' = IF sess[s].open
             THEN [sess EXCEPT ![s].open = FALSE, ![s].searcher = 0,
                               ![s].counted = FALSE]
             ELSE sess
  /\ pool' = Append(pool, s)
  /\ monitor' = None
  /\ thread' = [thread EXCEPT ![t] = Idle(s)]
  /\ stolen' = stolen \cup {x \in {s} : sess[s].open /\
                                     \E u \in Threads \ {t} : Has(u, s)}
  /\ UNCHANGED <<lifeVars, managers, content, refresh, written, twice,
                 promised>>

ReturnEnd_keepsReference(t) ==  \* Slip: the searcher is not released
  \E s \in Sessions : TakesBack(t, s) /\ UNCHANGED refs

ReturnEnd(t) ==
  \E s \in Sessions :
    /\ TakesBack(t, s)
    /\ IF sess[s].open THEN Releases(sess[s].searcher) ELSE UNCHANGED refs

(* The index is closed, or the searcher of the session was: the exception  *)
(* leaves returnSession, and the session is neither closed nor pushed.     *)
ReturnThrows(t) ==
  LET s == thread[t].session IN
  /\ \/ /\ thread[t].at = "leaving" /\ monitor = None /\ ~isOpen
        /\ UNCHANGED monitor
     \/ /\ thread[t].at \in {"returning", "returningAgain"}
        /\ sess[s].open
        /\ refs[sess[s].searcher] = 0
        /\ monitor' = None
  /\ thread' = [thread EXCEPT ![t] = Idle(None)]
  /\ UNCHANGED <<lifeVars, luceneVars, written, pool, twice, stolen, sess,
                 promised>>

-----------------------------------------------------------------------------
Init ==
  /\ isOpen = FALSE /\ writer = FALSE /\ stage = "idle"
  /\ managers = <<>> /\ content = <<>> /\ refs = <<>>
  /\ refresh = NoRefresh
  /\ written = 0 /\ promised = 0
  /\ monitor = None /\ pool = <<>> /\ twice = {} /\ stolen = {}
  /\ sess = [s \in Sessions |-> [made |-> FALSE, open |-> FALSE,
                                 searcher |-> 0, counted |-> FALSE]]
  /\ thread = [t \in Threads |-> Idle(None)]

Lifecycle ==
  OpenStore \/ OpenNames \/ OpenFails \/ CloseStore \/ CloseNames \/ CloseFails

Committing(t) ==
  \/ CommitSkips(t) \/ CommitBegins(t) \/ CommitEnds(t) \/ CommitThrows(t)
  \/ SwitchRelease(t) \/ SwitchAcquire(t) \/ SwitchThrows(t)

InMonitor(t) == AquireEnd(t) \/ AquireThrows(t) \/ ReturnEnd(t)

ThreadNext(t) ==
  \/ Write(t) \/ CommitStart(t) \/ Committing(t) \/ InMonitor(t)
  \/ AquireCheck(t) \/ Return(t) \/ ReturnCheck(t) \/ ReturnAgain(t)
  \/ ReturnThrows(t)

Next ==
  \/ Lifecycle
  \/ ReopenBegin \/ ReopenEnd
  \/ \E t \in Threads : ThreadNext(t)

Spec == Init /\ [][Next]_vars

-----------------------------------------------------------------------------
Places == {"idle", "aquiring", "using", "refresh", "tryRefresh", "release",
           "acquire", "leaving", "returning", "returningAgain"}

TypeOK ==
  /\ isOpen \in BOOLEAN /\ writer \in BOOLEAN
  /\ stage \in {"idle", "opening", "closing"}
  /\ written \in Nat /\ promised \in 0 .. written
  /\ content \in Seq(0 .. written)
  /\ refs \in Seq(Nat) /\ Len(refs) = Len(content)
  /\ managers \in Seq(Searchers)
  /\ refresh \in [by : Threads \cup {Reopener, None}, shows : 0 .. written]
  /\ monitor \in Threads \cup {None}
  /\ pool \in Seq(Sessions)
  /\ twice \in SUBSET Sessions /\ stolen \in SUBSET twice
  /\ sess \in [Sessions -> [made : BOOLEAN, open : BOOLEAN,
                           searcher : 0 .. Len(content), counted : BOOLEAN]]
  /\ thread \in [Threads -> [at : Places, session : Sessions \cup {None},
                            due : 0 .. written, last : Sessions \cup {None}]]

(* A searcher is referred to by the manager that has it as its current     *)
(* one, by a refresh and by the sessions that read through it, and its     *)
(* count says how many these are: Lucene closes it neither under a reader  *)
(* nor too late.  This holds over commits, refreshes, reopenings and       *)
(* sessions that were lent before the index was closed, unless a session   *)
(* was closed under its user.                                              *)
Readers(x) == {s \in Sessions : sess[s].counted /\ sess[s].searcher = x}
Managing(x) == {g \in 1 .. Len(managers) : managers[g] = x}
Refreshing(x) == {r \in {refresh.by} \ {None} : x = Current}

CountsExact ==
  stolen = {} => \A x \in Searchers :
                  refs[x] = Cardinality(Readers(x)) + Cardinality(Managing(x))
                            + Cardinality(Refreshing(x))

(* A session is lent to one thread at a time, also if it was returned      *)
(* twice and is twice in the pool: Session.open refuses a session that is  *)
(* open.  Only a second return that finds the session with another thread  *)
(* harms: it closes the session under that thread.                         *)
LeaseExclusive ==
  \A s \in Sessions \ stolen :
    \A t \in Threads : Has(t, s) =>
      /\ sess[s].open
      /\ \A u \in Threads : Has(u, s) => u = t

(* What the threads see through sessions that nobody returned twice.       *)
Holder(s) ==
  IF s \notin twice /\ \E t \in Threads : Has(t, s)
  THEN CHOOSE t \in Threads : Has(t, s)
  ELSE None

Leases == INSTANCE SnapshotLeases WITH
  holder <- [s \in Sessions |-> Holder(s)],
  view <- [s \in Sessions |->
             IF Holder(s) = None THEN -1 ELSE content[sess[s].searcher]],
  asked <- [t \in Threads |->
              IF thread[t].session \in twice THEN 0 ELSE thread[t].due]

(* The pool, the reference counts, the refreshes and the reopenings of the *)
(* index together give every thread a view of its own.                     *)
ImplementsLeases == Leases!Spec

(* The name store failed to open after the node store did.                 *)
LockedOut == stage = "idle" /\ writer /\ ~isOpen

(* An index whose name store failed to open stays closed for good: close   *)
(* returns at once as the index is not open, and open fails on the lock of *)
(* the forgotten writer.                                                   *)
LockedOutForGood == [][LockedOut => LockedOut']_vars
=============================================================================
