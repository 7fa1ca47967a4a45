------------------------------ MODULE FileTree ------------------------------
(***************************************************************************)
(* The tree of files of the IDE: a jstree that asks ide/filesystem for the *)
(* children of a folder, kept up to date by ide.js, which after a POST     *)
(* that makes or deletes a file refreshes the folder, waiting for nothing. *)
(*                                                                         *)
(* jstree hands each answer to a worker, one at a time, with a copy of its *)
(* model, and takes the copy back as its model when the worker is done.    *)
(* What the handlers did to the model meanwhile is undone by that, except  *)
(* that a node that is loading in either stays so.                         *)
(*                                                                         *)
(* Folders do not come and go; an item is a file, or a folder that is only *)
(* created.  Selection, and what is drawn beyond open and closed, are left *)
(* out.                                                                    *)
(***************************************************************************)
EXTENDS Integers, Sequences, FiniteSets

CONSTANTS
  Root,      \* the node '#'
  Folders,
  Items,
  In,        \* the folder of each folder and item
  None,
  MaxSent    \* bound on the requests sent by actions of the user

Places == Folders \cup {Root}
Posts == {"create", "delete"}

(* A node of jstree; what to do when one is loaded; a request or its       *)
(* answer; what the worker is at, with a model that knows the places in D. *)
Node == [loaded : BOOLEAN, loading : BOOLEAN, failed : BOOLEAN,
         opened : BOOLEAN, kids : SUBSET (Folders \cup Items)]
Then == [id : Nat, wait : SUBSET Places, open : SUBSET Folders]
Message == [kind : Posts \cup {"list", "listed"}, at : Places, n : Nat,
            then : Then, items : SUBSET Items, bare : SUBSET Folders]
Jobs(D) == [at : Places, items : SUBSET Items, bare : SUBSET Folders,
            then : Then, given : [D -> Node]]

ASSUME FileTreeAssumption ==
  /\ In \in [Folders \cup Items -> Places]
  /\ Root \notin Folders /\ Places \cap Items = {}
  /\ IsFiniteSet(Folders)
  /\ \E depth \in [Places -> 0 .. Cardinality(Folders)] :
       \A d \in Folders : depth[In[d]] < depth[d]
  /\ \A D \in SUBSET Places : None \notin Jobs(D)
  /\ MaxSent \in Nat

VARIABLES
  model,    \* the nodes jstree knows, each with its state and children
  worker,   \* the answer that is being parsed, and the model it was given
  queue,    \* the answers that wait for the worker
  timers,   \* the folders open_node will be tried for again
  traffic,  \* requests and answers under way
  stored,   \* the items the server has
  batch,    \* the number of the last requests
  done,     \* the refreshes whose callback was called
  met,      \* history: folders whose requests failed, or met others
  lost      \* history: folders whose answer came to nothing while a worker
            \* had them in its copy of the model

treeVars ==
  <<model, worker, queue, timers, traffic, stored, batch, done, met, lost>>

Known(m) == DOMAIN m
Subfolders(d) == {e \in Folders : In[e] = d}

(* children_d: the nodes that the lists of children lead to.               *)
Below(m, d) ==
  LET Holds(S) == \A e \in S \cup {d} : m[e].kids \cap Known(m) \subseteq S
  IN  {n \in Known(m) : \A S \in SUBSET Known(m) : Holds(S) => n \in S}

(* What load_node calls when it is done: the end of open_node for the      *)
(* folders in open, or _load_nodes for those in wait before that.          *)
OpenThen(d) == [id |-> 0, wait |-> {}, open |-> {d}]
NoThen == [id |-> 0, wait |-> {}, open |-> {}]

List(d, n, then) ==
  [kind |-> "list", at |-> d, n |-> n, then |-> then, items |-> {}, bare |-> {}]
Post(kind, x, n) ==
  [kind |-> kind, at |-> In[x], n |-> n, then |-> NoThen, items |-> {x},
   bare |-> {}]

-----------------------------------------------------------------------------
(* load_node: a loaded node forgets what is below it.                      *)
Loading(m, load) ==
  LET gone == UNION {Below(m, d) : d \in {e \in load : m[e].loaded}}
  IN [n \in Known(m) \ gone |->
        IF n \notin load THEN m[n]
        ELSE [m[n] EXCEPT !.loading = TRUE, !.loaded = FALSE, !.failed = FALSE,
                          !.kids = IF m[n].loaded THEN {} ELSE m[n].kids]]

(* open_node for the folders in open, load_node for those in load.         *)
ClosedIn(m, open) ==
  {d \in open \cap Known(m) : ~m[d].opened /\ (m[d].loaded => m[d].kids # {})}
Unloaded(m, open) == {d \in ClosedIn(m, open) : ~m[d].loaded /\ ~m[d].loading}

Opened(m, open) ==
  [n \in Known(m) |->
     IF n \in ClosedIn(m, open) /\ m[n].loaded
     THEN [m[n] EXCEPT !.opened = TRUE] ELSE m[n]]

After(m, load, open) == Loading(Opened(m, open), load \cup Unloaded(m, open))

Asked(m, n, load, then, open) ==
  {List(d, n, then) : d \in load}
    \cup {List(d, n, OpenThen(d)) : d \in Unloaded(m, open)}

Waiting(m, open) == {d \in ClosedIn(m, open) : ~m[d].loaded /\ m[d].loading}

(* _load_nodes, of a refresh (force) and as the callback of load_node.     *)
Wanted(m, nodes, force) ==
  {d \in nodes \cap Known(m) : force \/ (~m[d].loaded /\ ~m[d].failed)}
ToLoad(m, nodes, force) ==
  LET idle == {d \in Wanted(m, nodes, force) : ~m[d].loading}
  IN {d \in idle : \A e \in idle : m[e].loaded => d \notin Below(m, e)}

Loads(m, then) == ToLoad(m, then.wait, FALSE)
Opens(m, then, ok) ==
  IF /\ Wanted(m, then.wait, FALSE) = {}
     /\ IF then.wait = {} THEN ok ELSE then.id \notin done
  THEN then.open ELSE {}

Busy(d) ==
  \/ \E r \in traffic : r.at = d /\ r.kind \notin Posts
  \/ worker # None /\ worker.at = d
  \/ \E i \in 1 .. Len(queue) : queue[i].at = d

(* History: the new requests meet others that may be dealt with in another *)
(* order, and nothing refreshes the root.                                  *)
Posting(d) == \E r \in traffic : r.kind \in Posts /\ r.at = d
Meets(new) ==
  {d \in Places : \E r \in new :
     \/ r.at = d /\ (Busy(d) \/ Posting(d))
     \/ r.kind \in Posts /\ r.at = d /\ (d = Root \/ Busy(In[d]))
     \/ r.kind = "list" /\ d \in Subfolders(r.at) /\ Posting(d)}

(* What the calls of a handler send and wait for.                          *)
Calls(m, load, then, open, rest, posts) ==
  LET new == posts \cup Asked(m, batch + 1, load, then, open) IN
  /\ traffic' = rest \cup new
  /\ batch' = IF new = {} THEN batch ELSE batch + 1
  /\ met' = met \cup Meets(new)

-----------------------------------------------------------------------------
(* The user.                                                               *)
OpenNode(d, pending) ==
  /\ model' = After(model, {}, {d})
  /\ Calls(model, {}, NoThen, {d}, traffic, {})
  /\ timers' = pending \cup Waiting(model, {d})
  /\ UNCHANGED <<worker, queue, stored, done, lost>>

Visible(d) == In[d] = Root \/ model[In[d]].opened

Expand(d) ==
  /\ batch < MaxSent
  /\ d \in ClosedIn(model, {d}) /\ Visible(d)
  /\ OpenNode(d, timers)

Collapse(d) ==
  /\ d \in Known(model) \ ClosedIn(model, {d})
  /\ model[d].opened /\ Visible(d)
  /\ model' = [model EXCEPT ![d].opened = FALSE]
  /\ UNCHANGED <<worker, queue, timers, traffic, stored, batch, done, met, lost>>

Timer(d) == d \in timers /\ OpenNode(d, timers \ {d})

(* refresh_node: the folder and the open ones below it, unless it is the   *)
(* root or not known; one that is loading is left as it is.                *)
Refreshed(d) ==
  {e \in Below(model, d) \cup {d} : e = d \/ model[e].opened}

PostAndRefresh(kind, x, d) ==
  LET nodes == IF d = Root \/ d \notin Known(model) THEN {} ELSE Refreshed(d)
      load == ToLoad(model, nodes, TRUE)
      then == [id |-> batch + 1, wait |-> nodes,
               open |-> {e \in nodes : model[e].opened}]
  IN /\ batch < MaxSent
     /\ model' = After(model, load, {})
     /\ Calls(model, load, then, {}, traffic, {Post(kind, x, batch + 1)})
     /\ UNCHANGED <<worker, queue, timers, stored, done, lost>>

(* The menu of a folder makes items; the folder may be reloaded with the   *)
(* one around it while the dialog is open.                                 *)
CreateItem(x) ==
  /\ In[x] # Root
  /\ In[x] \in Known(model) \/ Busy(In[In[x]])
  /\ PostAndRefresh("create", x, In[x])

RemoveItem_selfOnly(x) ==  \* Slip: refreshes the deleted node
  /\ In[x] \in Known(model) /\ x \in model[In[x]].kids
  /\ PostAndRefresh("delete", x, x)

RemoveItem(x) ==
  /\ In[x] \in Known(model) /\ x \in model[In[x]].kids
  /\ PostAndRefresh("delete", x, In[x])

-----------------------------------------------------------------------------
(* The server.                                                             *)
Content(d) == {x \in stored : In[x] = d}

HandlePost(r) ==
  /\ r.kind \in Posts
  /\ stored' = IF r.kind = "create" THEN stored \cup r.items
               ELSE stored \ r.items
  /\ traffic' = traffic \ {r}
  /\ UNCHANGED <<model, worker, queue, timers, batch, done, met, lost>>

(* filesystem.xsl; a listing may be made before a write that was sent      *)
(* before it.                                                              *)
HandleList(r) ==
  /\ r.kind = "list"
  /\ traffic' = (traffic \ {r}) \cup
       {[r EXCEPT !.kind = "listed", !.items = Content(r.at),
                  !.bare = {e \in Subfolders(r.at) :
                              Content(e) \cup Subfolders(e) = {}}]}
  /\ met' = met \cup {d \in {r.at} \cup Subfolders(r.at) : Posting(d)}
  /\ UNCHANGED <<model, worker, queue, timers, stored, batch, done, lost>>

-----------------------------------------------------------------------------
(* The answers.  An answer for a node that is gone makes its handler       *)
(* throw.                                                                  *)
Forgets(d) ==
  lost' = IF worker # None /\ d \in Known(worker.given)
          THEN lost \cup {d} ELSE lost

Gone(r) ==
  /\ traffic' = traffic \ {r}
  /\ UNCHANGED <<model, worker, queue, timers, stored, batch, done, met>>

Emptied(m, d) == [m EXCEPT ![d].kids = {}]
Work(m, r) == [at |-> r.at, items |-> r.items, bare |-> r.bare, then |-> r.then,
               given |-> m]

Arrive(r) ==
  /\ r.kind = "listed"
  /\ IF r.at \notin Known(model) THEN Gone(r) /\ Forgets(r.at)
     ELSE LET m == Emptied(model, r.at) IN
       /\ model' = m
       /\ IF worker = None
          THEN worker' = Work(m, r) /\ UNCHANGED queue
          ELSE queue' = Append(queue, r) /\ UNCHANGED worker
       /\ traffic' = traffic \ {r}
       /\ UNCHANGED <<timers, stored, batch, done, met, lost>>

(* The end of load_node, m being the model with its new state for d.       *)
LoadEnds(m, then, ok, rest) ==
  /\ Calls(m, Loads(m, then), then, Opens(m, then, ok), rest, {})
  /\ done' = IF then.wait # {} /\ Wanted(m, then.wait, FALSE) = {}
             THEN done \cup {then.id} ELSE done

Ended(m, then, ok) == After(m, Loads(m, then), Opens(m, then, ok))

Settled_onlyIfOk(node, ok) ==  \* Slip: a failed node goes on loading
  [node EXCEPT !.loading = ~ok, !.loaded = ok, !.failed = ~ok]

Settled(node, ok) ==
  [node EXCEPT !.loading = FALSE, !.loaded = ok, !.failed = ~ok]

(* A write or a listing fails, or is lost.                                 *)
FailPost(r) ==
  /\ r.kind \in Posts
  /\ traffic' = traffic \ {r}
  /\ met' = met \cup {r.at}
  /\ UNCHANGED <<model, worker, queue, timers, stored, batch, done, lost>>

FailList(r) ==
  /\ r.kind = "list"
  /\ Forgets(r.at)
  /\ IF r.at \notin Known(model) THEN Gone(r)
     ELSE LET m == [model EXCEPT ![r.at] = Settled(@, FALSE)] IN
       /\ model' = Ended(m, r.then, FALSE)
       /\ LoadEnds(m, r.then, FALSE, traffic \ {r})
       /\ timers' = timers \cup Waiting(m, Opens(m, r.then, FALSE))
       /\ UNCHANGED <<worker, queue, stored>>

-----------------------------------------------------------------------------
(* The worker is done.                                                     *)
Fresh(bare) ==
  [loaded |-> bare, loading |-> FALSE, failed |-> FALSE, opened |-> FALSE,
   kids |-> {}]

Parsed(w) ==
  LET subs == Subfolders(w.at) IN
  [n \in Known(w.given) \cup subs |->
     IF n \in subs THEN Fresh(n \in w.bare)
     ELSE IF n = w.at THEN [w.given[n] EXCEPT !.kids = w.items \cup subs]
     ELSE w.given[n]]

Merged(now, mod) ==
  [n \in Known(mod) |->
     IF n \in Known(now) /\ now[n].loading
     THEN [mod[n] EXCEPT !.loading = TRUE] ELSE mod[n]]

(* An open node that is not loaded is drawn closed, and opened again later.*)
Redrawn(m, d) == m[d].opened /\ ~m[d].loaded

Loaded(m, d) ==
  LET node == Settled(m[d], TRUE)
  IN [m EXCEPT ![d] = [node EXCEPT !.opened = @ /\ ~Redrawn(m, d)]]

Rests(m) == model' = m /\ worker' = None

TakeNext_resting(m) ==  \* Slip: the queue is looked at only when working
  Rests(m) /\ UNCHANGED queue

TakeNext(m) ==
  IF queue = <<>> THEN Rests(m) /\ UNCHANGED queue
  ELSE /\ model' = Emptied(m, Head(queue).at)
       /\ worker' = Work(model', Head(queue))
       /\ queue' = Tail(queue)

WorkerDone ==
  /\ worker # None
  /\ LET d == worker.at
         then == worker.then
         mod == Merged(model, Parsed(worker))
         m == Loaded(mod, d)
         end == Ended(m, then, TRUE)
     IN /\ LoadEnds(m, then, TRUE, traffic)
        /\ timers' = timers \cup Waiting(m, Opens(m, then, TRUE))
                            \cup {e \in {d} : Redrawn(mod, e)}
        /\ TakeNext(end)
  /\ UNCHANGED <<stored, lost>>

-----------------------------------------------------------------------------
TreeInit ==
  /\ model = [d \in {Root} |-> [Fresh(FALSE) EXCEPT !.loading = TRUE]]
  /\ worker = None /\ queue = <<>> /\ timers = {}
  /\ traffic = {List(Root, 0, NoThen)}
  /\ stored \in SUBSET Items
  /\ batch = 0 /\ done = {} /\ met = {} /\ lost = {}

User ==
  \/ \E d \in Folders : Expand(d) \/ Collapse(d)
  \/ \E x \in Items : CreateItem(x) \/ RemoveItem(x)

Answers ==
  \/ \E r \in traffic : HandlePost(r) \/ HandleList(r) \/ Arrive(r)
                        \/ FailPost(r) \/ FailList(r)
  \/ WorkerDone

TreeNext == User \/ Answers \/ \E d \in Folders : Timer(d)

TreeSpec == TreeInit /\ [][TreeNext]_treeVars

(* What is under way is answered, or fails, and the worker ends: this is   *)
(* weak fairness of Answers, as Answers is enabled exactly when something  *)
(* is under way.                                                           *)
FairTreeSpec ==
  TreeSpec /\ ([]<>(traffic = {} /\ worker = None) \/ []<><<Answers>>_treeVars)

-----------------------------------------------------------------------------
TreeTypeOK ==
  /\ Known(model) \subseteq Places /\ model \in [Known(model) -> Node]
  /\ Root \in Known(model)
  /\ worker # None => /\ Known(worker.given) \subseteq Places
                      /\ worker \in Jobs(Known(worker.given))
  /\ queue \in Seq(Message)
  /\ traffic \subseteq Message
  /\ timers \subseteq Places
  /\ stored \subseteq Items
  /\ batch \in Nat /\ done \subseteq Nat
  /\ met \subseteq Places /\ lost \subseteq Places

(* When nothing is under way, a folder shows what the server has in it,    *)
(* unless a request for it failed or met another one for it: a listing     *)
(* that was made before the write it was asked after, or a refresh while   *)
(* the folder was loading already; or a load of it failed while a worker   *)
(* had a copy, which brings back what the folder was before the load.      *)
(* The files at the root are never refreshed.                              *)
TreeFollowsServer ==
  traffic = {} /\ worker = None =>
    \A d \in Known(model) \ (met \cup lost) :
      model[d].loaded => model[d].kids \cap Items = Content(d)

(* What is loading ends loading, unless its answer came to nothing while a *)
(* worker had the node in its copy of the model.  If it was loading in     *)
(* that copy it never ends loading, and no refresh loads it again.         *)
LoadingEnds ==
  \A d \in Places :
    (d \in Known(model) /\ model[d].loading)
      ~> (d \notin Known(model) \/ ~model[d].loading \/ d \in lost)
=============================================================================
