# A model of XMLIndex

XMLIndex (`Armatiek/xmlindex`) stores XML documents in a Lucene index, one
Lucene document per XML node, and answers XPath, XQuery and XSLT on that index
by turning axes and filters into Lucene queries. This directory holds TLA+
modules that model the parts of it where order, failure and concurrency matter,
the TLC configurations that check them on small instances, and TLAPS proofs
that hold for instances of any size.

In the text below `core/` is
`src/xmlindex-core/src/main/java/nl/armatiek/xmlindex/`, `web/` is
`src/xmlindex-web/src/main/java/nl/armatiek/xmlindex/` and `ide/` is
`src/home/ide/`. `PROJECT.json` maps every
definition that models code to the lines it models, and lists the hazards of
the code with the properties that cover them.

Contents: [1 Inventory](#1-inventory) ·
[2 What is hard](#2-what-is-hard) ·
[3 Modules](#3-modules) ·
[4 Runs](#4-runs) ·
[5 Proofs](#5-proofs) ·
[6 What the models showed](#6-what-the-models-showed) ·
[7 What is not modelled](#7-what-is-not-modelled) ·
[8 Plan and history](#8-plan-and-history) ·
[9 How to run](#9-how-to-run)

## 1 Inventory

### Components, their state and their operations

| Component | Source | State | Operations |
|---|---|---|---|
| Node store | `core/storage/NodeStore.java` | the `IndexWriter` (buffered and committed nodes), the searcher manager and its reopen thread, the stored node counter | `open`, `close`, `addDocument`, `addDocuments`, `removeDocument`, `reindexNode`, `commit` |
| Document indexer | `core/storage/DocumentIndexer.java` | `nodeCounter`, `userDataMap`, one reused Lucene `Document` and its fields | `index` → `numberNode`, `indexNode`; `reindexNode` |
| Reindexing | `core/storage/ReindexCollector.java`, `core/Session.java` | the session's searcher | `reindexNode`, `reindexTypedValueDef`, `reindexVirtualAttributeDef`: a search whose hits are written again |
| Name store | `core/storage/NameStore.java` | two pairs of maps (names, prefixes), two append-only text files, the shared field `name` | `open`, `close`, `putName`, `putPrefix`, lookups |
| Index lifecycle, session pool | `core/XMLIndex.java` | `isOpen`, the stack of returned sessions, configuration | `open`, `close`, `reloadConfig`, `aquireSession`, `returnSession` |
| Session | `core/Session.java` | its searcher, its Saxon configuration, static caches of compiled stylesheets and queries | `addDocument`, `removeDocument`, `commit`, `query`, `transform`, `open`, `close` |
| Axes and search results | `core/saxon/axis/*` | an iterator: context node, hits, position, length | `next`, `getLength` on the result of one range query |
| Saxon node | `core/saxon/tree/XMLIndexNodeInfo.java` | a node, and the parent it has cached | `iterateAxis`, `getParent`, `comparePosition`, `getDocumentURI`, `copy` |
| Nodes | `core/node/*` | the fields of one Lucene document | – |
| Document order | `core/lucene/query/DocumentOrderCollector.java` | a queue of hits ordered by a `float` made from the left number | – |
| Query constructor, optimizer | `core/saxon/axis/QueryConstructor.java`, `core/saxon/optim/*` | none | rewriting of XPath filters into Lucene queries |
| Configuration | `core/conf/*` | typed value and virtual attribute definitions | read from XML |
| Extension functions | `core/saxon/functions/xmlindex/*` | none | calls from a query back into the session |
| Web context and servlets | `web/conf/WebContext.java`, `web/restxq/*` | a table of open indexes, a cache of RESTXQ contexts | `open`, `close`, lookup, request dispatch |
| IDE editors | `ide/static/ide/js/ide.js`, `ide/ide.xqm` | tabs with their marks of changes, a confirm dialog, requests under way; files on the server | edit, save, open, create, delete, close |
| IDE file tree | `ide.js`, jstree, `ide/xsl/filesystem.xsl` | jstree's model of the folders, its worker and the queue before it | expand, collapse, refresh, listings |
| Spatial plugin, codec, utilities, vendored EXPath libraries | elsewhere | – | – |

### How they interact

* **The monitor of `documentIndexer`.** `NodeStore.addDocument` and
  `reindexNode` hold it for the whole call. `removeDocument`, `commit`, `close`
  and the reopen thread do not. It is the only lock between the sessions.
* **Numbers.** `numberNode` gives every node of a document a left and a right
  number from `nodeCounter`, which runs over all documents of an index. Every
  axis is a range query on these numbers, `reindexNode` deletes by the left
  number, and the parent is stored as a left number. So the number is the
  identity of a node, and everything depends on no number being given twice.
* **Searchers.** A session holds one searcher from the moment it is acquired
  until it commits with a new searcher or is returned. The current searcher is
  near-real-time: the reopen thread, and each commit, take what the writer
  holds at that moment, also in the middle of an addition.
* **Codes.** The Lucene documents hold codes for names and prefixes, which only
  the files of the name store can resolve. Those files do not take part in
  Lucene's commits.
* **Callbacks.** A query can call `addDocument`, `commit` or `reindexNode` on the
  session it runs in, while its own axis iterators are open.
* **The monitor of `XMLIndex`.** `aquireSession` and `returnSession` hold it;
  `open` and `close` of the index do not, and a session that is out goes on
  through a close. Lucene's reference counts decide when a searcher is closed.
* **Static caches.** What `query` and `transform` compile is kept for the whole
  process, under the key the caller gives, by all sessions of all indexes.
* **The context.** Servlets look indexes up in one table, under its monitor;
  the container closes the table while requests may still run.
* **The browser.** The IDE sends each request without waiting for an earlier
  one, and no handler of a POST looks at the answer. The tree of files hands
  every listing to a worker, together with a copy of the tree.

### What makes each component correct

* Node store: a document is in the index whole or not at all, in what every
  reader and every restart sees; a number identifies one node; an exception
  leaves nothing behind; what is added becomes visible.
* Document indexer: the intervals of the nodes nest as the tree does, the
  Lucene documents are in document order, and both recursions agree on the
  nodes they skip.
* Name store: a code that was given leads to the same name forever.
* Axes: each axis finds the nodes XPath says, within the document; the order of
  two nodes agrees with the axes; a cached parent is the parent.
* Pool and lifecycle: a session is used by one thread, its searcher is open
  while it holds it, every searcher is released, what commit(true) made visible
  stays visible to whoever acquires later.
* Session: what runs was compiled for the index of the session, from a text
  that is not older than development mode promises.
* Web context: an index is open once, sessions come back, close closes.
* IDE: what was saved last is stored; a tab without a mark can be closed; the
  tree shows what the server has; nothing loads for ever.

## 2 What is hard

The list, with the line where each hazard bites, is in `PROJECT.json` under
"hazards". In short:

* removals, commits, refreshes and close fall between two writes of an addition;
* a crash keeps the last commit, whatever it caught, and the node counter is
  stored by a separate write after the nodes;
* an exception in the middle of an addition is undone by two steps, an `Error`
  (the recursion can overflow the stack) by none;
* a session reindexes nodes of an old searcher by a number that may mean
  another node by now;
* `userDataMap` keeps numbers of earlier, failed and other documents;
* the name store looks up outside its lock, does not look again inside it, and
  hands its argument over in a shared field;
* nine range queries with bounds of their own have to divide a document, also
  one of which a searcher has only the first nodes;
* `open` and `close` of an index are several steps that can fail in between and
  run beside acquires, returns, commits and refreshes;
* a session may be returned twice, and is then twice in the pool;
* the caches of compiled texts are shared by indexes that must not share, and
  two calls that miss may store in either order;
* a request may look up, open or borrow from an index while the context closes;
* saves, deletions, listings and texts of the IDE overtake each other or get
  lost, and jstree takes back a model that is older than what it has.

Two hazards have no property: the comparison with a constant on the left, which
needs the meaning of Saxon's expression trees, and the null key of the ad hoc
functions, whose failing step is in `ExecCache` but of which the repository
promises nothing that could be stated.

## 3 Modules

```
   IndexTree            the numbering of a tree: Nested, IsParent, Numbered
    |      \       \
    |       \       Axes ---------- MCAxes, AxesProofs
    |        NodeNumbering -------- MCNodeNumbering, NodeNumberingProofs
   NodeStore ---------------------- MCNodeStore, NodeStoreProofs
    |
   SerialNodeStore --implements--> DocStore      MCSerialNodeStore

   NameStore ---------------------- MCNameStore, NameStoreProofs

   SessionPool --implements--> SnapshotLeases    MCSessionPool,
                                                 SessionPoolProofs
   ExecCache ---------------------- MCExecCache, ExecCacheProofs
   WebApp ------------------------- MCWebApp, WebAppProofs

   Ide ---------------------------- MCIde, IdeProofs
   FileTree ----------------------- MCFileTree, IdeProofs
```

The modules of the server are layers: `WebApp` has indexes that are open or not
and hold a lock or not, `SessionPool` says what opening, closing and lending do
inside one of them, with what is written as a count, `NodeStore` says what is
written; `ExecCache` is about what a session that is lent runs.

`IndexTree!Numbered` is the interface between the numbering and the store:
`NodeNumbering` shows, and `FinishedDocuments` proves, that every document it
finishes is `Numbered`: its numbers lie below 2n, the first node has the first and
the last of them, the others follow in the order of their left numbers, the
parent of each is an earlier one around it (`IsParent`), and two intervals are
disjoint or nested, with no node between a node and its parent (`Nested`).
`NodeStore` assumes it of the documents it is given (`TreesAssumption`) and keeps it
in every image, whatever is added, removed, torn and restarted:
`DocumentsAreTrees` says `Nested` and `IsParent` of each document that no removal or
reindex damaged, the half-written ones included, and `LeftIsKey` and
`DescendantsStayInDocument` say that the numbers of two documents do not meet,
half-written ones included, unless one of them is `shared` (see below). `Axes` assumes that of what a searcher contains (`IndexesAssumption`, with
the same two operators, and `docLeft` and `docRight` as the bounds of the document)
and shows that the queries find the axes of XPath. A searcher that shows a
document whose numbers a restart gave out again is outside `Axes`: there a range
query below a node of the new document finds nodes of the old one, which is what
`DescendantsStayInDocument` excepts. Each
of the three steps is a theorem of its module (`FinishedDocuments`,
`DocumentsStayTrees` and `DescendantsInDocument`, `AxesAreXPaths`).

In the modules a definition whose name is another one's with an underscore and
a few words (`AddEnd_storesOldCounter`), marked "Slip" in its comment, is not
part of the specification. It is the definition as a plausible bug would have
it; `PROJECT.json` says under "mutants" which property finds it.

### NodeStore

| In the module | In the code |
|---|---|
| `writer`, `durable`, `searcher`, `snapshot[s]` | the content of the `IndexWriter`, its last commit, the searcher of `indexSearcherManager`, `Session.indexSearcher`. Each is an `Image`: nodes, stored counter, and history |
| `nodeCounter` | `DocumentIndexer.nodeCounter` |
| `op` | the holder of the monitor, and how far it is: `added` of the nodes of `doc` are written, or the `node` between the two writes of `reindexNode` |
| `refreshing` | sessions in `commit(true)` after the Lucene commit |
| `AddBegin`, `AddNode`, `AddEnd` | `addDocument`: remove the old document and number the new one; one call of `indexNode` per step; store the counter |
| `AddFail`, `AddError` | the handler of `Exception`; what an `Error` leaves |
| `RemoveDocument`, `Commit`, `SwitchSearcher`, `Refresh`, `AquireSession` | the calls without the monitor, and the reopen thread |
| `ReindexDelete`, `ReindexAdd` | `updateDocument` of a node of the snapshot: delete by left number, add |
| `Open`, `Close`, `Crash` | `NodeStore.open` (which creates the root nodes in a new index), `close` (which commits), the death of the process |

Between `AddBegin` and `AddNode`, and between any two calls of `AddNode`, every
other action of the table may happen that does not need the monitor. The content
of an XML node is abstracted to the number of the call that wrote it (`ver`), its
place is kept. `Capture` is what a commit or refresh takes at this moment.

An image carries history fields, set by the event that does the harm and never by
looking at the nodes: `docs` is the version the calls should have left, and four
sets name documents that something happened to.

* `torn`: a commit, refresh or `Error` caught the document when some of its nodes
  were written and some not. `Capture` does not count the document as torn when
  all its nodes are written and only `storeNodeCounter` is outstanding: it is
  complete then, and `IntactDocuments` says so.
* `damaged`: a removal cut an addition in two, a capture fell between the two
  writes of a reindex, or a reindex used a stale node.
* `ahead`: the image has nodes of the document but not the counter that covers
  their numbers, because it was captured between the first node and
  `storeNodeCounter`, or an `Error` left it. The next `storeNodeCounter` ends it.
* `shared`: the document was `ahead` in the commit that a restart found (`Restarted`),
  so that its numbers are given out again; or a stale reindex wrote one of its
  deleted nodes again (`ReindexDelete`, `ComesBack`), with a number that another
  document may have by now.

The safety properties say that these are the *only* ways in which a document is
harmed, and that the harm stays with the documents it is said of: being torn does not
excuse a document from the numbers being unique, only being shared does, and
being shared excuses the nodes of that document and of no other.

### DocStore and SerialNodeStore

`DocStore` is what a caller would like an index to be: a map from URIs to whole
documents; a call makes a document disappear, it appears at once and whole, a
crash loses what was not committed. `NodeStore` does not implement it in general.
`SerialNodeStore` restricts `NodeStore` to callers that take turns (`Discipline`:
no call or orderly close during another's addition, no stale reindex, no `Error`),
with crashes, failures and refreshes still at every point, and implements it;
the mapping reads the documents off the nodes (`Documents`).

### NodeNumbering

One step is one call of `numberNode` or `indexNode` on a node, or the return of
one; `stack` holds the recursion. `Begin` is `DocumentIndexer.index` for a document
that comes as a stream (which clears `userDataMap`) or as an `XdmNode` (which does
not). `Fail` is an exception in `indexNode`, after which the counter goes back but
`userDataMap` stays; `Error` is one that nobody catches; `ParseError` ends before
the numbering. `depth` is a Java byte and wraps. `Record` is the Lucene document,
`written` the ones of this addition in the order in which they are added.
The byte is the constant `DepthLimit`, 128 in the code.

### NameStore

The module is one of the two tables; the constants `First`, `ReadBack` and
`Shared` make it the table of names or that of prefixes. A call is four steps:
lookup (`Hit`, `Miss`), append a line under the lock (`AppendLine`, `AppendFails`),
fill `codeToName` (`PutCode`), fill `nameToCode` and return (`PutName`). Because
`putName` hands its argument to the maps through a field that all threads share,
a thread finds there any mixture of the arguments of the calls that overlap with
its own (`Found`). `ReadBack` is what `open` makes of a line: the name that was
written, but for `_`, which is read as the empty name, and for a namespace with a
semicolon. `raced` and `ambiguous` are history, set by calls that overlap and by
a line that is read back as a name that is already on file.

### Axes

`index` is the content of a searcher and does not change, `chain` is the node a
query is at and the parents it has cached, `iterator` an open axis iterator.
`Query` holds the nine range queries, `SearchAxes` the cases of `iterateAxis`,
`Unsearched` the cases in which `getHits` makes no search, `Found` the parent that
`getXMLIndexNodeInfo` hands to a node, `TextOf` the text node that is made from an
element whose only child is a text. `NextHit`, `NextNull` and `GetLength` may come
in any order.

### SessionPool and SnapshotLeases

| In the module | In the code |
|---|---|
| `isOpen`, `stage`, `OpenStore`, `OpenNames`, `OpenFails`, `CloseStore`, `CloseNames`, `CloseFails` | `XMLIndex.open` and `close`: the node store, the name store, the flag, each of which may be the last thing that happens |
| `writer` | there is an open `IndexWriter`, and it holds `write.lock` |
| `managers`, `content`, `refs` | the current searcher of each `SearcherManager`; what a searcher shows, as a number of writes; its reference count |
| `refresh`, `Begins`, `Ends` | `maybeRefresh` and `maybeRefreshBlocking`: the lock, the reference they hold, the swap, the reference they drop |
| `thread[t]`, `sess[s]`, `pool`, `monitor` | the place a thread is at, the fields of a session, `sessionPool`, the monitor of `XMLIndex` |
| `CommitStart` … `SwitchThrows` | `Session.commit`: the refresh, then release and acquire of the searcher, each of which may throw |
| `AquireCheck`, `AquireEnd`, `AquireThrows`, `Return`, `ReturnCheck`, `ReturnEnd`, `ReturnThrows` | the two synchronized methods and the exceptions that leave them |
| `ReturnAgain` | a caller that returns the session it returned last once more |

Lucene is not under `src/`; its reference counting and refreshing are modelled
from how the code uses them. `twice`, `stolen` and `promised` are history.

`SnapshotLeases` is what a session promises to whoever has it: a view of the
index that nobody else changes, lent to one thread at a time, which shows at
least what every finished commit(true) was asked to show. The mapping leaves out
sessions that were returned twice, whose owner nobody can name any more: for
`SnapshotLeases`, a second return takes the session back from its new owner.

### ExecCache

A call is three steps: look into the cache (`Look`), compile what the file holds
now (`Compile`), store it (`Store`), then run it. Development mode neither looks
nor stores. A text is the number of its version, an executable the text and the
index it was compiled for. `users` is the indexes that used a key, `born` the
number of the last call that had begun when the key was first stored; both are
history.

### WebApp

One step of a request is `getIndex` as far as the decision, the open of the
index (under the monitor), `aquireSession`, or the service with `returnSession`
in its finally block. `CloseBegin`, `CloseSees`, `Close`, `CloseFails` and
`CloseEnd` are `WebContext.close`, whose loop runs over a concurrent map that may
be changed meanwhile. `broken`, `unlucky` and `early` are history.

### Ide

A tab has a path, a text and a mark. Requests and answers are in `flight`, from
which the server takes any (`Handle`, `ReadText`), which loses any (`Fail`), and
from which a text arrives whenever (`OpenDone`). A text is the number of the edit
that made it; 1 is what a file holds when the page is opened, 0 the empty text.
The rest is history. `wish` is what the user last did to a path. `upset` names the
paths of which a request failed or came out of order, `doubled` those that were opened
or created while their text was on its way to a tab, or created under an open tab,
`early` those opened while they were being written. `blank` marks a tab that the
new file dialog made, empty, for a file that has a text, until it is saved. Each
is a fault of the page that a property names as its exception, and none is wider
than the fault: requests for a path that meet in another way excuse nothing.

### FileTree

`model` is jstree's `_model.data`: which folders it knows, whether each is loaded,
loading, failed, open, and its children. An answer goes to the worker with a copy
of the model (`Arrive`), or waits in the queue; `WorkerDone` takes the copy back
(`Merged`), ends `load_node` (`LoadEnds`) and starts the next. `After` is
`load_node` and `open_node` on any set of folders, `Wanted` and `ToLoad` what
`_load_nodes` does to a set of nodes, `PostAndRefresh` the handlers of `ide.js`
that post a change and refresh the folder at once. `Timer` is the repeated
`open_node` of a folder that is loading. `met` and `lost` are history.
`FileTreeAssumption` says that the folders are finite and none is inside itself.

The names are chosen to be other ones than those of `Ide` (`TreeSpec`, `traffic`,
`RemoveItem`, where `Ide` has `Spec`, `flight`, `DeleteItem`), as `IdeProofs`
extends both.

## 4 Runs

| Run | Asks | Instance | States |
|---|---|---|---|
| `races` | which documents may a reader or a restart rely on, at every interleaving | 2 sessions, 2 URIs, documents of two nodes, 4 calls | 931,073 |
| `live` | does what was added become visible, does half a document go away | 2 sessions, 1 URI, documents of two nodes, 3 calls | 34,304 |
| `serial` | do callers that take turns get a map of whole documents | as `races`, without symmetry | 480,617 |
| `numbering` | is every document numbered as its tree | all 35 documents of up to four nodes with blanks, two additions, a depth byte of -5 to 4 | 147,150 |
| `names` | what does a stored name code lead to | 2 threads, 3 names, one of them `_`, 4 calls | 1,849,243 |
| `prefixes` | the same for the table that does not use the shared field | 2 threads, 3 prefixes, 4 calls | 35,886 |
| `axes` | are the axes those of XPath, in every order of calls | every document of up to four nodes and kinds, next to the first 0–3 nodes of another; 220 indexes | 298,462 |
| `lease` | who has a session, which searchers stay open, what is a view worth | 2 threads, 2 sessions, 2 openings, 1 write, 1 double return | 399,237 |
| `cache` | whose and which text runs | 2 threads, 3 indexes, one in development mode, 1 key and the null key, 2 edits, 4 calls | 583,346 |
| `shutdown` | what survives the end of the application | 2 requests at a time, 5 in all, 2 indexes | 74,851 |
| `tabs` | what can the mark of a tab and a save be trusted for | 2 paths with or without a file, 2 edits, 3 requests, 3 tabs | 527,426 |
| `tree` | does the tree show what the server has | 5 folders on three levels, 1 file, 3 requests of the user | 225,962 |

**races** — `IntactDocuments`, `RecoverableCounter`, `LeftIsKey`,
`DescendantsStayInDocument`, `DocumentsAreTrees`, `TypeOK`, each over every image
that a session, a restart, the next commit or the next refresh can see. Two
nodes are enough for an addition to be half done, two documents for one to
disturb the other, two sessions for a call without the monitor to fall into a
call with it; four calls allow add–commit–add–remove, a reindex from a stale
snapshot after numbers were used again, and a restart in between. The exceptions
of the properties are reached on this instance: without any of the sets `torn`,
`damaged`, `ahead` and `shared` in the property that names it, TLC finds a document
that is in it.

**live** — `EventuallySearchable` and `PartialViewIsTemporary` under `FairSpec`:
weak fairness of `Refresh`, because the reopen thread wakes up at least every
`MAX_STALE_SEC` (`NodeStore.open`), and of the thread that is inside `addDocument`,
`reindexNode` or `commit(true)`, because a running Java thread is scheduled. Nothing
is assumed of calls: no session need ever call, commit or be returned, and the
index need never be opened. Symmetry is off, as it is not sound for liveness.

**serial** — `ImplementsDocStore` (refinement of `DocStore`) and
`NoPartialDocument`: neither a commit nor the writer after a call holds part of a
document, whatever failed.

**numbering** — `Laminar` and `ChildInsideParent` at every point of the recursion;
`FinishedIsNumbered`, `ParentIsInnermost`, `DocumentOrder` and `DepthTellsNesting`
when it is done. The last two compare with the tree of the document itself
(`Tree`: the pairs that are in every set closed under the children that are kept),
not with numbers.
Two additions let the second one meet the `userDataMap` and counter that the
first one, finished or failed, has left. Documents of four nodes have all shapes
of siblings and nesting up to depth four, with a blank text at any place.
`DepthTellsNesting` says how far `copy` can be trusted: it closes as many elements
as the depth drops, which is right exactly down to the last level the byte holds.
The byte of the run is smaller than Java's, so that four levels are enough for it
to wrap; nothing else depends on its size. Deadlock is not checked: after
`MaxAdditions` additions the run is over.

**names**, **prefixes** — `CodesResolve` holds however calls overlap;
`CodesKeepMeaning` as long as they do not and no two lines are read back alike;
`MemoryIsOnFile` for prefixes. The three names have different namespaces and
local parts, so that a mixture of two arguments is a fourth name.

**axes** — `AxesPartitionDocument`, `ComparisonAgrees`, `CachedParent`,
`TextStandsForStored`, `LengthTells`, and `AxesFollowTree`, which compares with the
axes as XPath defines them on the tree of the parent numbers (`Tree`: the pairs
that are in every set closed under parents), siblings included. The nodes are elements, elements with a
whitespace-only child, texts and comments; the second document is present in
part because a refresh may show it so. Deadlock is not checked: a walk may end
at a node with nothing to iterate.

**lease** — `CountsExact`, `LeaseExclusive`, `LockedOutForGood`, and
`ImplementsLeases`, the refinement of `SnapshotLeases`. Two openings let a session
outlive the searcher manager it came from and be returned to the next one; one
write tells a fresh view from a stale one; one double return, with two threads
and two sessions, lets the session be acquired by another thread in between. One
case needs a third thread: a refresh that ends after the current searcher was
released once too often (the second disjunct of `CommitThrows`), which the proofs
cover. Deadlock is not checked: an index may be locked out for good.

**cache** — `CompiledForItsIndex`, `DevelopmentIsFresh`, and the action property
`CacheIsSettled`. The first says what a key that two indexes use leads to: either
may run what the other compiled, but nothing of an index that did not use the key;
with one user, or outside the cache, a call runs what is its own index's. Four calls are enough for two to miss at the same time and for
two more to find what they stored; two edits for both to have different texts.
One of the indexes is in development mode and shares the key with two that are
not. Deadlock is not checked: the calls are bounded.

**shutdown** — `OpensFindNoLock`, `SessionsComeBack`, `ClosedAfterClose`. Two
requests meet in `getIndex`, in the first open and at the close; five in all are
enough for a first one to fill the table, one to be served over the close and one
to come after it.

**tabs** — `SavedIsStored`, `UnmarkedIsStored`, `OneTabPerPath`. Three requests allow
two saves of a path to be exchanged while the other path is opened, three tabs
two of one path beside one of the other; a file may have a text, be empty or be
missing at first. Each of the exceptions (`upset`, `doubled`, `early`, `blank`) was
checked to be reached: without it the run ends in a violation.

**tree** — `TreeFollowsServer` and `LoadingEnds`, under `FairTreeSpec`: what is under way
is answered or fails, and a worker that runs ends. The formula is that of
`WF_vars(Answers)` with ENABLED written out, as `Answers` is enabled exactly when
something is under way or the worker has something to do. The user and the
timers are under no obligation. The shape of the tree makes the cases of jstree
happen: folders below each other for a refresh that reloads a subtree, beside
each other for two answers that need the worker at the same time. The safety
property was also checked, outside the runs for its size, with two files and
folders in which a file lies on each of three levels (5.1 million states), and the
parts of the invariant that its proof uses on this instance and a smaller one.

All bounds are constants (`MaxCalls`, `MaxAdditions`, `DepthLimit`, `MaxOpens`,
`MaxWrites`, `MaxMistakes`, `MaxEdits`, `MaxArrivals`, `MaxRequests`, `MaxTabs`,
`MaxSent`), and so are the sets of documents, names, indexes, threads and paths.

## 5 Proofs

| Module | Theorems |
|---|---|
| `NodeStoreProofs` | `TypeCorrect`, `DocumentsIntact`, `CounterRecoverable`, `LeftNumberIsKey`, `DescendantsInDocument`, `DocumentsStayTrees`, `NothingPartial`, `StoreImplementsDocStore` |
| `NodeNumberingProofs` | `TypeCorrect`, `IntervalsLaminar`, `ChildrenInside`, `ParentsAreInnermost`, `FinishedDocuments`, `DocumentInOrder`, `DepthInvariant`, `DepthOfNesting` |
| `NameStoreProofs` | `TypeCorrect`, `CodesAlwaysResolve`, `PrefixesOnFile`, `CodesKeepTheirMeaning` |
| `AxesProofs` | `AxesPartition`, `AxesAreXPaths`, `ComparisonsAgree`, `ParentsAreCached`, `LengthIsTold`, `TextStands` |
| `SessionPoolProofs` | `CountsStayExact`, `LeasesAreExclusive`, `LockedOutStays`, `PoolImplementsLeases` |
| `ExecCacheProofs` | `OwnIndexRuns`, `DevelopmentRunsFresh`, `CacheSettles` |
| `WebAppProofs` | `LockIsFree`, `NoSessionLeaks`, `CloseCloses` |
| `IdeProofs` | `SavedStays`, `UnmarkedStays`, `OneTabStays`, `TreeFollows` |

Each is `Spec => []P` (or `Spec => P` where `P` is an action property or a
refinement) for the property of the run of that module, for any number of
documents, nodes, sessions, threads, indexes, tabs, folders and calls. Each module
proves an inductive invariant `IInv` (initially, preserved by each action in a
lemma or step of its own, and by stuttering) and derives the properties from it.
Where a property needs much more than the others of its module there is a second
one on top of it: `NumbersInv`, `TreesInv` and `SerialInv`, `WInv` and `DepthInv`, `KInv`, and `TreeInv` for
the other half of the IDE.

**NodeStoreProofs.** `IntactDocuments` alone is not inductive. The writer is *not*
intact during an addition or between the two writes of a reindex: `WriterIntact`
says precisely how far it is. And the counter in memory runs ahead of the stored one
by exactly the document being added (`Counters`), which is what makes a failure
after a commit harmless. `IInv` says that the writer is as `op` tells and that the
three other kinds of image are intact. The only assumption on documents is
`TreesAssumption`: they are `Numbered`, which `FinishedDocuments` proves of what the
indexer makes.

`RecoverableCounter`, `LeftIsKey` and `DescendantsStayInDocument` are about
half-written documents and those that lost nodes as well, so their invariant,
`NumbersInv`, speaks of nodes and not of documents. `Placed`: a node lies at or behind
the first number of its document. `Compatible`: two nodes of one document are apart or
nested, of two documents one ends before the other document begins. `Below`: all
nodes are below the next number that is given out, and below the stored counter
but for those of documents that are ahead. A new document is then apart from all
others because it starts beyond them, however many of its nodes get written; a
restart moves the documents that are ahead to the ones that are shared, and only
for those is nothing said. That intervals nest in a document of the store, not only in one the
indexer made, is `VersionNested`.

`DocumentsAreTrees` is about the torn documents too, of which a searcher has the first
nodes only: every prefix of a document is a tree (`PrefixTree`), and between the
two writes of a reindex the nodes are a tree together with the one that is missing
(`TreesInv`).

For `SerialNodeStore`, `SerialInv` says that without `Error`, stale reindex and
interference nothing is ever harmed, that writer and disk are equal while the
index is closed, and that the version of a document that is being added is newer
than any in the index. Then the nodes of an image say exactly which versions it
has (`AsRead`: what `Documents` reads off the nodes is what the calls left), so
that the refinement can be proved step by step on versions (`RefineStep`) and
carried over to nodes. The addition is the one long operation: its first step is a
`Call` of `DocStore` that makes the old document disappear, the write of the last
node the `Appear` of the new one, and the steps between them are none.

**NodeNumberingProofs.** `Laminar` speaks of nodes that are done; the invariant
must speak of the calls in progress. `ProgressInv`: a node is numbered exactly
when its parent has passed it. `CounterInv`: the nodes on the stack have
increasing left numbers and every number is below the counter. `IntervalInv`: what
starts inside a complete interval is complete and ends inside. `EdgeInv`: a child
starts inside its parent. Old entries of `userDataMap` do not matter because the
invariant only speaks of `numbered`. The assumptions are `ForestAssumption`, that
XML documents are forests whose document element is not a text, and
`BoundsAssumption`.

What was *written* needs the second recursion, `indexNode`, to follow the first.
`KinInv`: every numbered node but the root is a child of a numbered node, of two
siblings the earlier one ends before the later one starts, and what is around a
child is its parent or around it, which gives `ParentIsInnermost`. `CountInv`: from
the first number of the document on, the counter has moved by one for each node
that was entered and one for each that was left, so that a document that is
done has used exactly two numbers for each node. `WrittenInv`: the nodes written
are numbered ones, in the order of their left numbers, each after its parent and
with its left number, and a child of a written node is written or still to come.
`WalkInv`: what is still to come has higher numbers than all that is written. When
the walk is over nothing is to come, so the nodes written are the nodes numbered,
and `FinishedIsNumbered` follows by counting them.

`DocumentOrder` and `DepthTellsNesting` speak of the tree of the document, which is
defined without numbers, so the proofs must connect the two. `TreeIsNesting`: a
finished node is at or below another exactly if its interval is inside; one way
the nodes inside an interval are a set closed under children, the other way the
node with the smallest left number that is inside but not reached would have a
parent that is reached (`ParentWithin`, `Leftmost`). `LeftsInOrder`: if neither of two
nodes is around the other, the last node around both has two children that
separate them, and siblings are numbered in order. The depth needs an invariant
of its own, `DepthInv` (a child's depth is its parent's plus one, as a byte), and
`Levels`, that the level of a child is its parent's plus one, as the nodes around
it are those around its parent and the child itself. So the depth is the level as
long as the level fits (`DepthIsLevel`, again by the leftmost node for which it is
not), and where it does not fit no byte can be equal to it.

**NameStoreProofs.** `Pending` says that the line of a thread that is filling the
maps is on file already, `Covered` that codes in use are on file and in
`codeToName`; the order of the three writes in `putName` is what preserves them.
`PrefixesOnFile` adds `OnFile`, under the hypothesis that the table does not use
the shared field and that lines are read back as written. The assumption is
`NamesAssumption`.

`CodesKeepMeaning` needs the maps themselves. As long as no calls have overlapped
and no line was ambiguous (`KInv`), the only call has the argument it began with
in the shared field (`AloneInv`), the code of a line is its place and no two lines
are read back alike (`Placed`), the two maps are inverse to each other and say what
the lines say (`MapsInv`), so that the size of `nameToCode` is the number of
lines and the next code is free, and what was handed out has its line
(`GivenInv`). The line that is written but not yet in the maps is the exception
that `InMemory` and `CallInv` make. `NamesAssumption` says that the names of `First`
are read back differently, as those the code enters in a new index are.

**AxesProofs.** The invariant is short (`index \in Indexes`, types, cached parents,
what `length` was set to); the work is in lemmas about well-formed indexes:
which nodes an interval contains, that siblings are told by left numbers, and
that the stored text and the one made on the fly are at the same place.

For `AxesFollowTree`, `TreeIsNesting` shows that the tree of the parent numbers is
the nesting of the intervals: of the nodes inside an interval that the parents of
a node reach, the one with the smallest left number has the outer node for its
parent. `UpOfChild` and `SameParent` say of the nodes above a node what the child and
sibling queries say by one number, and `VerticalAxes`, `HorizontalAxes`, `SiblingAxes`
and `ChildAxis` take the nine ranges one by one. The assumption is
`IndexesAssumption`, of the indexes, and `MaxLongAssumption`.

**SessionPoolProofs.** A count can only be exact if one knows who is about to
change it. `CountedOK` says that an open session holds a reference but for the
moment between release and acquire in its own commit, and that a closed one holds
none; `LeaseExclusive` is part of the invariant because that thread must be the
only one. `PlacesOK` ties the place of a thread to what it has: a session that is
being returned again is in `twice`, a refresh is only held by a thread in commit.
The lemmas on counts (`TakenCounts`, `ReleasedCounts`, `BegunCounts`, `EndedCounts`,
`OpenedCounts`) are about the cardinalities of the three sets of references.
`ShowsOK` orders what searchers show: nothing shows more than the current one,
what commits have promised is no more than that, and a refresh under way will
show no less; it is what makes `Lend` and `Show` of `SnapshotLeases` possible.
The refinement maps each action to a step (`WriteStep`, `AskStep`, `LendStep`,
`ShowStep`, `TakeBackStep`) or to none (`QuietStep`); `HolderFacts` replaces the
`CHOOSE` of the mapping by the one thread a session is lent to. The assumption is
`PoolAssumption`.

**ExecCacheProofs.** What a call has compiled is of its own index and not older
than the call (`OwnIsGood`), what is cached was compiled by a user of the key
(`CachedByUser`), so what a call runs is its own or that of a user of the same key
(`RunIsGood`). `OwnIndexRuns` is `CompiledForItsIndex` and what follows for the only
user of a key, that it runs what was compiled for its own index. For `CacheIsSettled`, a call that compiles although its key is in
the cache began before the key was there (`RacersAreOld`). The assumption is
`ExecCacheAssumption`.

**WebAppProofs.** The request that opens an index is alone in the monitor and its
index is known to nobody (`OneOpens`), a lock belongs to an index in the table or
to a failed open (`LocksAreKnown`), and of the indexes that were there when close
began those it is done with are closed (`EarlyAreClosed`). The assumption is
`WebAppAssumption`.

**IdeProofs.** `SavedIsStored` speaks of a path with nothing under way; the
invariant must speak of what is under way. `WishFrom`: the wish of the user is
what the file will be when the requests are dealt with in the order of their
sending, so that the last save or deletion decides, or else the file as it is, and
a creation that was sent after it makes the file if there is none. `OneTab` adds
to `OneTabPerPath` that a path with a text on its way has no tab and no other text
on its way, without which `OpenDone` would make a second tab. `UnmarkedOK` says of
tabs without the mark that are not `blank`, and of texts on their way, that they are
as the user wishes; it adds that a text and a write of one path are under way
together only if the user deleted the file after asking for it, and needs the
other two. The assumption is `IdeAssumption`.

`TreeFollowsServer` speaks of a tree at rest; `TreeInv` must say what is under way.
`PostAlone`: where no requests have met, a write to a folder that has not been dealt
with has no listing of the folder to meet, and none of the folder around it that
could take the folder away. `AnswersTell`: a listing that was made, on its way, in
the queue or with the worker, has what the server has, for only a write could make
it old and that would have met it. `ModelsFollow`: a folder with nothing under way
is as the server has it if it is loaded, in the model of jstree and also in the copy
that the worker was given, which is what makes it safe to take that copy back.
A write is followed by a refresh of the folder, which loads it again
(`RefreshLoads`), as `_load_nodes` leaves out only folders below another one that is
loaded; here the folders must not be inside themselves. `QueueOK`: nothing waits
for a worker that has nothing to do. The assumption is `FileTreeAssumption`.

**Only model-checked.** `EventuallySearchable`, `PartialViewIsTemporary` and
`LoadingEnds` are liveness under fairness, which is out of the prover's reach. Every
other property of the runs is a theorem. No module declares a recursive operator:
the trees that properties compare with are defined by closed sets, so that an
induction over a tree becomes one over the left numbers of its nodes, for which
the least element of a set of naturals (`Smallest`) is enough.

## 6 What the models showed

Facts about the code that the models make precise. No doc, comment or test of the
repository says otherwise, so none is listed as a disagreement.

Storage:

* A commit during another session's addition, followed by a crash, leaves the
  first nodes of a document in the index for good. Every node there has its
  parent (`DocumentsAreTrees`), and the next addition of the same URI removes them.
  Until then their numbers are in use and are given out again, as the counter was
  not stored with them: range queries and reindexing of the documents that are
  added next meet nodes of the old one.
* The same happens to a document that was written completely if the commit falls
  between its last node and `storeNodeCounter` (`NodeStore.java:155`): it is whole
  (`IntactDocuments`) and its numbers are used twice (`RecoverableCounter`, `LeftIsKey`
  and `DescendantsStayInDocument` except it). A close of the index at that moment
  has the same effect without a crash. Once the counter is stored no commit does.
* A removal during an addition of the same URI leaves the later nodes without
  the earlier ones.
* An `Error` out of `indexNode` leaves the nodes and the counter: the numbers are
  lost, not used twice, until a restart reads back the stored counter and gives
  the numbers of the torn document out again. It is that document alone that may
  then share numbers with others (`LeftIsKey`).
* A name can get two codes if calls overlap, and after that the size of the map
  is no longer the next free code. The indexer's monitor prevents this;
  `Session.putName` is open to callers without it. The name `_` gets a new code
  after each restart, as its line is read back as the empty name.
* `getLength` of descendant-or-self below an element without children says 1
  before the first `next` although the iterator returns nothing.
* The text made from an element has no `docRight`, so its following axis is empty,
  while that of the stored text node is not.
* The following-sibling axis of a document element leads to the elements of the
  other documents, its following axis ends with its own document.
* The parent of a document element is the document node by `getParent` (the code
  tests the same condition twice) and the root element if the node was reached
  by the child axis.

Sessions, caches and the context:

* If the name store fails to open, the node store stays open and locked. `close`
  does nothing as the index is not open, and every later `open` fails on the lock:
  the index is out of use until the process ends (`LockedOutForGood`).
* A session that is returned twice is twice in the pool, which is harmless as
  long as nobody has it: `Session.open` refuses it the second time. If another
  thread has it, the second return closes it under that thread. If that falls
  between the release and the acquire in that thread's commit, the searcher is
  released once too often; if it is the current one, Lucene closes it under its
  manager, and every later acquire throws until the index was closed and opened
  again.
* The ad hoc functions pass null as the key. In production mode, the default,
  `ConcurrentHashMap.put` throws (`Session.java:157` and `:201`), so Run and Explain of
  the IDE fail after they have compiled.
* Of two calls that miss the cache at the same time the one that stores last
  wins, also with the older text. After that nothing replaces it but a restart.
* Two indexes that use the same key run what either of them compiled, so also with
  the functions and the configuration of the other one (`CompiledForItsIndex`).
* `WebContext.getIndex` does not ask whether the context or the index is open. An
  index that was closed stays in the table; one that is looked up after `close`
  is opened and keeps its lock. An index that fails to close ends the loop.
  `returnSession` in a finally block throws if the index was closed meanwhile.

IDE:

* Alt-Backspace discards a changed tab without asking. A save removes the mark
  whether it succeeds or not.
* Two opens of a file before the first text arrives make two tabs, whose saves
  overwrite each other, and so does creating a file whose text is on its way or
  in a tab.
* A file opened while a save of it is under way may come with the text before the
  save, in a tab without a mark.
* Create with the name of a file that exists opens an empty tab without a mark
  (`ide.js:73`); `createfile` (`ide.xqm:147`) leaves the file alone, and nobody is told.
  Closing the tab does no harm, but saving it replaces the whole text by what was
  typed into the empty tab.
* The listing that follows a creation or deletion races it: the tree may keep a
  deleted file, or miss a new one, until the next refresh. A refresh of the root
  does nothing, nor does one of a folder that is loading.
* jstree takes back the copy of the model it gave its worker. A folder whose
  listing fails meanwhile is loading in the copy, so it loads for ever and no
  refresh loads it again.

## 7 What is not modelled

* Failing I/O of Lucene itself, and a name store line written in part.
* The content of nodes: values, typed values, attributes, namespaces, virtual
  attributes. An exception while one of them is computed is modelled.
* A call that is inside `addDocument` while the index is closed *and opened again*;
  in `NodeStore` a call that a close interrupts fails.
* In `Axes`: node tests, the attribute and namespace axes, the order of hits, and
  a searcher that is replaced by `commit(true)` while an iterator is open.
* In `SessionPool`: a session that two threads use at once without returning it,
  two threads that open and close the index, and a session returned to an index
  it did not come from. No caller in the repository does any of these.
* `reloadConfig`: it replaces an immutable object, and an addition may see the
  old one for some nodes and the new one for others; which fields a node then has
  is content.
* `addDocuments`: a loop of additions that logs what fails; each is in `NodeStore`.
* `copy` but for the depth it relies on: it keeps no state.
* Document order by `DocumentOrderCollector`: the left number as a float. Above
  2^24 neighbouring numbers are equal, and which comes first is up to Lucene.
* The optimizer and `QueryConstructor`: they translate between the expression
  trees of Saxon and the queries of Lucene. Whether a translation is right depends
  on the meaning of both, which a model here would have to assume.
* The compiled RESTXQ modules of the servlets, which are made under one more
  monitor that is always taken first.
* Of the IDE: run, explain, uploads and the creation of an index, which write
  whatever comes to one panel; of jstree: selection, drawing and plugins.
* Third-party code that is in the repository as it was published: CodeMirror with
  its modes, jquery, jquery-ui, jquery-layout, jstree but for what is said above,
  the EXPath and HTTP libraries, `FileServlet`. It is all but some 480 lines of the
  JavaScript.
* The Lucene codec, the spatial plugin (geometry), and stateless utilities.

## 8 Plan and history

In this order: `IndexTree`, `NodeStore` with `DocStore`, `NodeNumbering`,
`NameStore`, `Axes`; then `SessionPool` with `SnapshotLeases`, `ExecCache`, `WebApp`,
`Ide`, `FileTree`; each with its run and its proofs. The
order was that of importance: what is stored, how it is found, who may use it,
what runs on it, how it is served and edited.

What could follow:

1. the optimizer, against a small semantics of comparisons: the side of the
   constant, negation, empty sequences;
2. a call that is inside `addDocument` while the index is closed and opened again,
   which takes a `NodeStore` with more than one writer.

## 9 How to run

```
tlc -workers 2 -config MCNodeStore_races.cfg MCNodeStore
tlapm NodeStoreProofs.tla
```

and likewise for the other rows of `PROJECT.json` "runs" and the other `Proofs`
modules. Every run ends within three minutes, every proof
module within six.
