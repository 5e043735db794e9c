------------------------- MODULE RepositoryPipeline -------------------------
(***************************************************************************)
(* The life of a repository (backend/repository/api.py): a folder under    *)
(* .codexa/repos, its nodes and edges in the in-memory graph               *)
(* (backend/graph), its records in the memory store and its generated      *)
(* docs.  Each request runs in a thread of its own; only load takes the    *)
(* lock of its folder, and it picks the folder before it takes the lock.   *)
(*                                                                         *)
(* A tree is a set of source files; each file is one node, and importer    *)
(* imports imported when both are there.  Of the digest one anchored and   *)
(* one unanchored fact are kept; the load event, routes, commits and       *)
(* coupling are more of the same.                                          *)
(***************************************************************************)
EXTENDS MemoryRecords, Sequences

CONSTANTS
  MaxEvents,    \* bound: requests, each in a thread of its own, and crashes
  Urls,         \* canonical clone URLs
  Folders,
  Candidates,   \* per URL the folder names _destination tries, in order
  Local,        \* origin and recorded URL ("") of a project made here
  None,
  Requests,     \* the kinds of requests made
  MaxBusy,      \* bound: requests under way at once
  MaxEdits      \* bound: edits of a working tree

ASSUME PipelineAssumption ==
  /\ Candidates \in [Urls -> Seq(Folders) \ {<<>>}]
  /\ Local \notin Urls /\ None \notin Urls
  /\ MaxEvents \in Nat /\ None \notin 0 .. MaxEvents
  /\ MaxBusy \in Nat \ {0} /\ MaxEdits \in Nat

VARIABLES
  disk,      \* the folders
  tmp,       \* temporary clones, as <<folder, thread>>
  lock,      \* _LOAD_LOCKS: holder of each folder's lock
  graph,     \* per folder: node ids by stable id, and edges
  records,   \* the memory store
  docs,      \* _docs_cache: per folder the tree it describes
  thread,    \* the requests
  mixed,     \* history: threads that have not had the server to themselves
  edits, crashes

vars == <<disk, tmp, lock, graph, records, docs, thread, mixed, edits, crashes>>

Paths == {"importer", "imported"}
Origins == Urls \cup {Local, None}
Threads == 1 .. MaxEvents
Boot == 0      \* the rehydration thread of a restarted server
All == Threads \cup {Boot}

Absent == [state |-> "absent", origin |-> None, meta |-> None, tree |-> {}]
Checkout(u) == [state |-> "ok", origin |-> u, meta |-> None, tree |-> Paths]
EmptyGraph == [nodes |-> [s \in {} |-> None], edges |-> {}]
Idle == [op |-> "none", url |-> None, at |-> None, pc |-> "idle", tree |-> {}, already |-> FALSE,
         ids |-> [p \in {} |-> None], found |-> {}, todo |-> {}]

TypeOK ==
  /\ disk \in [Folders -> [state : {"absent", "broken", "ok"}, origin : Origins,
                           meta : Origins, tree : SUBSET Paths]]
  /\ tmp \subseteq Folders \X All
  /\ \A f \in Folders : lock[f] # None =>       \* released however the load ends
       thread[lock[f]].op = "load" /\ thread[lock[f]].at = f
  /\ DOMAIN graph = Folders /\ DOMAIN thread = All
  /\ \A f \in Folders : docs[f] \in (SUBSET Paths) \cup {None}
  /\ mixed \subseteq All /\ edits \in 0 .. MaxEdits /\ crashes \in 0 .. MaxEvents

-----------------------------------------------------------------------------
(* Folders                                                                 *)

Exists(f) == disk[f].state # "absent"

\* _is_healthy_clone: HEAD resolves, in this folder.  A project made here has
\* no commit yet, so it does not pass.
Healthy(f) == disk[f].state = "ok" /\ disk[f].origin \in Urls

\* _destination: free, already this repository's, or a broken clone
Usable(f, u) ==
  \/ ~Exists(f)
  \/ disk[f].meta = u
  \/ disk[f].meta = None /\ ~Healthy(f)

IsDestination(f, u) ==
  \E i \in DOMAIN Candidates[u] :
    /\ f = Candidates[u][i] /\ Usable(f, u)
    /\ \A j \in 1 .. i - 1 : ~Usable(Candidates[u][j], u)

-----------------------------------------------------------------------------
(* The graph of one folder                                                 *)

RepositoryNode == "repository"
HasGraph(f) == RepositoryNode \in DOMAIN graph[f].nodes

\* add_node: a stable id that is known keeps its node.
WithNodes(g, t, items) ==
  [g EXCEPT !.nodes = [s \in DOMAIN @ \cup items |-> IF s \in DOMAIN @ THEN @[s] ELSE <<t, s>>]]

Live(g) == { g.nodes[s] : s \in DOMAIN g.nodes }

\* What the graph of a tree is when nothing raced
IsExact(g, tree) ==
  /\ DOMAIN g.nodes \ {"health"} = tree \cup {RepositoryNode}
  /\ Cardinality(g.edges) = IF tree = Paths THEN 1 ELSE 0
  /\ \A e \in g.edges : e[1] \in Live(g) /\ e[2] \in Live(g)

-----------------------------------------------------------------------------
(* Memory of one folder                                                    *)

TreeAnchor(tree) == [s \in {"tree"} |-> tree]

Fact(t, f, title, content, source, anchors) ==
  [id |-> <<t, f, title>>, repo |-> f, type |-> "organizational", title |-> title,
   content |-> content, source |-> source, trust |-> FullTrust, count |-> 1,
   valid |-> TRUE, anchors |-> anchors, outdated |-> FALSE]

PersistedDocs(f) == { r \in Listed(records, f, {"organizational"}) : r.source = "docs_cache" }

-----------------------------------------------------------------------------
(* Requests                                                                *)

Events == Cardinality({ t \in Threads : thread[t].pc # "idle" }) + crashes

Busy == { t \in All : thread[t].pc \notin {"idle", "ok", "failed"} }

At(t, pc) == thread' = [thread EXCEPT ![t].pc = pc]
Ends(t, result) == thread' = [thread EXCEPT ![t] = [Idle EXCEPT !.pc = result]]

\* Wrong: no release on the way out
StaysLocked(t) == lock

Unlocked(t) == [f \in Folders |-> IF lock[f] = t THEN None ELSE lock[f]]

\* A failure of a load or an ingestion.  Rehydration goes on with the next
\* folder, every other request reports it; a lock is released either way.
Fails(t) ==
  /\ lock' = Unlocked(t)
  /\ IF t = Boot THEN At(t, "boot") ELSE Ends(t, "failed")

Alone(t) ==
  /\ Cardinality(Busy) < MaxBusy
  /\ mixed' = IF Busy = {} THEN mixed ELSE mixed \cup Busy \cup {t}

Begins(t, op, f, u, pc) ==
  thread' = [thread EXCEPT ![t] = [Idle EXCEPT !.op = op, !.at = f, !.url = u, !.pc = pc]]

\* The folder is chosen here, and the lock taken later.
Load(t, u) ==
  /\ \/ (\A f \in Folders : ~IsDestination(f, u)) /\ Ends(t, "failed")
     \/ \E f \in Folders : IsDestination(f, u) /\ Begins(t, "load", f, u, "lock")
  /\ UNCHANGED <<disk, docs>>

\* create_local_repository: mkdir, which refuses an existing folder; git init
Create(t, f) ==
  /\ IF Exists(f) THEN Ends(t, "failed") /\ UNCHANGED disk
     ELSE /\ disk' = [disk EXCEPT ![f] = [Absent EXCEPT !.state = "ok", !.origin = Local]]
          /\ Begins(t, "create", f, None, "scaffold")
  /\ UNCHANGED docs

\* A repository whose node is in the graph counts as loaded.
Activate(t, f) ==
  /\ IF ~Exists(f) THEN Ends(t, "failed")
     ELSE IF HasGraph(f) THEN Ends(t, "ok")
     ELSE Begins(t, "activate", f, None, "parse")
  /\ UNCHANGED <<disk, docs>>

Delete(t, f) ==
  /\ Begins(t, "delete", f, None, "ungraph")
  /\ UNCHANGED <<disk, docs>>

\* reindex_repository, after an agent's turn or a hand edit that changed files
Reindex(t, f) ==
  /\ IF ~Exists(f) \/ disk[f].meta = None THEN Ends(t, "ok")
     ELSE Begins(t, "reindex", f, None, "clear")
  /\ UNCHANGED <<disk, docs>>

\* repo_docs: from the cache, from memory, or generated
ReadDocs(t, f) ==
  /\ IF docs[f] # None THEN Ends(t, "ok") /\ UNCHANGED docs
     ELSE IF PersistedDocs(f) # {}
       THEN Ends(t, "ok") /\ docs' = [docs EXCEPT ![f] = (CHOOSE r \in PersistedDocs(f) : TRUE).content]
     ELSE IF ~Exists(f) THEN Ends(t, "failed") /\ UNCHANGED docs
     ELSE /\ thread' = [thread EXCEPT ![t] = [Idle EXCEPT !.op = "docs", !.at = f,
                                                !.tree = disk[f].tree, !.pc = "generate"]]
          /\ UNCHANGED docs
  /\ UNCHANGED disk

\* The threads are alike: the next request is that of the first idle one.
Request(t) ==
  /\ thread[t].pc = "idle"
  /\ Events < MaxEvents
  /\ \A s \in Threads : s < t => thread[s].pc # "idle"
  /\ Alone(t)
  /\ \/ "load" \in Requests /\ \E u \in Urls : Load(t, u)
     \/ \E f \in Folders :
          \/ "create"   \in Requests /\ Create(t, f)
          \/ "activate" \in Requests /\ Activate(t, f)
          \/ "delete"   \in Requests /\ Delete(t, f)
          \/ "reindex"  \in Requests /\ Reindex(t, f)
          \/ "docs"     \in Requests /\ ReadDocs(t, f)
  /\ UNCHANGED <<tmp, lock, graph, records, edits, crashes>>

\* An agent's tool, or a save in the editor, adds or removes a file.
Edit(f) ==
  /\ edits < MaxEdits
  /\ disk[f].state = "ok"
  /\ \E p \in Paths : disk' = [disk EXCEPT ![f].tree = IF p \in @ THEN @ \ {p} ELSE @ \cup {p}]
  /\ edits' = edits + 1
  /\ mixed' = mixed \cup Busy
  /\ UNCHANGED <<tmp, lock, graph, records, docs, thread, crashes>>

-----------------------------------------------------------------------------
(* load_repository                                                         *)

\* Wrong: the lock is not waited for
TakesLock(t, f) == lock' = [lock EXCEPT ![f] = t]

Acquire(t, f) == lock[f] = None /\ lock' = [lock EXCEPT ![f] = t]

LockFolder(t) ==
  LET f == thread[t].at IN
  /\ thread[t].pc = "lock"
  /\ Acquire(t, f)
  /\ tmp' = tmp \ ({f} \X All)
  /\ thread' = [thread EXCEPT ![t].pc = IF Healthy(f) THEN "meta" ELSE "clone",
                              ![t].already = Healthy(f) /\ HasRepository(records, f)]
  /\ UNCHANGED <<disk, graph, records, docs, mixed, edits, crashes>>

StartClone(t) ==
  /\ thread[t].pc = "clone"
  /\ tmp' = tmp \cup {<<thread[t].at, t>>}
  /\ At(t, "cloning")
  /\ UNCHANGED <<disk, lock, graph, records, docs, mixed, edits, crashes>>

\* git, with its retries; a temporary clone that somebody swept away is not a
\* healthy one.
FinishClone(t) ==
  LET mine == <<thread[t].at, t>> IN
  /\ thread[t].pc = "cloning"
  /\ \/ mine \in tmp /\ At(t, "swap") /\ UNCHANGED <<tmp, lock>>
     \/ Fails(t) /\ tmp' = tmp \ {mine}
  /\ UNCHANGED <<disk, graph, records, docs, mixed, edits, crashes>>

\* _replace_directory: what is there goes, or goes in part and the load fails.
RemoveOld(t) ==
  LET f == thread[t].at IN
  /\ thread[t].pc = "swap"
  /\ \/ /\ disk' = [disk EXCEPT ![f] = Absent]
        /\ At(t, "rename") /\ UNCHANGED <<tmp, lock>>
     \/ /\ Exists(f)
        /\ \E m \in {disk[f].meta, None} :
             disk' = [disk EXCEPT ![f] = [state |-> "broken", origin |-> None, meta |-> m, tree |-> {}]]
        /\ Fails(t) /\ tmp' = tmp \ {<<f, t>>}
  /\ UNCHANGED <<graph, records, docs, mixed, edits, crashes>>

\* If somebody made the folder meanwhile, shutil.move puts the clone inside it
\* and reports success.
Rename(t) ==
  LET f == thread[t].at IN
  /\ thread[t].pc = "rename"
  /\ tmp' = tmp \ {<<f, t>>}
  /\ \/ /\ <<f, t>> \in tmp
        /\ disk' = IF Exists(f) THEN disk ELSE [disk EXCEPT ![f] = Checkout(thread[t].url)]
        /\ At(t, "meta") /\ UNCHANGED lock
     \/ Fails(t) /\ UNCHANGED disk
  /\ UNCHANGED <<graph, records, docs, mixed, edits, crashes>>

\* The URL is recorded, and an earlier graph dropped if memory knows the name
\* or knew it when the lock was taken.
WriteMeta(t) ==
  LET f == thread[t].at IN
  /\ thread[t].pc = "meta"
  /\ IF ~Exists(f) THEN Fails(t) /\ UNCHANGED disk
     ELSE /\ disk' = [disk EXCEPT ![f].meta = thread[t].url]
          /\ thread' = [thread EXCEPT ![t].url = None, ![t].already = FALSE,
               ![t].pc = IF thread[t].already \/ HasRepository(records, f) THEN "clear" ELSE "parse"]
          /\ UNCHANGED lock
  /\ UNCHANGED <<tmp, graph, records, docs, mixed, edits, crashes>>

\* The rest of create_local_repository
Scaffold(t) ==
  LET f == thread[t].at IN
  /\ thread[t].pc = "scaffold"
  /\ IF ~Exists(f) THEN Fails(t) /\ UNCHANGED disk
     ELSE /\ disk' = [disk EXCEPT ![f].meta = Local, ![f].tree = @ \cup {"importer"}]
          /\ At(t, "parse") /\ UNCHANGED lock
  /\ UNCHANGED <<tmp, graph, records, docs, mixed, edits, crashes>>

-----------------------------------------------------------------------------
(* _ingest                                                                 *)

\* Wrong: a reindex that relies on add_node finding what is there
ClearsNothing(f) == UNCHANGED graph

RemoveGraph(f) == graph' = [graph EXCEPT ![f] = EmptyGraph]

Clear(t) ==
  /\ thread[t].pc = "clear"
  /\ RemoveGraph(thread[t].at)
  /\ At(t, "parse")
  /\ UNCHANGED <<disk, tmp, lock, records, docs, mixed, edits, crashes>>

Parse(t) ==
  /\ thread[t].pc = "parse"
  /\ thread' = [thread EXCEPT ![t].pc = "sweep", ![t].tree = disk[thread[t].at].tree]
  /\ UNCHANGED <<disk, tmp, lock, graph, records, docs, mixed, edits, crashes>>

\* Only an explicit load, a new project or a reindex drops the docs.
DropsDocs(t) == thread[t].op \in {"load", "create", "reindex"}

SweepMemory(t) ==
  LET f == thread[t].at
      swept == Swept(records, f, TreeAnchor(thread[t].tree))
  IN
  /\ thread[t].pc = "sweep"
  /\ records' = IF DropsDocs(t) THEN RemovedFrom(swept, f, {"docs_cache"}) ELSE swept
  /\ docs' = IF DropsDocs(t) THEN [docs EXCEPT ![f] = None] ELSE docs
  /\ At(t, "find")
  /\ UNCHANGED <<disk, tmp, lock, graph, mixed, edits, crashes>>

\* _mem: retire the digest that says something else, then write this one.
FindDigest(t) ==
  /\ thread[t].pc = "find"
  /\ thread' = [thread EXCEPT ![t].pc = "digest",
       ![t].found = { r.id : r \in { x \in Listed(records, thread[t].at, Descriptive) :
                        x.title = "layout" /\ x.content # thread[t].tree } }]
  /\ UNCHANGED <<disk, tmp, lock, graph, records, docs, mixed, edits, crashes>>

WriteDigest(t) ==
  /\ thread[t].pc = "digest"
  /\ records' = Added(Invalidated(records, thread[t].found),
       Fact(t, thread[t].at, "layout", thread[t].tree, "repo_load", TreeAnchor(thread[t].tree)))
  /\ thread' = [thread EXCEPT ![t].pc = "nodes", ![t].found = {}]
  /\ UNCHANGED <<disk, tmp, lock, graph, docs, mixed, edits, crashes>>

AddNodes(t) ==
  LET f == thread[t].at
      g == WithNodes(graph[f], t, thread[t].tree \cup {RepositoryNode})
  IN
  /\ thread[t].pc = "nodes"
  /\ graph' = [graph EXCEPT ![f] = g]
  /\ thread' = [thread EXCEPT ![t].pc = "edges", ![t].ids = [p \in thread[t].tree |-> g.nodes[p]]]
  /\ UNCHANGED <<disk, tmp, lock, records, docs, mixed, edits, crashes>>

\* add_edge refuses a node that is gone; every call adds an edge of its own.
AddEdges(t) ==
  LET f == thread[t].at
      ids == thread[t].ids
      alive == thread[t].tree = Paths => { ids[p] : p \in Paths } \subseteq Live(graph[f])
  IN
  /\ thread[t].pc = "edges"
  /\ \/ /\ alive
        /\ graph' = [graph EXCEPT ![f].edges = @ \cup
             IF thread[t].tree = Paths THEN {<<ids["importer"], ids["imported"], t>>} ELSE {}]
        /\ thread' = [thread EXCEPT ![t].pc = "score", ![t].tree = {}, ![t].ids = Idle.ids]
        /\ UNCHANGED lock
     \/ /\ ~alive
        /\ Fails(t) /\ UNCHANGED graph
  /\ UNCHANGED <<disk, tmp, records, docs, mixed, edits, crashes>>

\* score_repository, the health node and fact, the event: the end of _ingest.
\* Anything from parsing on may also raise.
Finish(t) ==
  LET f == thread[t].at IN
  /\ thread[t].pc = "score"
  /\ graph' = [graph EXCEPT ![f] = WithNodes(@, t, {"health"})]
  /\ records' = Added(records, Fact(t, f, "health", {}, "repo_load", Unanchored))
  /\ lock' = Unlocked(t)
  /\ IF t = Boot THEN At(t, "boot") ELSE Ends(t, "ok")
  /\ mixed' = mixed \ {t}
  /\ UNCHANGED <<disk, tmp, docs, edits, crashes>>

Raise(t) ==
  /\ thread[t].pc \in {"parse", "digest", "score"}
  /\ Fails(t)
  /\ UNCHANGED <<disk, tmp, graph, records, docs, mixed, edits, crashes>>

-----------------------------------------------------------------------------
(* delete, step by step and without a lock                                 *)

DeleteGraph(t) ==
  /\ thread[t].pc = "ungraph"
  /\ RemoveGraph(thread[t].at)
  /\ At(t, "forget")
  /\ UNCHANGED <<disk, tmp, lock, records, docs, mixed, edits, crashes>>

\* Wrong: only what ingestion wrote is forgotten
ForgetsDigest(f) == RemovedFrom(records, f, {"repo_load"})

Forget(f) == Forgotten(records, f)

DeleteMemory(t) ==
  /\ thread[t].pc = "forget"
  /\ records' = Forget(thread[t].at)
  /\ docs' = [docs EXCEPT ![thread[t].at] = None]
  /\ At(t, "unlink")
  /\ UNCHANGED <<disk, tmp, lock, graph, mixed, edits, crashes>>

DeleteFolder(t) ==
  LET f == thread[t].at IN
  /\ thread[t].pc = "unlink"
  /\ \/ disk' = [disk EXCEPT ![f] = Absent] /\ Ends(t, "ok")
     \/ /\ Exists(f)
        /\ \E m \in {disk[f].meta, None} :
             disk' = [disk EXCEPT ![f] = [state |-> "broken", origin |-> None, meta |-> m, tree |-> {}]]
        /\ Ends(t, "failed")
  /\ mixed' = mixed \ {t}
  /\ UNCHANGED <<tmp, lock, graph, records, docs, edits, crashes>>

-----------------------------------------------------------------------------
(* _generate_docs, after the model has answered                            *)

PublishDocs(t) ==
  /\ thread[t].pc = "generate"
  /\ docs' = [docs EXCEPT ![thread[t].at] = thread[t].tree]
  /\ At(t, "persist")
  /\ UNCHANGED <<disk, tmp, lock, graph, records, mixed, edits, crashes>>

PersistDocs(t) ==
  LET f == thread[t].at IN
  /\ thread[t].pc = "persist"
  /\ records' = Added(RemovedFrom(records, f, {"docs_cache"}),
                      Fact(t, f, "docs", thread[t].tree, "docs_cache", Unanchored))
  /\ Ends(t, "ok")
  /\ UNCHANGED <<disk, tmp, lock, graph, docs, mixed, edits, crashes>>

-----------------------------------------------------------------------------
(* A restart: what is in memory is gone, and rehydrate_repositories runs   *)
(* beside the first requests.                                              *)

CrashAndRestart ==
  /\ Events < MaxEvents
  /\ crashes' = crashes + 1
  /\ lock' = [f \in Folders |-> None]
  /\ graph' = [f \in Folders |-> EmptyGraph]
  /\ docs' = [f \in Folders |-> None]
  /\ thread' = [t \in All |->
       IF t = Boot THEN [Idle EXCEPT !.op = "rehydrate", !.pc = "sweep temps"]
       ELSE IF t \in Busy THEN [Idle EXCEPT !.pc = "failed"] ELSE thread[t]]
  /\ mixed' = {Boot}
  /\ UNCHANGED <<disk, tmp, records, edits>>

SweepTemps ==
  /\ thread[Boot].pc = "sweep temps"
  /\ tmp' = {}
  /\ thread' = [thread EXCEPT ![Boot].pc = "boot",
       ![Boot].todo = { f \in Folders : Exists(f) /\ ~HasGraph(f) }]
  /\ UNCHANGED <<disk, lock, graph, records, docs, mixed, edits, crashes>>

NextFolder ==
  /\ thread[Boot].pc = "boot"
  /\ IF thread[Boot].todo = {} THEN Ends(Boot, "ok")
     ELSE \E f \in thread[Boot].todo :
       thread' = [thread EXCEPT ![Boot].pc = IF disk[f].meta # None THEN "parse" ELSE "boot",
                                ![Boot].at = f, ![Boot].todo = @ \ {f}]
  /\ UNCHANGED <<disk, tmp, lock, graph, records, docs, mixed, edits, crashes>>

-----------------------------------------------------------------------------
Loaded(f, u) ==
  LET g == WithNodes(EmptyGraph, Boot, Paths \cup {RepositoryNode, "health"}) IN
  /\ disk = [x \in Folders |-> IF x = f THEN [Checkout(u) EXCEPT !.meta = u] ELSE Absent]
  /\ graph = [x \in Folders |-> IF x = f
       THEN [g EXCEPT !.edges = {<<g.nodes["importer"], g.nodes["imported"], Boot>>}] ELSE EmptyGraph]
  /\ records = { Fact(Boot, f, "layout", Paths, "repo_load", TreeAnchor(Paths)),
                 Fact(Boot, f, "health", {}, "repo_load", Unanchored) }

Init ==
  /\ \/ /\ disk = [f \in Folders |-> Absent]
        /\ graph = [f \in Folders |-> EmptyGraph]
        /\ records = {}
     \/ \E u \in Urls : Loaded(Candidates[u][1], u)
  /\ tmp = {}
  /\ lock = [f \in Folders |-> None]
  /\ docs = [f \in Folders |-> None]
  /\ thread = [t \in All |-> Idle]
  /\ mixed = {} /\ edits = 0 /\ crashes = 0

Step(t) ==
  \/ LockFolder(t) \/ StartClone(t) \/ FinishClone(t) \/ RemoveOld(t) \/ Rename(t)
  \/ WriteMeta(t) \/ Scaffold(t)
  \/ Clear(t) \/ Parse(t) \/ SweepMemory(t) \/ FindDigest(t) \/ WriteDigest(t)
  \/ AddNodes(t) \/ AddEdges(t) \/ Finish(t) \/ Raise(t)
  \/ DeleteGraph(t) \/ DeleteMemory(t) \/ DeleteFolder(t)
  \/ PublishDocs(t) \/ PersistDocs(t)

Next ==
  \/ \E t \in Threads : Request(t)
  \/ \E f \in Folders : Edit(f)
  \/ \E t \in All : Step(t)
  \/ CrashAndRestart \/ SweepTemps \/ NextFolder

\* The scheduler runs every thread; nobody has to make a request.
Spec ==
  /\ Init /\ [][Next]_vars
  /\ \A t \in All : WF_vars(Step(t))
  /\ WF_vars(SweepTemps \/ NextFolder)

-----------------------------------------------------------------------------
\* A healthy clone is only ever removed by delete: a load that fails - the
\* clone, the removal, the move, a crash in between - never costs a checkout
\* that worked, and a second load of the folder never replaces it
\* (load_repository: "a failed clone never touches the existing folder").
ClonesSurviveLoads ==
  [][\A f \in Folders : Healthy(f) /\ ~Healthy(f)' =>
       \E t \in Threads : thread[t].pc = "unlink" /\ thread[t].at = f]_vars

\* Whatever earlier races, failures and restarts left behind, a reindex that
\* has the server to itself makes the graph and the digest those of the
\* folder (jobs.py: "a stale graph is recoverable"; reindex_repository).
ReindexRepairs ==
  [][\A t \in Threads :
       LET f == thread[t].at IN
       (thread[t].op = "reindex" /\ thread[t].pc = "score" /\ thread'[t].pc = "ok" /\ t \notin mixed)
       => /\ IsExact(graph'[f], disk[f].tree)
          /\ \E r \in records' : r.valid /\ r.repo = f /\ r.title = "layout"
          /\ \A r \in records' : r.valid /\ r.repo = f => ~IsStale(r, TreeAnchor(disk[f].tree))
          /\ docs'[f] = None]_vars

\* A delete that succeeds and has the server to itself leaves no trace: no
\* folder, no node, no record of any source, no docs (delete: "Forget a
\* repository entirely").
DeleteForgets ==
  [][\A t \in Threads :
       LET f == thread[t].at IN
       (thread[t].pc = "unlink" /\ thread'[t].pc = "ok" /\ t \notin mixed)
       => /\ disk'[f] = Absent /\ graph'[f] = EmptyGraph /\ docs'[f] = None
          /\ ~HasRepository(records', f)]_vars

\* Not so: "a project the agent created locally is never overwritten".
LocalProjectsAreKept ==
  [][\A f \in Folders : disk[f].origin = Local /\ disk'[f].origin # Local =>
       \E t \in Threads : thread[t].pc = "unlink" /\ thread[t].at = f]_vars
=============================================================================
