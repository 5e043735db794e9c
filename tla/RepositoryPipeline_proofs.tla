-------------------- MODULE RepositoryPipeline_proofs --------------------
(***************************************************************************)
(* What TLAPS proves of RepositoryPipeline: for any URLs, folders and      *)
(* candidates, any number of requests, crashes and edits.                  *)
(*                                                                         *)
(* A step is the work of one thread, so most of the invariant is kept      *)
(* because the other threads are where they were: OneThreadSteps says so   *)
(* once, and an action then answers for its own thread only.  A thread     *)
(* that has had the server to itself answers for everything.               *)
(***************************************************************************)
EXTENDS RepositoryPipeline, FiniteSetTheorems, TLAPS

-----------------------------------------------------------------------------
(* Types                                                                   *)

Rest == {"idle", "ok", "failed"}
Cloning == {"lock", "clone", "cloning", "swap", "rename", "meta"}
Ingesting == {"parse", "sweep", "find", "digest", "nodes", "edges", "score"}
Places == Rest \cup Cloning \cup Ingesting \cup
  {"scaffold", "clear", "ungraph", "forget", "unlink", "generate", "persist", "sweep temps", "boot"}
Ops == {"none", "load", "create", "activate", "delete", "reindex", "docs", "rehydrate"}

Titles == {"layout", "health", "docs"}
RecordIds == All \X Folders \X Titles
NodeNames == Paths \cup {RepositoryNode, "health"}
NodeIds == All \X NodeNames
Nodes == UNION { [S -> NodeIds] : S \in SUBSET NodeNames }
Edges == NodeIds \X NodeIds \X All

Folder == [state : {"absent", "broken", "ok"}, origin : Origins, meta : Origins, tree : SUBSET Paths]
GraphState == [nodes : Nodes, edges : SUBSET Edges]
Anchorings == {Unanchored} \cup { TreeAnchor(tree) : tree \in SUBSET Paths }
Record == [id : RecordIds, repo : Folders, type : {"organizational"}, title : Titles,
           content : SUBSET Paths, source : {"repo_load", "docs_cache"}, trust : Nat, count : Nat,
           valid : BOOLEAN, anchors : Anchorings, outdated : BOOLEAN]
ThreadState == [op : Ops, url : Urls \cup {None}, at : Folders \cup {None}, pc : Places,
                tree : SUBSET Paths, already : BOOLEAN, ids : Nodes, found : SUBSET RecordIds,
                todo : SUBSET Folders]

Typed ==
  /\ disk \in [Folders -> Folder]
  /\ tmp \in SUBSET (Folders \X All)
  /\ lock \in [Folders -> All \cup {None}]
  /\ graph \in [Folders -> GraphState]
  /\ records \in SUBSET Record
  /\ docs \in [Folders -> (SUBSET Paths) \cup {None}]
  /\ thread \in [All -> ThreadState]
  /\ mixed \in SUBSET All
  /\ edits \in 0 .. MaxEdits
  /\ crashes \in 0 .. MaxEvents

-----------------------------------------------------------------------------
(* The inductive invariant                                                 *)

\* Which request may be at which place, and what it has by then
Fits(t) ==
  LET r == thread[t] IN
  /\ \/ r.op = "none"      /\ r.pc \in Rest
     \/ r.op = "load"      /\ r.pc \in Cloning \cup {"clear"} \cup Ingesting
     \/ r.op = "create"    /\ r.pc \in {"scaffold"} \cup Ingesting
     \/ r.op = "activate"  /\ r.pc \in Ingesting
     \/ r.op = "delete"    /\ r.pc \in {"ungraph", "forget", "unlink"}
     \/ r.op = "reindex"   /\ r.pc \in {"clear"} \cup Ingesting
     \/ r.op = "docs"      /\ r.pc \in {"generate", "persist"}
     \/ r.op = "rehydrate" /\ r.pc \in {"sweep temps", "boot"} \cup Ingesting
  /\ IF t = Boot THEN r.op \in {"none", "rehydrate"} ELSE r.op # "rehydrate"
  /\ r.pc \notin Rest \cup {"sweep temps", "boot"} => r.at \in Folders
  /\ r.pc = "edges" => r.ids \in [r.tree -> NodeIds]

\* From the lock to the end of the load
Holds(t) == thread[t].op = "load" /\ thread[t].pc # "lock"

\* A load past the lock has the lock of its folder, and nobody else has one.
Locks ==
  /\ \A t \in All : Holds(t) => lock[thread[t].at] = t
  /\ \A f \in Folders : lock[f] # None => Holds(lock[f]) /\ thread[lock[f]].at = f

\* What a load is about to remove is no healthy clone.
Replaces(t) == thread[t].pc \in {"clone", "cloning", "swap"} => ~Healthy(thread[t].at)

\* A request that has had the server to itself is the only one under way.
Solo == \A t \in Threads : t \in Busy /\ t \notin mixed => Busy = {t}

\* What such a delete has removed so far
DeletedSoFar(t) ==
  LET f == thread[t].at IN
  /\ thread[t].pc \in {"forget", "unlink"} => graph[f] = EmptyGraph
  /\ thread[t].pc = "unlink" => docs[f] = None /\ ~HasRepository(records, f)

ValidOf(f) == { r \in records : r.valid /\ r.repo = f }
Digests(f) == { r \in ValidOf(f) : r.title = "layout" }

\* What such a reindex has made of the graph, the memory and the docs so far
ReindexedSoFar(t) ==
  LET f == thread[t].at
      pc == thread[t].pc
      tree == thread[t].tree
  IN
  thread[t].op = "reindex" =>
    /\ pc \in Ingesting \ {"edges", "score"} => graph[f] = EmptyGraph
    /\ pc \in Ingesting \ {"parse", "score"} => tree = disk[f].tree
    /\ pc \in Ingesting \ {"parse", "sweep"} =>
         docs[f] = None /\ \A r \in ValidOf(f) : ~IsStale(r, TreeAnchor(disk[f].tree))
    /\ pc = "digest" => \A r \in Digests(f) : r.content = tree \/ r.id \in thread[t].found
    /\ pc \in {"nodes", "edges", "score"} => Digests(f) # {}
    /\ pc = "edges" =>
         /\ DOMAIN graph[f].nodes = tree \cup {RepositoryNode}
         /\ graph[f].edges = {}
         /\ \A p \in tree : thread[t].ids[p] = graph[f].nodes[p]
    /\ pc = "score" => IsExact(graph[f], disk[f].tree)

IInv ==
  /\ Typed
  /\ \A t \in All : Fits(t) /\ Replaces(t)
  /\ Locks
  /\ Solo
  /\ \A t \in Threads \ mixed : DeletedSoFar(t) /\ ReindexedSoFar(t)
-----------------------------------------------------------------------------
(* A thread moves                                                          *)

Others(t) == \A s \in All \ {t} : thread'[s] = thread[s]

\* Nothing but the place, and what is named, is different.
Same(t, fields) == \A x \in fields : thread'[t][x] = thread[t][x]

Fields == {"op", "url", "at", "pc", "tree", "already", "ids", "found", "todo"}

LEMMA NoneIsNoThread ==
  None \notin All
BY PipelineAssumption DEF All, Threads, Boot

LEMMA IdleTyped ==
  Idle \in ThreadState
<1>1. Idle.ids \in Nodes
  <2>1. [p \in {} |-> None] \in [{} -> NodeIds]
    OBVIOUS
  <2> QED
    BY <2>1 DEF Idle, Nodes
<1>2. "none" \in Ops /\ "idle" \in Places
  BY DEF Ops, Places, Rest
<1> QED
  BY <1>1, <1>2 DEF Idle, ThreadState

\* An assignment of a whole state of a thread
LEMMA Assigned ==
  ASSUME thread \in [All -> ThreadState], NEW t \in All, NEW r \in ThreadState,
         thread' = [thread EXCEPT ![t] = r]
  PROVE  thread' \in [All -> ThreadState] /\ Others(t) /\ thread'[t] = r
BY DEF Others

LEMMA AtMoves ==
  ASSUME thread \in [All -> ThreadState], NEW t \in All, NEW pc \in Places, At(t, pc)
  PROVE  /\ thread' \in [All -> ThreadState] /\ Others(t)
         /\ thread'[t].pc = pc /\ Same(t, Fields \ {"pc"})
<1> DEFINE r == [thread[t] EXCEPT !.pc = pc]
<1>1. r \in ThreadState /\ r.pc = pc /\ \A x \in Fields \ {"pc"} : r[x] = thread[t][x]
  BY DEF ThreadState, Fields
<1>2. thread' = [thread EXCEPT ![t] = r]
  BY DEF At
<1> HIDE DEF r
<1> QED
  BY <1>1, <1>2, Assigned DEF Same

LEMMA EndsMoves ==
  ASSUME thread \in [All -> ThreadState], NEW t \in All, NEW result \in Rest, Ends(t, result)
  PROVE  /\ thread' \in [All -> ThreadState] /\ Others(t)
         /\ thread'[t].pc = result /\ thread'[t].op = "none"
<1> DEFINE r == [Idle EXCEPT !.pc = result]
<1>1. r \in ThreadState /\ r.pc = result /\ r.op = "none"
  <2>1. result \in Places
    BY DEF Places
  <2>2. Idle.op = "none"
    BY DEF Idle
  <2> QED
    BY <2>1, <2>2, IdleTyped DEF ThreadState
<1>2. thread' = [thread EXCEPT ![t] = r]
  BY DEF Ends
<1> HIDE DEF r
<1> QED
  BY <1>1, <1>2, Assigned

LEMMA BeginsMoves ==
  ASSUME thread \in [All -> ThreadState], NEW t \in All, NEW op \in Ops, NEW f \in Folders,
         NEW u \in Urls \cup {None}, NEW pc \in Places, Begins(t, op, f, u, pc)
  PROVE  /\ thread' \in [All -> ThreadState] /\ Others(t)
         /\ thread'[t].pc = pc /\ thread'[t].op = op /\ thread'[t].at = f
<1> DEFINE A == [Idle EXCEPT !.op = op]  B == [A EXCEPT !.at = f]
           C == [B EXCEPT !.url = u]     D == [C EXCEPT !.pc = pc]
<1>1. thread' = [thread EXCEPT ![t] = D]
  BY DEF Begins
<1>2. A \in ThreadState /\ A.op = op
  BY IdleTyped DEF ThreadState
<1> HIDE DEF A
<1>3. B \in ThreadState /\ B.op = op /\ B.at = f
  BY <1>2 DEF ThreadState
<1> HIDE DEF B
<1>4. C \in ThreadState /\ C.op = op /\ C.at = f
  BY <1>3 DEF ThreadState
<1> HIDE DEF C
<1>5. D \in ThreadState /\ D.op = op /\ D.at = f /\ D.pc = pc
  BY <1>4 DEF ThreadState
<1> HIDE DEF D
<1> QED
  BY <1>1, <1>5, Assigned

\* A failure gives up the lock and ends, and rehydration goes on.
LEMMA FailsMoves ==
  ASSUME Typed, NEW t \in All, Fails(t)
  PROVE  /\ thread' \in [All -> ThreadState] /\ Others(t)
         /\ lock' = Unlocked(t) /\ lock' \in [Folders -> All \cup {None}]
         /\ \/ t = Boot /\ thread'[t].pc = "boot" /\ Same(t, {"op"})
            \/ thread'[t].pc = "failed" /\ thread'[t].op = "none"
<1>1. thread \in [All -> ThreadState] /\ lock \in [Folders -> All \cup {None}]
  BY DEF Typed
<1>2. lock' = Unlocked(t) /\ lock' \in [Folders -> All \cup {None}]
  BY <1>1 DEF Fails, Unlocked
<1>3. CASE t = Boot
  <2>1. At(t, "boot") /\ "boot" \in Places
    BY <1>3 DEF Fails, Places
  <2>2. Same(t, Fields \ {"pc"}) /\ "op" \in Fields \ {"pc"}
    BY <1>1, <2>1, AtMoves DEF Fields
  <2> QED
    BY <1>1, <1>2, <1>3, <2>1, <2>2, AtMoves DEF Same
<1>4. CASE t # Boot
  <2>1. Ends(t, "failed") /\ "failed" \in Rest
    BY <1>4 DEF Fails, Rest
  <2> QED
    BY <1>1, <1>2, <2>1, EndsMoves
<1> QED
  BY <1>3, <1>4

-----------------------------------------------------------------------------
(* A step of one thread                                                    *)

\* What it may do to the locks
LockStep(t) ==
  \/ lock' = lock /\ Same(t, {"op", "at"}) /\ (Holds(t)' <=> Holds(t))
  \/ lock' = lock /\ thread[t].op # "load" /\ ~Holds(t)'
  \/ lock' = Unlocked(t) /\ ~Holds(t)'
  \/ /\ lock[thread[t].at] = None /\ lock' = [lock EXCEPT ![thread[t].at] = t]
     /\ Same(t, {"op", "at"}) /\ Holds(t)'

LEMMA LocksKept ==
  ASSUME Typed, Locks, NEW t \in All, Others(t), LockStep(t),
         \A s \in All : Holds(s) => thread[s].at \in Folders,
         Holds(t)' => thread'[t].at \in Folders
  PROVE  Locks'
<1> USE NoneIsNoThread
<1>0. lock \in [Folders -> All \cup {None}] /\ t # None
  BY DEF Typed
<1>1. \A s \in All \ {t} : (Holds(s)' <=> Holds(s)) /\ thread'[s] = thread[s]
  BY DEF Others, Holds
<1>2. CASE lock' = lock /\ Same(t, {"op", "at"}) /\ (Holds(t)' <=> Holds(t))
  <2>1. thread'[t].at = thread[t].at
    BY <1>2 DEF Same
  <2> QED
    BY <1>0, <1>1, <1>2, <2>1 DEF Locks
<1>3. CASE lock' = lock /\ thread[t].op # "load" /\ ~Holds(t)'
  <2>1. ~Holds(t)
    BY <1>3 DEF Holds
  <2> QED
    BY <1>0, <1>1, <1>3, <2>1 DEF Locks
<1>4. CASE lock' = Unlocked(t) /\ ~Holds(t)'
  <2>1. \A f \in Folders : lock'[f] = IF lock[f] = t THEN None ELSE lock[f]
    BY <1>4 DEF Unlocked
  <2>2. ASSUME NEW s \in All, Holds(s)' PROVE lock'[thread'[s].at] = s
    <3>1. s # t /\ Holds(s) /\ thread'[s] = thread[s] /\ lock[thread[s].at] = s
      BY <1>1, <1>4, <2>2 DEF Locks
    <3>2. thread[s].at \in Folders
      BY <3>1
    <3> QED
      BY <2>1, <3>1, <3>2
  <2>3. ASSUME NEW f \in Folders, lock'[f] # None PROVE \E s \in All : lock'[f] = s /\ Holds(s)' /\ thread'[s].at = f
    <3>1. lock'[f] = lock[f] /\ lock[f] \in All \ {t}
      BY <1>0, <2>1, <2>3
    <3> QED
      BY <1>1, <2>3, <3>1 DEF Locks
  <2> QED
    BY <2>2, <2>3 DEF Locks, Holds
<1>5. CASE /\ lock[thread[t].at] = None /\ lock' = [lock EXCEPT ![thread[t].at] = t]
           /\ Same(t, {"op", "at"}) /\ Holds(t)'
  <2>1. thread'[t].at = thread[t].at /\ thread[t].at \in Folders
    BY <1>5 DEF Same
  <2>2. lock'[thread[t].at] = t /\ \A f \in Folders \ {thread[t].at} : lock'[f] = lock[f]
    BY <1>0, <1>5, <2>1
  <2>3. ASSUME NEW s \in All, Holds(s)' PROVE lock'[thread'[s].at] = s
    <3>1. CASE s = t
      BY <2>1, <2>2, <3>1
    <3>2. CASE s # t
      <4>1. Holds(s) /\ thread'[s] = thread[s] /\ lock[thread[s].at] = s /\ thread[s].at \in Folders
        BY <1>1, <2>3, <3>2 DEF Locks
      <4>2. thread[s].at # thread[t].at
        BY <1>5, <4>1
      <4> QED
        BY <2>2, <4>1, <4>2
    <3> QED
      BY <3>1, <3>2
  <2>4. ASSUME NEW f \in Folders, lock'[f] # None PROVE \E s \in All : lock'[f] = s /\ Holds(s)' /\ thread'[s].at = f
    <3>1. CASE f = thread[t].at
      BY <1>5, <2>1, <2>2, <3>1
    <3>2. CASE f # thread[t].at
      <4>1. lock'[f] = lock[f] /\ lock[f] \in All /\ Holds(lock[f]) /\ thread[lock[f]].at = f
        BY <1>0, <2>2, <2>4, <3>2 DEF Locks
      <4>2. lock[f] # t
        BY <3>2, <4>1
      <4> QED
        BY <1>1, <4>1, <4>2
    <3> QED
      BY <3>1, <3>2
  <2> QED
    BY <2>3, <2>4 DEF Locks, Holds
<1> QED
  BY <1>2, <1>3, <1>4, <1>5 DEF LockStep

\* A healthy clone stays one, unless it goes.
HealthStep == \A f \in Folders : Healthy(f)' => Healthy(f)

Answers(t) == DeletedSoFar(t) /\ ReindexedSoFar(t)

\* The work of one thread keeps the invariant if that thread answers for itself:
\* the others are where they were, and none of them had the server to itself.
LEMMA OneThreadSteps ==
  ASSUME IInv, NEW t \in All, thread[t].pc \notin Rest,
         Others(t), Typed', Fits(t)', Replaces(t)', LockStep(t),
         \/ HealthStep
         \/ Holds(t) /\ \A f \in Folders \ {thread[t].at} : Healthy(f)' => Healthy(f),
         \/ mixed' = mixed
         \/ mixed' = mixed \ {t} /\ (t = Boot \/ thread'[t].pc \in Rest),
         t \in Threads \ mixed' => Answers(t)'
  PROVE  IInv'
<1>1. Busy' \subseteq Busy /\ t \in Busy /\ \A s \in All : s \in Busy <=> thread[s].pc \notin Rest
  BY DEF Busy, Rest, Others
<1>2. Threads \subseteq All /\ Boot \notin Threads
  BY DEF All, Threads, Boot
<1>3. \A s \in All \ {t} : thread'[s] = thread[s]
  BY DEF Others
<1>4. \A s \in All : Holds(s) => thread[s].at \in Folders
  BY DEF IInv, Fits, Holds, Cloning, Ingesting, Rest
<1>5. Holds(t)' => thread'[t].at \in Folders
  BY DEF Fits, Holds, Cloning, Ingesting, Rest
<1>6. Locks'
  BY <1>4, <1>5, LocksKept DEF IInv
<1>7. ASSUME NEW s \in All \ {t} PROVE Fits(s)' /\ Replaces(s)'
  <2>1. Fits(s)'
    BY <1>3 DEF IInv, Fits
  <2>2. ASSUME thread'[s].pc \in {"clone", "cloning", "swap"} PROVE (~Healthy(thread[s].at))'
    <3>1. Holds(s) /\ thread[s].at \in Folders /\ ~Healthy(thread[s].at) /\ thread'[s] = thread[s]
      BY <1>3, <1>4, <2>2 DEF IInv, Fits, Replaces, Holds, Ingesting, Rest
    <3>2. Holds(t) => thread[t].at # thread[s].at
      BY <3>1 DEF IInv, Locks
    <3>3. PICK f \in Folders : f = thread[s].at /\ ~Healthy(f)' /\ thread'[s].at = thread[s].at
      BY <3>1, <3>2 DEF HealthStep
    <3> QED
      BY <3>3 DEF Healthy
  <2> QED
    BY <2>1, <2>2 DEF Replaces
<1>8. ASSUME NEW s \in Threads, s \notin mixed', s \in Busy' PROVE s = t /\ Busy' = {t}
  <2>1. CASE s = t
    <3>1. mixed' = mixed
      BY <1>1, <1>2, <1>8, <2>1 DEF Busy, Rest
    <3>2. Busy = {t}
      BY <1>1, <1>8, <2>1, <3>1 DEF IInv, Solo
    <3> QED
      BY <1>1, <1>8, <2>1, <3>2
  <2>2. CASE s # t
    <3>1. s \notin mixed
      BY <1>8, <2>2
    <3>2. Busy = {s}
      BY <1>1, <1>8, <3>1 DEF IInv, Solo
    <3> QED
      BY <1>1, <2>2, <3>2
  <2> QED
    BY <2>1, <2>2
<1>9. Solo'
  BY <1>8 DEF Solo
<1>10. ASSUME NEW s \in Threads \ mixed' PROVE Answers(s)'
  <2>1. CASE s \in Busy'
    BY <1>8, <1>10, <2>1
  <2>2. CASE s \notin Busy'
    <3>1. thread'[s].pc \in Rest
      BY <1>2, <2>2 DEF Busy, Rest
    <3>2. thread'[s].op = "none"
      <4>1. Fits(s)'
        BY <1>2, <1>7
      <4> QED
        BY <3>1, <4>1 DEF Fits, Rest, Cloning, Ingesting
    <3> QED
      BY <3>1, <3>2 DEF Answers, DeletedSoFar, ReindexedSoFar, Rest
  <2> QED
    BY <2>1, <2>2
<1> QED
  BY <1>6, <1>7, <1>9, <1>10 DEF IInv, Answers

\* A thread that ends, or goes on with the next folder, answers for nothing.
LEMMA LeavingKeeps ==
  ASSUME IInv, NEW t \in All, thread[t].pc \notin Rest, Others(t), Typed',
         \/ t = Boot /\ thread'[t].pc = "boot" /\ Same(t, {"op"})
         \/ thread'[t].pc \in Rest /\ thread'[t].op = "none",
         lock' = Unlocked(t) \/ (lock' = lock /\ thread[t].op # "load"),
         HealthStep \/ (Holds(t) /\ \A f \in Folders \ {thread[t].at} : Healthy(f)' => Healthy(f)),
         mixed' = mixed \/ mixed' = mixed \ {t}
  PROVE  IInv'
<1>1. CASE t = Boot /\ thread'[t].pc = "boot" /\ Same(t, {"op"})
  <2>1. thread'[t].op = "rehydrate"
    BY <1>1 DEF IInv, Fits, Same, Rest
  <2>2. Fits(t)' /\ Replaces(t)' /\ ~Holds(t)'
    BY <1>1, <2>1 DEF Fits, Replaces, Holds
  <2>3. t \notin Threads
    BY <1>1 DEF Threads, Boot
  <2> QED
    BY <1>1, <2>2, <2>3, OneThreadSteps DEF LockStep
<1>2. CASE thread'[t].pc \in Rest /\ thread'[t].op = "none"
  <2>1. Fits(t)' /\ Replaces(t)' /\ ~Holds(t)'
    BY <1>2 DEF Fits, Replaces, Holds, Rest
  <2>2. Answers(t)'
    BY <1>2 DEF Answers, DeletedSoFar, ReindexedSoFar, Rest
  <2> QED
    BY <1>2, <2>1, <2>2, OneThreadSteps DEF LockStep
<1> QED
  BY <1>1, <1>2

\* A request that goes on has the locks it had.
LEMMA GoingOnKeeps ==
  ASSUME IInv, NEW t \in All, thread[t].pc \notin Rest, thread[t].pc # "lock",
         Others(t), Typed', Same(t, {"op", "at"}), thread'[t].pc # "lock",
         Fits(t)', Replaces(t)', lock' = lock, mixed' = mixed,
         HealthStep \/ (Holds(t) /\ \A f \in Folders \ {thread[t].at} : Healthy(f)' => Healthy(f)),
         t \in Threads \ mixed => Answers(t)'
  PROVE  IInv'
<1>1. Holds(t)' <=> Holds(t)
  BY DEF Holds, Same
<1> QED
  BY <1>1, OneThreadSteps DEF LockStep

\* A load has nothing to answer for.
LEMMA LoadAnswers ==
  ASSUME NEW t, thread[t].op \notin {"delete", "reindex"}, Fits(t)
  PROVE  Answers(t)
BY DEF Answers, Fits, DeletedSoFar, ReindexedSoFar, Cloning, Ingesting, Rest

\* What Fits says of a request by the place it is at
LEMMA WhereLoads ==
  ASSUME NEW t, Fits(t)
  PROVE  /\ thread[t].pc \in Cloning => thread[t].op = "load" /\ thread[t].at \in Folders /\ t # Boot
         /\ thread[t].pc = "scaffold" => thread[t].op = "create" /\ thread[t].at \in Folders /\ t # Boot
         /\ thread[t].pc = "clear" => thread[t].op \in {"load", "reindex"} /\ thread[t].at \in Folders /\ t # Boot
         /\ thread[t].pc \in Ingesting => thread[t].op \in {"load", "create", "activate", "reindex", "rehydrate"}
                                          /\ thread[t].at \in Folders
         /\ thread[t].pc \in {"ungraph", "forget", "unlink"} => thread[t].op = "delete" /\ thread[t].at \in Folders /\ t # Boot
         /\ thread[t].pc \in {"generate", "persist"} => thread[t].op = "docs" /\ thread[t].at \in Folders /\ t # Boot
BY DEF Fits, Cloning, Ingesting, Rest

-----------------------------------------------------------------------------
(* load_repository                                                         *)

LEMMA LockFolderKeeps ==
  ASSUME IInv, NEW t \in All, LockFolder(t)
  PROVE  IInv'
<1> DEFINE f == thread[t].at
           pc == IF Healthy(f) THEN "meta" ELSE "clone"
           A == [thread[t] EXCEPT !.pc = pc]
           r == [A EXCEPT !.already = Healthy(f) /\ HasRepository(records, f)]
<1>0. UNCHANGED <<disk, graph, records, docs, mixed, edits, crashes>>
  BY DEF LockFolder
<1>1. Typed /\ thread[t] \in ThreadState /\ thread[t].pc = "lock" /\ Fits(t)
  BY DEF IInv, Typed, LockFolder
<1>2. thread[t].op = "load" /\ f \in Folders /\ t # Boot
  BY <1>1, WhereLoads DEF Cloning
<1>3. A \in ThreadState /\ A.pc = pc /\ A.op = "load" /\ A.at = f
  BY <1>1, <1>2 DEF ThreadState, Places, Cloning
<1>4. thread' = [thread EXCEPT ![t] = r]
  BY <1>1 DEF LockFolder, Typed
<1>5. (Healthy(f) /\ HasRepository(records, f)) \in BOOLEAN
  BY DEF Healthy, HasRepository
<1> HIDE DEF A
<1>6. r \in ThreadState /\ r.pc = pc /\ r.op = "load" /\ r.at = f
  BY <1>3, <1>5 DEF ThreadState
<1> HIDE DEF r
<1>7. thread' \in [All -> ThreadState] /\ Others(t) /\ thread'[t] = r
  BY <1>1, <1>4, <1>6, Assigned DEF Typed
<1>8. Same(t, {"op", "at"}) /\ Holds(t)'
  BY <1>2, <1>6, <1>7 DEF Same, Holds
<1>9. lock[f] = None /\ lock' = [lock EXCEPT ![f] = t]
  BY DEF LockFolder, Acquire
<1>10. Typed'
  <2>1. lock' \in [Folders -> All \cup {None}] /\ tmp' \in SUBSET (Folders \X All)
    BY <1>1, <1>9 DEF Typed, LockFolder
  <2> QED
    BY <1>0, <1>1, <1>7, <2>1 DEF Typed
<1>11. HealthStep
  BY <1>0 DEF HealthStep, Healthy
<1>12. Fits(t)' /\ Replaces(t)'
  BY <1>0, <1>2, <1>6, <1>7 DEF Fits, Replaces, Cloning, Rest, Healthy
<1>13. Answers(t)'
  BY <1>6, <1>7, <1>12 DEF Answers, DeletedSoFar, ReindexedSoFar
<1> QED
  BY <1>0, <1>1, <1>7, <1>8, <1>9, <1>10, <1>11, <1>12, <1>13, OneThreadSteps DEF LockStep, Rest

LEMMA StartCloneKeeps ==
  ASSUME IInv, NEW t \in All, StartClone(t)
  PROVE  IInv'
<1>1. Typed /\ thread[t].pc = "clone" /\ Fits(t) /\ Replaces(t)
  BY DEF IInv, StartClone
<1>2. thread[t].op = "load" /\ thread[t].at \in Folders /\ t # Boot
  BY <1>1, WhereLoads DEF Cloning
<1>3. "cloning" \in Places /\ At(t, "cloning")
  BY DEF Places, Cloning, StartClone
<1>4. /\ thread' \in [All -> ThreadState] /\ Others(t)
      /\ thread'[t].pc = "cloning" /\ thread'[t].op = "load" /\ thread'[t].at = thread[t].at
  BY <1>1, <1>2, <1>3, AtMoves DEF Typed, Same, Fields
<1>5. Typed'
  BY <1>1, <1>2, <1>4 DEF Typed, StartClone
<1>6. HealthStep /\ Fits(t)' /\ Replaces(t)'
  BY <1>1, <1>2, <1>4 DEF HealthStep, Healthy, Fits, Replaces, Cloning, StartClone
<1>7. Answers(t)'
  BY <1>4 DEF Answers, DeletedSoFar, ReindexedSoFar
<1> QED
  BY <1>1, <1>2, <1>4, <1>5, <1>6, <1>7, GoingOnKeeps DEF StartClone, Same, Rest

LEMMA FinishCloneKeeps ==
  ASSUME IInv, NEW t \in All, FinishClone(t)
  PROVE  IInv'
<1> DEFINE mine == <<thread[t].at, t>>
<1>1. Typed /\ thread[t].pc = "cloning" /\ Fits(t) /\ Replaces(t)
  BY DEF IInv, FinishClone
<1>2. thread[t].op = "load" /\ thread[t].at \in Folders /\ t # Boot
  BY <1>1, WhereLoads DEF Cloning
<1>3. HealthStep /\ mixed' = mixed
  BY DEF HealthStep, Healthy, FinishClone
<1>4. CASE At(t, "swap") /\ UNCHANGED <<tmp, lock>>
  <2>1. "swap" \in Places
    BY DEF Places, Cloning
  <2>2. /\ thread' \in [All -> ThreadState] /\ Others(t)
        /\ thread'[t].pc = "swap" /\ thread'[t].op = "load" /\ thread'[t].at = thread[t].at
    BY <1>1, <1>2, <1>4, <2>1, AtMoves DEF Typed, Same, Fields
  <2>3. Typed'
    BY <1>1, <1>4, <2>2 DEF Typed, FinishClone
  <2>4. Fits(t)' /\ Replaces(t)'
    BY <1>1, <1>2, <2>2 DEF Healthy, Fits, Replaces, Cloning, FinishClone
  <2>5. Answers(t)'
    BY <2>2 DEF Answers, DeletedSoFar, ReindexedSoFar
  <2> QED
    BY <1>1, <1>2, <1>3, <1>4, <2>2, <2>3, <2>4, <2>5, GoingOnKeeps DEF Same, Rest
<1>5. CASE Fails(t) /\ tmp' = tmp \ {mine}
  <2>1. Typed'
    BY <1>1, <1>5, FailsMoves DEF Typed, FinishClone
  <2>2. thread[t].pc \notin Rest /\ "failed" \in Rest
    BY <1>1 DEF Rest
  <2> HIDE DEF mine
  <2> QED
    BY <1>1, <1>3, <1>5, <2>1, <2>2, FailsMoves, LeavingKeeps
<1> QED
  BY <1>4, <1>5 DEF FinishClone

\* What git leaves of a folder it could not remove is no healthy clone.
LEMMA RemovalHealth ==
  ASSUME Typed, NEW f \in Folders, NEW m \in Origins,
         \/ disk' = [disk EXCEPT ![f] = Absent]
         \/ disk' = [disk EXCEPT ![f] = [state |-> "broken", origin |-> None, meta |-> m, tree |-> {}]]
  PROVE  disk' \in [Folders -> Folder] /\ HealthStep
<1>1. Absent \in Folder /\ Absent.state # "ok"
  BY DEF Absent, Folder, Origins
<1>2. [state |-> "broken", origin |-> None, meta |-> m, tree |-> {}] \in Folder
  BY DEF Folder, Origins
<1> QED
  BY <1>1, <1>2 DEF Typed, HealthStep, Healthy

LEMMA RemoveOldKeeps ==
  ASSUME IInv, NEW t \in All, RemoveOld(t)
  PROVE  IInv'
<1> DEFINE f == thread[t].at
<1>0. UNCHANGED <<graph, records, docs, mixed, edits, crashes>>
  BY DEF RemoveOld
<1>1. Typed /\ thread[t].pc = "swap" /\ Fits(t)
  BY DEF IInv, RemoveOld
<1>2. thread[t].op = "load" /\ f \in Folders /\ t # Boot /\ disk[f].meta \in Origins /\ None \in Origins
  <2>1. thread[t].op = "load" /\ f \in Folders /\ t # Boot
    BY <1>1, WhereLoads DEF Cloning
  <2> QED
    BY <1>1, <2>1 DEF Typed, Folder, Origins
<1>3. CASE disk' = [disk EXCEPT ![f] = Absent] /\ At(t, "rename") /\ UNCHANGED <<tmp, lock>>
  <2>1. disk' \in [Folders -> Folder] /\ HealthStep
    BY <1>1, <1>2, <1>3, RemovalHealth
  <2>2. "rename" \in Places
    BY DEF Places, Cloning
  <2>3. /\ thread' \in [All -> ThreadState] /\ Others(t)
        /\ thread'[t].pc = "rename" /\ thread'[t].op = "load" /\ thread'[t].at = f
    BY <1>1, <1>2, <1>3, <2>2, AtMoves DEF Typed, Same, Fields
  <2>4. Typed'
    BY <1>0, <1>1, <1>3, <2>1, <2>3 DEF Typed
  <2>5. Fits(t)' /\ Replaces(t)'
    BY <1>1, <1>2, <2>3 DEF Fits, Replaces, Cloning
  <2>6. Answers(t)'
    BY <2>3 DEF Answers, DeletedSoFar, ReindexedSoFar
  <2> QED
    BY <1>0, <1>1, <1>2, <1>3, <2>1, <2>3, <2>4, <2>5, <2>6, GoingOnKeeps DEF Same, Rest
<1>4. ASSUME NEW m \in Origins,
             disk' = [disk EXCEPT ![f] = [state |-> "broken", origin |-> None, meta |-> m, tree |-> {}]],
             Fails(t), tmp' = tmp \ {<<f, t>>}
      PROVE  IInv'
  <2>1. disk' \in [Folders -> Folder] /\ HealthStep
    BY <1>1, <1>2, <1>4, RemovalHealth
  <2>2. Typed'
    BY <1>0, <1>1, <1>4, <2>1, FailsMoves DEF Typed
  <2>3. thread[t].pc \notin Rest /\ "failed" \in Rest
    BY <1>1 DEF Rest
  <2> QED
    BY <1>0, <1>1, <1>4, <2>1, <2>2, <2>3, FailsMoves, LeavingKeeps
<1> QED
  BY <1>2, <1>3, <1>4 DEF RemoveOld

LEMMA RenameKeeps ==
  ASSUME IInv, NEW t \in All, Rename(t)
  PROVE  IInv'
<1> DEFINE f == thread[t].at
           u == thread[t].url
<1>0. UNCHANGED <<graph, records, docs, mixed, edits, crashes>> /\ tmp' = tmp \ {<<f, t>>}
  BY DEF Rename
<1>1. Typed /\ thread[t].pc = "rename" /\ Fits(t) /\ thread[t] \in ThreadState
  BY DEF IInv, Typed, Rename
<1>2. thread[t].op = "load" /\ f \in Folders /\ t # Boot /\ Holds(t)
  BY <1>1, WhereLoads DEF Cloning, Holds
<1>3. CASE /\ disk' = IF Exists(f) THEN disk ELSE [disk EXCEPT ![f] = Checkout(u)]
           /\ At(t, "meta") /\ UNCHANGED lock
  <2>1. Checkout(u) \in Folder
    BY <1>1 DEF ThreadState, Checkout, Folder, Origins
  <2>2. disk' \in [Folders -> Folder] /\ \A g \in Folders \ {f} : Healthy(g)' => Healthy(g)
    BY <1>1, <1>3, <2>1 DEF Typed, Healthy
  <2>3. "meta" \in Places
    BY DEF Places, Cloning
  <2>4. /\ thread' \in [All -> ThreadState] /\ Others(t)
        /\ thread'[t].pc = "meta" /\ thread'[t].op = "load" /\ thread'[t].at = f
    BY <1>1, <1>2, <1>3, <2>3, AtMoves DEF Typed, Same, Fields
  <2>5. Typed'
    BY <1>0, <1>1, <1>3, <2>2, <2>4 DEF Typed
  <2>6. Fits(t)' /\ Replaces(t)'
    BY <1>1, <1>2, <2>4 DEF Fits, Replaces, Cloning
  <2>7. Answers(t)'
    BY <2>4 DEF Answers, DeletedSoFar, ReindexedSoFar
  <2> QED
    BY <1>0, <1>1, <1>2, <1>3, <2>2, <2>4, <2>5, <2>6, <2>7, GoingOnKeeps DEF Same, Rest
<1>4. CASE Fails(t) /\ UNCHANGED disk
  <2>1. Typed' /\ HealthStep
    BY <1>0, <1>1, <1>4, FailsMoves DEF Typed, HealthStep, Healthy
  <2>2. thread[t].pc \notin Rest /\ "failed" \in Rest
    BY <1>1 DEF Rest
  <2> QED
    BY <1>0, <1>1, <1>4, <2>1, <2>2, FailsMoves, LeavingKeeps
<1> QED
  BY <1>3, <1>4 DEF Rename

LEMMA WriteMetaKeeps ==
  ASSUME IInv, NEW t \in All, WriteMeta(t)
  PROVE  IInv'
<1> DEFINE f == thread[t].at
           pc == IF thread[t].already \/ HasRepository(records, f) THEN "clear" ELSE "parse"
           A == [thread[t] EXCEPT !.url = None]
           B == [A EXCEPT !.already = FALSE]
           r == [B EXCEPT !.pc = pc]
<1>0. UNCHANGED <<tmp, graph, records, docs, mixed, edits, crashes>>
  BY DEF WriteMeta
<1>1. Typed /\ thread[t].pc = "meta" /\ Fits(t) /\ thread[t] \in ThreadState
  BY DEF IInv, Typed, WriteMeta
<1>2. thread[t].op = "load" /\ f \in Folders /\ t # Boot
  BY <1>1, WhereLoads DEF Cloning
<1>3. CASE Fails(t) /\ UNCHANGED disk
  <2>1. Typed' /\ HealthStep
    BY <1>0, <1>1, <1>3, FailsMoves DEF Typed, HealthStep, Healthy
  <2>2. thread[t].pc \notin Rest /\ "failed" \in Rest
    BY <1>1 DEF Rest
  <2> QED
    BY <1>0, <1>1, <1>3, <2>1, <2>2, FailsMoves, LeavingKeeps
<1>4. CASE /\ disk' = [disk EXCEPT ![f].meta = thread[t].url]
           /\ thread' = [thread EXCEPT ![t].url = None, ![t].already = FALSE, ![t].pc = pc]
           /\ UNCHANGED lock
  <2>1. disk' \in [Folders -> Folder] /\ HealthStep
    <3>1. thread[t].url \in Origins
      BY <1>1 DEF ThreadState, Origins
    <3> QED
      BY <1>1, <1>2, <1>4, <3>1 DEF Typed, Folder, HealthStep, Healthy
  <2>2. thread' = [thread EXCEPT ![t] = r]
    BY <1>1, <1>4 DEF Typed
  <2>3. A \in ThreadState /\ A.op = "load" /\ A.at = f
    BY <1>1, <1>2 DEF ThreadState
  <2> HIDE DEF A
  <2>4. B \in ThreadState /\ B.op = "load" /\ B.at = f
    BY <2>3 DEF ThreadState
  <2> HIDE DEF B
  <2>5. r \in ThreadState /\ r.op = "load" /\ r.at = f /\ r.pc = pc
    BY <2>4 DEF ThreadState, Places, Ingesting
  <2> HIDE DEF r
  <2>6. thread' \in [All -> ThreadState] /\ Others(t) /\ thread'[t] = r
    BY <1>1, <2>2, <2>5, Assigned DEF Typed
  <2>7. Typed'
    BY <1>0, <1>1, <1>4, <2>1, <2>6 DEF Typed
  <2>8. Fits(t)' /\ Replaces(t)'
    BY <1>1, <1>2, <2>5, <2>6 DEF Fits, Replaces, Ingesting
  <2>9. Answers(t)'
    BY <2>5, <2>6 DEF Answers, DeletedSoFar, ReindexedSoFar
  <2> QED
    BY <1>0, <1>1, <1>2, <1>4, <2>1, <2>5, <2>6, <2>7, <2>8, <2>9, GoingOnKeeps DEF Same, Rest
<1> QED
  BY <1>3, <1>4 DEF WriteMeta

LEMMA ScaffoldKeeps ==
  ASSUME IInv, NEW t \in All, Scaffold(t)
  PROVE  IInv'
<1> DEFINE f == thread[t].at
<1>0. UNCHANGED <<tmp, graph, records, docs, mixed, edits, crashes>>
  BY DEF Scaffold
<1>1. Typed /\ thread[t].pc = "scaffold" /\ Fits(t)
  BY DEF IInv, Scaffold
<1>2. thread[t].op = "create" /\ f \in Folders /\ t # Boot
  BY <1>1, WhereLoads
<1>3. CASE Fails(t) /\ UNCHANGED disk
  <2>1. Typed' /\ HealthStep
    BY <1>0, <1>1, <1>3, FailsMoves DEF Typed, HealthStep, Healthy
  <2>2. thread[t].pc \notin Rest /\ "failed" \in Rest
    BY <1>1 DEF Rest
  <2> QED
    BY <1>0, <1>1, <1>3, <2>1, <2>2, FailsMoves, LeavingKeeps
<1>4. CASE /\ disk' = [disk EXCEPT ![f].meta = Local, ![f].tree = @ \cup {"importer"}]
           /\ At(t, "parse") /\ UNCHANGED lock
  <2> DEFINE tree == disk[f].tree \cup {"importer"}
             c == [disk[f] EXCEPT !.meta = Local]
             d == [c EXCEPT !.tree = tree]
  <2>1. d \in Folder /\ d.state = disk[f].state /\ d.origin = disk[f].origin
    <3>1. disk[f] \in Folder /\ tree \in SUBSET Paths /\ Local \in Origins
      BY <1>1, <1>2 DEF Typed, Folder, Origins, Paths
    <3> HIDE DEF tree
    <3>2. c \in Folder /\ c.state = disk[f].state /\ c.origin = disk[f].origin
      BY <3>1 DEF Folder
    <3> HIDE DEF c
    <3> QED
      BY <3>1, <3>2 DEF Folder
  <2>2. disk' = [disk EXCEPT ![f] = d]
    BY <1>1, <1>2, <1>4 DEF Typed, Folder
  <2> HIDE DEF d
  <2>3. disk' \in [Folders -> Folder] /\ HealthStep
    BY <1>1, <1>2, <2>1, <2>2 DEF Typed, HealthStep, Healthy
  <2>4. "parse" \in Places
    BY DEF Places, Ingesting
  <2>5. /\ thread' \in [All -> ThreadState] /\ Others(t)
        /\ thread'[t].pc = "parse" /\ thread'[t].op = "create" /\ thread'[t].at = f
    BY <1>1, <1>2, <1>4, <2>4, AtMoves DEF Typed, Same, Fields
  <2>6. Typed'
    BY <1>0, <1>1, <1>4, <2>3, <2>5 DEF Typed
  <2>7. Fits(t)' /\ Replaces(t)'
    BY <1>1, <1>2, <2>5 DEF Fits, Replaces, Ingesting
  <2>8. Answers(t)'
    BY <2>5 DEF Answers, DeletedSoFar, ReindexedSoFar
  <2> QED
    BY <1>0, <1>1, <1>2, <1>4, <2>3, <2>5, <2>6, <2>7, <2>8, GoingOnKeeps DEF Same, Rest
<1> QED
  BY <1>3, <1>4 DEF Scaffold

-----------------------------------------------------------------------------
(* Records and nodes                                                       *)

LEMMA FactTyped ==
  ASSUME NEW t \in All, NEW f \in Folders, NEW title \in Titles, NEW content \in SUBSET Paths,
         NEW source \in {"repo_load", "docs_cache"}, NEW anchors \in Anchorings
  PROVE  /\ Fact(t, f, title, content, source, anchors) \in Record
         /\ Fact(t, f, title, content, source, anchors).anchors = anchors
BY DEF Fact, Record, RecordIds, FullTrust

LEMMA LayoutTyped ==
  ASSUME NEW t \in All, NEW f \in Folders, NEW tree \in SUBSET Paths
  PROVE  LET s == Fact(t, f, "layout", tree, "repo_load", TreeAnchor(tree))
         IN  s \in Record /\ s.anchors = TreeAnchor(tree)
<1>1. "layout" \in Titles /\ TreeAnchor(tree) \in Anchorings
  BY DEF Titles, Anchorings
<1> QED
  BY <1>1, FactTyped

LEMMA InvalidTyped ==
  ASSUME NEW r \in Record
  PROVE  Invalid(r) \in Record /\ ~Invalid(r).valid
BY DEF Invalid, Record

\* A corroborated record is of the same fact, with the anchors of either.
LEMMA CorroboratedTyped ==
  ASSUME NEW r \in Record, NEW s \in Record
  PROVE  LET c == Corroborated(r, s) IN
         /\ c \in Record /\ SameFact(c, r) /\ c.valid = r.valid
         /\ c.anchors \in {r.anchors, s.anchors}
<1> DEFINE anchors == IF IsAnchored(s) THEN s.anchors ELSE r.anchors
           trust == IF r.trust < FullTrust THEN r.trust + 1 ELSE r.trust
           outdated == r.outdated /\ ~IsAnchored(s)
           count == r.count + 1
<1>1. anchors \in Anchorings /\ trust \in Nat /\ count \in Nat /\ outdated \in BOOLEAN
  BY DEF Record, FullTrust
<1> DEFINE A == [r EXCEPT !.count = count]  B == [A EXCEPT !.trust = trust]  C == [B EXCEPT !.anchors = anchors]
           D == [C EXCEPT !.outdated = outdated]
<1>2. Corroborated(r, s) = D
  BY DEF Corroborated, Record
<1> HIDE DEF count, trust, outdated, anchors
<1>3. A \in Record /\ SameFact(A, r) /\ A.valid = r.valid
  BY <1>1 DEF Record, SameFact
<1> HIDE DEF A
<1>4. B \in Record /\ SameFact(B, r) /\ B.valid = r.valid
  BY <1>1, <1>3 DEF Record, SameFact
<1> HIDE DEF B
<1>5. C \in Record /\ SameFact(C, r) /\ C.valid = r.valid /\ C.anchors = anchors
  BY <1>1, <1>4 DEF Record, SameFact
<1> HIDE DEF C
<1>6. D \in Record /\ SameFact(D, r) /\ D.valid = r.valid /\ D.anchors = anchors
  BY <1>1, <1>5 DEF Record, SameFact
<1> HIDE DEF D
<1>7. anchors \in {r.anchors, s.anchors}
  BY DEF anchors
<1> QED
  BY <1>2, <1>6, <1>7

\* What add leaves
LEMMA AddedTyped ==
  ASSUME NEW R \in SUBSET Record, NEW s \in Record
  PROVE  /\ Added(R, s) \in SUBSET Record
         /\ \A x \in Added(R, s) : x.valid =>
              x \in R \cup {s} \/ \E e \in R : e.valid /\ SameFact(e, s) /\ x = Corroborated(e, s)
         /\ \A r \in R : ~SameFact(r, s) => r \in Added(R, s)
         /\ s.valid /\ (\A r \in CurrentFor(R, s) : Resolution(r, s) = "corroborate") =>
              \E x \in Added(R, s) : x.valid /\ SameFact(x, s)
<1> DEFINE existing == CHOOSE r \in CurrentFor(R, s) : TRUE
<1>1. CASE CurrentFor(R, s) = {}
  <2>1. Added(R, s) = R \cup {s} /\ SameFact(s, s)
    BY <1>1 DEF Added, SameFact
  <2> QED
    BY <2>1
<1>2. CASE CurrentFor(R, s) # {}
  <2>1. existing \in CurrentFor(R, s) /\ existing \in R /\ existing.valid /\ SameFact(existing, s)
    BY <1>2 DEF CurrentFor
  <2>2. Added(R, s) = IF Resolution(existing, s) = "corroborate"
                      THEN (R \ {existing}) \cup {Corroborated(existing, s)}
                      ELSE IF Resolution(existing, s) = "supersede"
                      THEN (R \ {existing}) \cup {Invalid(existing), s}
                      ELSE R \cup {Invalid(s)}
    BY <1>2 DEF Added
  <2> HIDE DEF existing
  <2>3. /\ Invalid(existing) \in Record /\ ~Invalid(existing).valid
        /\ Invalid(s) \in Record /\ ~Invalid(s).valid
        /\ Corroborated(existing, s) \in Record
        /\ Corroborated(existing, s).valid /\ SameFact(Corroborated(existing, s), s)
    BY <2>1, InvalidTyped, CorroboratedTyped DEF SameFact
  <2>4. CASE Resolution(existing, s) = "corroborate"
    BY <2>1, <2>2, <2>3, <2>4
  <2>5. CASE Resolution(existing, s) # "corroborate"
    BY <2>1, <2>2, <2>3, <2>5
  <2> QED
    BY <2>4, <2>5
<1> QED
  BY <1>1, <1>2

NoneStale(R, f, hashes) == \A r \in R : r.valid /\ r.repo = f => ~IsStale(r, hashes)

\* A description that says what is there now makes no record of it stale.
LEMMA AddedStale ==
  ASSUME NEW R \in SUBSET Record, NEW s \in Record, NEW f, NEW hashes,
         NoneStale(R, f, hashes), ~IsStale(s, hashes)
  PROVE  NoneStale(Added(R, s), f, hashes)
<1> SUFFICES ASSUME NEW x \in Added(R, s), x.valid, x.repo = f PROVE ~IsStale(x, hashes)
  BY DEF NoneStale
<1>1. CASE x \in R \cup {s}
  BY <1>1 DEF NoneStale
<1>2. ASSUME NEW e \in R, e.valid, SameFact(e, s), x = Corroborated(e, s)
      PROVE  ~IsStale(x, hashes)
  <2>1. e.repo = x.repo /\ (x.anchors = e.anchors \/ x.anchors = s.anchors)
    BY <1>2, CorroboratedTyped DEF SameFact
  <2>2. ~IsStale(e, hashes)
    BY <1>2, <2>1 DEF NoneStale
  <2> QED
    BY <2>1, <2>2 DEF IsStale
<1> QED
  BY <1>1, <1>2, AddedTyped

\* A sweep leaves no current record that the tree contradicts.
LEMMA SweptTyped ==
  ASSUME NEW R \in SUBSET Record, NEW f, NEW hashes
  PROVE  Swept(R, f, hashes) \in SUBSET Record /\ NoneStale(Swept(R, f, hashes), f, hashes)
<1>1. ASSUME NEW r \in R
      PROVE  /\ Rechecked(r, hashes) \in Record
             /\ Rechecked(r, hashes).valid => Rechecked(r, hashes) = r /\ ~IsStale(r, hashes)
  <2>1. r \in Record /\ r.type \notin Historical
    BY DEF Record, Historical
  <2>2. Invalid(r) \in Record /\ ~Invalid(r).valid
    BY <2>1, InvalidTyped
  <2> QED
    BY <2>1, <2>2 DEF Rechecked
<1> QED
  BY <1>1 DEF Swept, NoneStale

LEMMA InvalidatedTyped ==
  ASSUME NEW R \in SUBSET Record, NEW ids
  PROVE  /\ Invalidated(R, ids) \in SUBSET Record
         /\ \A x \in Invalidated(R, ids) : x.valid => x \in R /\ x.id \notin ids
<1>1. \A r \in R : Invalid(r) \in Record /\ ~Invalid(r).valid
  BY InvalidTyped
<1> QED
  BY <1>1 DEF Invalidated

\* add_node keeps the nodes that are there.
LEMMA WithNodesTyped ==
  ASSUME NEW g \in GraphState, NEW t \in All, NEW items \in SUBSET NodeNames
  PROVE  LET h == WithNodes(g, t, items) IN
         /\ h \in GraphState /\ h.edges = g.edges
         /\ DOMAIN h.nodes = DOMAIN g.nodes \cup items
         /\ \A s \in DOMAIN h.nodes : h.nodes[s] \in NodeIds
         /\ \A s \in DOMAIN g.nodes : h.nodes[s] = g.nodes[s]
<1> DEFINE S == DOMAIN g.nodes
           nodes == [s \in S \cup items |-> IF s \in S THEN g.nodes[s] ELSE <<t, s>>]
<1>1. S \in SUBSET NodeNames /\ \A s \in S : g.nodes[s] \in NodeIds
  BY DEF GraphState, Nodes
<1>2. nodes \in [S \cup items -> NodeIds]
  BY <1>1 DEF NodeIds
<1>3. nodes \in Nodes
  <2>1. S \cup items \in SUBSET NodeNames
    BY <1>1
  <2> QED
    BY <1>2, <2>1 DEF Nodes
<1>4. WithNodes(g, t, items) = [g EXCEPT !.nodes = nodes]
  BY DEF WithNodes
<1> HIDE DEF nodes
<1>5. [g EXCEPT !.nodes = nodes] \in GraphState /\ [g EXCEPT !.nodes = nodes].nodes = nodes
      /\ [g EXCEPT !.nodes = nodes].edges = g.edges
  BY <1>3 DEF GraphState
<1>6. DOMAIN nodes = S \cup items /\ \A s \in S : nodes[s] = g.nodes[s]
  BY DEF nodes
<1> QED
  BY <1>2, <1>4, <1>5, <1>6

-----------------------------------------------------------------------------
(* _ingest                                                                 *)

\* An ingestion that goes on still fits its request.
LEMMA IngestionFits ==
  ASSUME NEW t, Fits(t), thread[t].pc \in Ingesting \cup {"clear"},
         Same(t, {"op", "at"}), thread'[t].pc \in Ingesting,
         thread'[t].pc = "edges" => thread'[t].ids \in [thread'[t].tree -> NodeIds]
  PROVE  Fits(t)' /\ Replaces(t)' /\ thread[t].pc \notin Rest \cup {"lock"} /\ thread'[t].pc # "lock"
<1>1. /\ thread'[t].op = thread[t].op /\ thread'[t].at = thread[t].at /\ thread[t].at \in Folders
      /\ thread[t].op \in {"load", "create", "activate", "reindex", "rehydrate"}
      /\ thread[t].op = "rehydrate" => thread[t].pc # "clear"
  BY WhereLoads DEF Same, Fits, Ingesting
<1> QED
  BY <1>1 DEF Fits, Replaces, Ingesting, Cloning, Rest

\* Only a reindex that has the server to itself has something to answer for.
LEMMA IngestionAnswers ==
  ASSUME NEW t \in All, thread[t].pc \in Ingesting \cup {"clear"},
         thread[t].op = "reindex" => ReindexedSoFar(t)
  PROVE  Answers(t)
BY DEF Answers, DeletedSoFar, ReindexedSoFar, Ingesting

LEMMA EmptyGraphTyped ==
  EmptyGraph \in GraphState /\ DOMAIN EmptyGraph.nodes = {} /\ EmptyGraph.edges = {}
<1>1. [s \in {} |-> None] \in [{} -> NodeIds]
  OBVIOUS
<1>2. [s \in {} |-> None] \in Nodes
  BY <1>1 DEF Nodes
<1> QED
  BY <1>2 DEF EmptyGraph, GraphState

LEMMA ClearKeeps ==
  ASSUME IInv, NEW t \in All, Clear(t)
  PROVE  IInv'
<1> DEFINE f == thread[t].at
<1>0. UNCHANGED <<disk, tmp, lock, records, docs, mixed, edits, crashes>>
      /\ graph' = [graph EXCEPT ![f] = EmptyGraph]
  BY DEF Clear, RemoveGraph
<1>1. Typed /\ thread[t].pc = "clear" /\ Fits(t) /\ "parse" \in Places /\ At(t, "parse")
  BY DEF IInv, Clear, Places, Ingesting
<1>2. f \in Folders
  BY <1>1, WhereLoads
<1>3. /\ thread' \in [All -> ThreadState] /\ Others(t)
      /\ thread'[t].pc = "parse" /\ Same(t, {"op", "at"})
  BY <1>1, AtMoves DEF Typed, Same, Fields
<1>4. Typed' /\ graph'[f] = EmptyGraph
  BY <1>0, <1>1, <1>2, <1>3, EmptyGraphTyped DEF Typed
<1>5. HealthStep
  BY <1>0 DEF HealthStep, Healthy
<1>6. Fits(t)' /\ Replaces(t)' /\ thread[t].pc \notin Rest \cup {"lock"} /\ thread'[t].pc # "lock"
  BY <1>1, <1>3, IngestionFits DEF Ingesting
<1>7. Answers(t)'
  <2>1. thread'[t].at = f
    BY <1>3 DEF Same
  <2> QED
    BY <1>3, <1>4, <2>1 DEF Answers, DeletedSoFar, ReindexedSoFar
<1> QED
  BY <1>0, <1>3, <1>4, <1>5, <1>6, <1>7, GoingOnKeeps

LEMMA ParseKeeps ==
  ASSUME IInv, NEW t \in All, Parse(t)
  PROVE  IInv'
<1> DEFINE f == thread[t].at
           A == [thread[t] EXCEPT !.pc = "sweep"]
           r == [A EXCEPT !.tree = disk[f].tree]
<1>0. UNCHANGED <<disk, tmp, lock, graph, records, docs, mixed, edits, crashes>>
  BY DEF Parse
<1>1. Typed /\ thread[t].pc = "parse" /\ Fits(t) /\ thread[t] \in ThreadState
  BY DEF IInv, Typed, Parse
<1>2. f \in Folders /\ disk[f].tree \in SUBSET Paths
  <2>1. f \in Folders
    BY <1>1, WhereLoads DEF Ingesting
  <2> QED
    BY <1>1, <2>1 DEF Typed, Folder
<1>3. thread' = [thread EXCEPT ![t] = r]
  BY <1>1 DEF Parse, Typed
<1>4. A \in ThreadState /\ A.pc = "sweep" /\ A.op = thread[t].op /\ A.at = f
  BY <1>1 DEF ThreadState, Places, Ingesting
<1> HIDE DEF A
<1>5. r \in ThreadState /\ r.pc = "sweep" /\ r.op = thread[t].op /\ r.at = f /\ r.tree = disk[f].tree
  BY <1>2, <1>4 DEF ThreadState
<1> HIDE DEF r
<1>6. thread' \in [All -> ThreadState] /\ Others(t) /\ thread'[t] = r
  BY <1>1, <1>3, <1>5, Assigned DEF Typed
<1>7. Typed'
  BY <1>0, <1>1, <1>6 DEF Typed
<1>8. HealthStep
  BY <1>0 DEF HealthStep, Healthy
<1>9. Same(t, {"op", "at"})
  BY <1>5, <1>6 DEF Same
<1>10. Fits(t)' /\ Replaces(t)' /\ thread[t].pc \notin Rest \cup {"lock"} /\ thread'[t].pc # "lock"
  BY <1>1, <1>5, <1>6, <1>9, IngestionFits DEF Ingesting
<1>11. ASSUME t \in Threads \ mixed PROVE Answers(t)'
  <2>1. ReindexedSoFar(t)
    BY <1>11 DEF IInv
  <2>2. thread[t].op = "reindex" => graph[f] = EmptyGraph
    BY <1>1, <2>1 DEF ReindexedSoFar, Ingesting
  <2> QED
    BY <1>0, <1>5, <1>6, <2>2 DEF Answers, DeletedSoFar, ReindexedSoFar
<1> QED
  BY <1>0, <1>6, <1>7, <1>8, <1>9, <1>10, <1>11, GoingOnKeeps

LEMMA SweepMemoryKeeps ==
  ASSUME IInv, NEW t \in All, SweepMemory(t)
  PROVE  IInv'
<1> DEFINE f == thread[t].at
           hashes == TreeAnchor(thread[t].tree)
           swept == Swept(records, f, hashes)
<1>0. UNCHANGED <<disk, tmp, lock, graph, mixed, edits, crashes>>
  BY DEF SweepMemory
<1>1. Typed /\ thread[t].pc = "sweep" /\ Fits(t) /\ "find" \in Places /\ At(t, "find")
  BY DEF IInv, SweepMemory, Places, Ingesting
<1>2. f \in Folders
  BY <1>1, WhereLoads DEF Ingesting
<1>3. /\ thread' \in [All -> ThreadState] /\ Others(t)
      /\ thread'[t].pc = "find" /\ Same(t, {"op", "at", "tree"})
  BY <1>1, AtMoves DEF Typed, Same, Fields
<1>4. swept \in SUBSET Record /\ NoneStale(swept, f, hashes)
  BY <1>1, SweptTyped DEF Typed
<1>5. records' = (IF DropsDocs(t) THEN RemovedFrom(swept, f, {"docs_cache"}) ELSE swept)
      /\ docs' = (IF DropsDocs(t) THEN [docs EXCEPT ![f] = None] ELSE docs)
  BY DEF SweepMemory
<1> HIDE DEF swept
<1>6. records' \in SUBSET Record /\ NoneStale(records', f, hashes)
  BY <1>4, <1>5 DEF RemovedFrom, NoneStale
<1>7. docs' \in [Folders -> (SUBSET Paths) \cup {None}] /\ (DropsDocs(t) => docs'[f] = None)
  BY <1>1, <1>2, <1>5 DEF Typed
<1>8. Typed'
  BY <1>0, <1>1, <1>3, <1>6, <1>7 DEF Typed
<1>9. HealthStep
  BY <1>0 DEF HealthStep, Healthy
<1>10. Fits(t)' /\ Replaces(t)' /\ thread[t].pc \notin Rest \cup {"lock"} /\ thread'[t].pc # "lock"
  BY <1>1, <1>3, IngestionFits DEF Ingesting, Same
<1>11. ASSUME t \in Threads \ mixed PROVE Answers(t)'
  <2>1. thread'[t].op = thread[t].op /\ thread'[t].at = f /\ thread'[t].tree = thread[t].tree
    BY <1>3 DEF Same
  <2>2. ASSUME thread[t].op = "reindex" PROVE ReindexedSoFar(t)'
    <3>1. graph[f] = EmptyGraph /\ thread[t].tree = disk[f].tree
      BY <1>1, <1>11, <2>2 DEF IInv, ReindexedSoFar, Ingesting
    <3>2. docs'[f] = None
      BY <1>7, <2>2 DEF DropsDocs
    <3>3. \A r \in ValidOf(f)' : ~IsStale(r, TreeAnchor(disk[f].tree))
      BY <1>6, <2>1, <3>1 DEF NoneStale, ValidOf
    <3> QED
      BY <1>0, <1>3, <2>1, <3>1, <3>2, <3>3 DEF ReindexedSoFar, ValidOf
  <2> QED
    BY <1>3, <2>1, <2>2, IngestionAnswers DEF Answers, DeletedSoFar, ReindexedSoFar
<1> QED
  BY <1>0, <1>3, <1>8, <1>9, <1>10, <1>11, GoingOnKeeps DEF Same

LEMMA FindDigestKeeps ==
  ASSUME IInv, NEW t \in All, FindDigest(t)
  PROVE  IInv'
<1> DEFINE f == thread[t].at
           tree == thread[t].tree
           found == { r.id : r \in { x \in Listed(records, f, Descriptive) :
                                       x.title = "layout" /\ x.content # tree } }
           A == [thread[t] EXCEPT !.pc = "digest"]
           r == [A EXCEPT !.found = found]
<1>0. UNCHANGED <<disk, tmp, lock, graph, records, docs, mixed, edits, crashes>>
  BY DEF FindDigest
<1>1. Typed /\ thread[t].pc = "find" /\ Fits(t) /\ thread[t] \in ThreadState
  BY DEF IInv, Typed, FindDigest
<1>2. f \in Folders
  BY <1>1, WhereLoads DEF Ingesting
<1>3. found \in SUBSET RecordIds /\ \A x \in Digests(f) : x.content = tree \/ x.id \in found
  BY <1>1 DEF Typed, Record, Listed, Descriptive, Digests, ValidOf
<1>4. thread' = [thread EXCEPT ![t] = r]
  BY <1>1 DEF FindDigest, Typed
<1> HIDE DEF found
<1>5. A \in ThreadState /\ A.pc = "digest" /\ A.op = thread[t].op /\ A.at = f /\ A.tree = tree
  BY <1>1 DEF ThreadState, Places, Ingesting
<1> HIDE DEF A
<1>6. r \in ThreadState /\ r.pc = "digest" /\ r.op = thread[t].op /\ r.at = f /\ r.tree = tree /\ r.found = found
  BY <1>3, <1>5 DEF ThreadState
<1> HIDE DEF r
<1>7. thread' \in [All -> ThreadState] /\ Others(t) /\ thread'[t] = r
  BY <1>1, <1>4, <1>6, Assigned DEF Typed
<1>8. Typed'
  BY <1>0, <1>1, <1>7 DEF Typed
<1>9. HealthStep
  BY <1>0 DEF HealthStep, Healthy
<1>10. Same(t, {"op", "at"})
  BY <1>6, <1>7 DEF Same
<1>11. Fits(t)' /\ Replaces(t)' /\ thread[t].pc \notin Rest \cup {"lock"} /\ thread'[t].pc # "lock"
  BY <1>1, <1>6, <1>7, <1>10, IngestionFits DEF Ingesting
<1>12. ASSUME t \in Threads \ mixed PROVE Answers(t)'
  <2>1. ASSUME thread[t].op = "reindex" PROVE ReindexedSoFar(t)'
    <3>1. /\ graph[f] = EmptyGraph /\ tree = disk[f].tree /\ docs[f] = None
          /\ \A x \in ValidOf(f) : ~IsStale(x, TreeAnchor(disk[f].tree))
      BY <1>1, <1>12, <2>1 DEF IInv, ReindexedSoFar, Ingesting
    <3> QED
      BY <1>0, <1>3, <1>6, <1>7, <3>1 DEF ReindexedSoFar, ValidOf, Digests
  <2> QED
    BY <1>6, <1>7, <2>1 DEF Answers, DeletedSoFar, ReindexedSoFar
<1> QED
  BY <1>0, <1>7, <1>8, <1>9, <1>10, <1>11, <1>12, GoingOnKeeps

\* The digest of a tree is in no conflict once those that say something else are retired.
LEMMA DigestWritten ==
  ASSUME NEW R \in SUBSET Record, NEW found, NEW t \in All, NEW f \in Folders, NEW tree \in SUBSET Paths,
         \A r \in R : r.valid /\ r.repo = f /\ r.title = "layout" => r.content = tree \/ r.id \in found,
         NoneStale(R, f, TreeAnchor(tree))
  PROVE  LET W == Added(Invalidated(R, found), Fact(t, f, "layout", tree, "repo_load", TreeAnchor(tree))) IN
         /\ NoneStale(W, f, TreeAnchor(tree))
         /\ \E x \in W : x.valid /\ x.repo = f /\ x.title = "layout"
<1> DEFINE s == Fact(t, f, "layout", tree, "repo_load", TreeAnchor(tree))
           left == Invalidated(R, found)
<1>1. s \in Record /\ s.anchors = TreeAnchor(tree)
  BY LayoutTyped
<1>2. s.valid /\ s.repo = f /\ s.title = "layout" /\ s.content = tree
  BY DEF Fact
<1>3. ~IsStale(s, TreeAnchor(tree))
  BY <1>1 DEF IsStale
<1>4. left \in SUBSET Record /\ \A x \in left : x.valid => x \in R /\ x.id \notin found
  BY InvalidatedTyped
<1> HIDE DEF s, left
<1>5. NoneStale(left, f, TreeAnchor(tree))
  BY <1>4 DEF NoneStale
<1>6. \A r \in CurrentFor(left, s) : Resolution(r, s) = "corroborate"
  BY <1>2, <1>4 DEF CurrentFor, SameFact, Resolution
<1>7. \E x \in Added(left, s) : x.valid /\ SameFact(x, s)
  BY <1>1, <1>2, <1>4, <1>6, AddedTyped
<1>8. NoneStale(Added(left, s), f, TreeAnchor(tree))
  BY <1>1, <1>3, <1>4, <1>5, AddedStale
<1> QED
  BY <1>2, <1>7, <1>8 DEF SameFact, s, left

LEMMA WriteDigestKeeps ==
  ASSUME IInv, NEW t \in All, WriteDigest(t)
  PROVE  IInv'
<1> DEFINE f == thread[t].at
           tree == thread[t].tree
           A == [thread[t] EXCEPT !.pc = "nodes"]
           r == [A EXCEPT !.found = {}]
<1>0. UNCHANGED <<disk, tmp, lock, graph, docs, mixed, edits, crashes>>
  BY DEF WriteDigest
<1>1. Typed /\ thread[t].pc = "digest" /\ Fits(t) /\ thread[t] \in ThreadState /\ tree \in SUBSET Paths
  BY DEF IInv, Typed, WriteDigest, ThreadState
<1>2. f \in Folders
  BY <1>1, WhereLoads DEF Ingesting
<1>3. thread' = [thread EXCEPT ![t] = r]
  BY <1>1 DEF WriteDigest, Typed
<1>4. A \in ThreadState /\ A.pc = "nodes" /\ A.op = thread[t].op /\ A.at = f /\ A.tree = tree
  BY <1>1 DEF ThreadState, Places, Ingesting
<1> HIDE DEF A
<1>5. r \in ThreadState /\ r.pc = "nodes" /\ r.op = thread[t].op /\ r.at = f /\ r.tree = tree
  BY <1>4 DEF ThreadState
<1> HIDE DEF r
<1>6. thread' \in [All -> ThreadState] /\ Others(t) /\ thread'[t] = r
  BY <1>1, <1>3, <1>5, Assigned DEF Typed
<1>7. records' = Added(Invalidated(records, thread[t].found),
                       Fact(t, f, "layout", tree, "repo_load", TreeAnchor(tree)))
  BY DEF WriteDigest
<1>8. records' \in SUBSET Record
  <2>1. Fact(t, f, "layout", tree, "repo_load", TreeAnchor(tree)) \in Record
    BY <1>1, <1>2, LayoutTyped
  <2>2. Invalidated(records, thread[t].found) \in SUBSET Record
    BY <1>1, InvalidatedTyped DEF Typed
  <2> QED
    BY <1>7, <2>1, <2>2, AddedTyped
<1>9. Typed'
  BY <1>0, <1>1, <1>6, <1>8 DEF Typed
<1>10. HealthStep
  BY <1>0 DEF HealthStep, Healthy
<1>11. Same(t, {"op", "at"})
  BY <1>5, <1>6 DEF Same
<1>12. Fits(t)' /\ Replaces(t)' /\ thread[t].pc \notin Rest \cup {"lock"} /\ thread'[t].pc # "lock"
  BY <1>1, <1>5, <1>6, <1>11, IngestionFits DEF Ingesting
<1>13. ASSUME t \in Threads \ mixed PROVE Answers(t)'
  <2>1. ASSUME thread[t].op = "reindex" PROVE ReindexedSoFar(t)'
    <3>1. /\ graph[f] = EmptyGraph /\ tree = disk[f].tree /\ docs[f] = None
          /\ \A x \in ValidOf(f) : ~IsStale(x, TreeAnchor(tree))
          /\ \A x \in Digests(f) : x.content = tree \/ x.id \in thread[t].found
      BY <1>1, <1>13, <2>1 DEF IInv, ReindexedSoFar, Ingesting
    <3>2. /\ NoneStale(records', f, TreeAnchor(tree))
          /\ \E x \in records' : x.valid /\ x.repo = f /\ x.title = "layout"
      <4>1. NoneStale(records, f, TreeAnchor(tree))
        BY <3>1 DEF ValidOf, NoneStale
      <4>2. \A x \in records : x.valid /\ x.repo = f /\ x.title = "layout" =>
              x.content = tree \/ x.id \in thread[t].found
        BY <3>1 DEF Digests, ValidOf
      <4> QED
        BY <1>1, <1>2, <1>7, <4>1, <4>2, DigestWritten DEF Typed
    <3>3. (\A x \in ValidOf(f) : ~IsStale(x, TreeAnchor(tree)))' /\ (Digests(f) # {})'
      BY <1>5, <1>6, <3>2 DEF ValidOf, Digests, NoneStale
    <3> QED
      BY <1>0, <1>5, <1>6, <3>1, <3>3 DEF ReindexedSoFar
  <2> QED
    BY <1>5, <1>6, <2>1 DEF Answers, DeletedSoFar, ReindexedSoFar
<1> QED
  BY <1>0, <1>6, <1>9, <1>10, <1>11, <1>12, <1>13, GoingOnKeeps

LEMMA AddNodesKeeps ==
  ASSUME IInv, NEW t \in All, AddNodes(t)
  PROVE  IInv'
<1> DEFINE f == thread[t].at
           tree == thread[t].tree
           g == WithNodes(graph[f], t, tree \cup {RepositoryNode})
           ids == [p \in tree |-> g.nodes[p]]
           A == [thread[t] EXCEPT !.pc = "edges"]
           r == [A EXCEPT !.ids = ids]
<1>0. UNCHANGED <<disk, tmp, lock, records, docs, mixed, edits, crashes>>
      /\ graph' = [graph EXCEPT ![f] = g]
  BY DEF AddNodes
<1>1. Typed /\ thread[t].pc = "nodes" /\ Fits(t) /\ thread[t] \in ThreadState /\ tree \in SUBSET Paths
  BY DEF IInv, Typed, AddNodes, ThreadState
<1>2. f \in Folders /\ graph[f] \in GraphState
  <2>1. f \in Folders
    BY <1>1, WhereLoads DEF Ingesting
  <2> QED
    BY <1>1, <2>1 DEF Typed
<1>3. /\ g \in GraphState /\ g.edges = graph[f].edges
      /\ DOMAIN g.nodes = DOMAIN graph[f].nodes \cup (tree \cup {RepositoryNode})
      /\ \A s \in DOMAIN g.nodes : g.nodes[s] \in NodeIds
  <2>1. tree \cup {RepositoryNode} \in SUBSET NodeNames
    BY <1>1 DEF NodeNames
  <2> QED
    BY <1>2, <2>1, WithNodesTyped
<1>4. thread' = [thread EXCEPT ![t] = r]
  BY <1>1 DEF AddNodes, Typed
<1> HIDE DEF g
<1>5. ids \in [tree -> NodeIds] /\ ids \in Nodes /\ \A p \in tree : ids[p] = g.nodes[p]
  <2>1. ids \in [tree -> NodeIds] /\ \A p \in tree : ids[p] = g.nodes[p]
    BY <1>3
  <2>2. tree \in SUBSET NodeNames
    BY <1>1 DEF NodeNames
  <2> QED
    BY <2>1, <2>2 DEF Nodes
<1> HIDE DEF ids
<1>6. A \in ThreadState /\ A.pc = "edges" /\ A.op = thread[t].op /\ A.at = f /\ A.tree = tree
  BY <1>1 DEF ThreadState, Places, Ingesting
<1> HIDE DEF A
<1>7. r \in ThreadState /\ r.pc = "edges" /\ r.op = thread[t].op /\ r.at = f /\ r.tree = tree /\ r.ids = ids
  BY <1>5, <1>6 DEF ThreadState
<1> HIDE DEF r
<1>8. thread' \in [All -> ThreadState] /\ Others(t) /\ thread'[t] = r
  BY <1>1, <1>4, <1>7, Assigned DEF Typed
<1>9. Typed' /\ graph'[f] = g
  BY <1>0, <1>1, <1>2, <1>3, <1>8 DEF Typed
<1>10. HealthStep
  BY <1>0 DEF HealthStep, Healthy
<1>11. Same(t, {"op", "at"})
  BY <1>7, <1>8 DEF Same
<1>12. Fits(t)' /\ Replaces(t)' /\ thread[t].pc \notin Rest \cup {"lock"} /\ thread'[t].pc # "lock"
  BY <1>1, <1>5, <1>7, <1>8, <1>11, IngestionFits DEF Ingesting
<1>13. ASSUME t \in Threads \ mixed PROVE Answers(t)'
  <2>1. ASSUME thread[t].op = "reindex" PROVE ReindexedSoFar(t)'
    <3>1. /\ graph[f] = EmptyGraph /\ tree = disk[f].tree /\ docs[f] = None
          /\ \A x \in ValidOf(f) : ~IsStale(x, TreeAnchor(tree))
          /\ Digests(f) # {}
      BY <1>1, <1>13, <2>1 DEF IInv, ReindexedSoFar, Ingesting
    <3>2. DOMAIN g.nodes = tree \cup {RepositoryNode} /\ g.edges = {}
      BY <1>3, <3>1, EmptyGraphTyped
    <3> QED
      BY <1>0, <1>5, <1>7, <1>8, <1>9, <3>1, <3>2 DEF ReindexedSoFar, ValidOf, Digests
  <2> QED
    BY <1>7, <1>8, <2>1 DEF Answers, DeletedSoFar, ReindexedSoFar
<1> QED
  BY <1>0, <1>8, <1>9, <1>10, <1>11, <1>12, <1>13, GoingOnKeeps

LEMMA AddEdgesKeeps ==
  ASSUME IInv, NEW t \in All, AddEdges(t)
  PROVE  IInv'
<1> DEFINE f == thread[t].at
           tree == thread[t].tree
           ids == thread[t].ids
           added == IF tree = Paths THEN {<<ids["importer"], ids["imported"], t>>} ELSE {}
           edges == graph[f].edges \cup added
           A == [thread[t] EXCEPT !.pc = "score"]
           B == [A EXCEPT !.tree = {}]
           r == [B EXCEPT !.ids = Idle.ids]
<1>0. UNCHANGED <<disk, tmp, records, docs, mixed, edits, crashes>>
  BY DEF AddEdges
<1>1. Typed /\ thread[t].pc = "edges" /\ Fits(t) /\ thread[t] \in ThreadState /\ tree \in SUBSET Paths
  BY DEF IInv, Typed, AddEdges, ThreadState
<1>2. f \in Folders /\ graph[f] \in GraphState /\ ids \in [tree -> NodeIds]
  <2>1. f \in Folders
    BY <1>1, WhereLoads DEF Ingesting
  <2> QED
    BY <1>1, <2>1 DEF Typed, Fits
<1>3. HealthStep
  BY <1>0 DEF HealthStep, Healthy
<1>4. CASE Fails(t) /\ UNCHANGED graph
  <2>1. Typed'
    BY <1>0, <1>1, <1>4, FailsMoves DEF Typed
  <2>2. thread[t].pc \notin Rest /\ "failed" \in Rest
    BY <1>1 DEF Rest
  <2> QED
    BY <1>0, <1>1, <1>3, <1>4, <2>1, <2>2, FailsMoves, LeavingKeeps
<1>5. CASE /\ graph' = [graph EXCEPT ![f].edges = edges]
           /\ thread' = [thread EXCEPT ![t].pc = "score", ![t].tree = {}, ![t].ids = Idle.ids]
           /\ UNCHANGED lock
  <2>1. added \in SUBSET Edges
    BY <1>2 DEF Edges, Paths
  <2>2. edges \in SUBSET Edges
    BY <1>2, <2>1 DEF GraphState
  <2> HIDE DEF edges
  <2>3. /\ graph' \in [Folders -> GraphState]
        /\ graph'[f].nodes = graph[f].nodes /\ graph'[f].edges = edges
    BY <1>1, <1>2, <1>5, <2>2 DEF Typed, GraphState
  <2>4. thread' = [thread EXCEPT ![t] = r]
    BY <1>1, <1>5 DEF Typed
  <2>5. A \in ThreadState /\ A.pc = "score" /\ A.op = thread[t].op /\ A.at = f
    BY <1>1 DEF ThreadState, Places, Ingesting
  <2> HIDE DEF A
  <2>6. B \in ThreadState /\ B.pc = "score" /\ B.op = thread[t].op /\ B.at = f
    BY <2>5 DEF ThreadState
  <2> HIDE DEF B
  <2>7. r \in ThreadState /\ r.pc = "score" /\ r.op = thread[t].op /\ r.at = f
    <3>1. Idle.ids \in Nodes
      BY IdleTyped DEF ThreadState
    <3> QED
      BY <2>6, <3>1 DEF ThreadState
  <2> HIDE DEF r
  <2>8. thread' \in [All -> ThreadState] /\ Others(t) /\ thread'[t] = r
    BY <1>1, <2>4, <2>7, Assigned DEF Typed
  <2>9. Typed'
    BY <1>0, <1>1, <1>5, <2>3, <2>8 DEF Typed
  <2>10. Same(t, {"op", "at"})
    BY <2>7, <2>8 DEF Same
  <2>11. Fits(t)' /\ Replaces(t)' /\ thread[t].pc \notin Rest \cup {"lock"} /\ thread'[t].pc # "lock"
    BY <1>1, <2>7, <2>8, <2>10, IngestionFits DEF Ingesting
  <2>12. ASSUME t \in Threads \ mixed PROVE Answers(t)'
    <3>1. ASSUME thread[t].op = "reindex" PROVE ReindexedSoFar(t)'
      <4>1. /\ tree = disk[f].tree /\ docs[f] = None
            /\ \A x \in ValidOf(f) : ~IsStale(x, TreeAnchor(tree))
            /\ Digests(f) # {}
            /\ DOMAIN graph[f].nodes = tree \cup {RepositoryNode}
            /\ graph[f].edges = {}
            /\ \A p \in tree : ids[p] = graph[f].nodes[p]
        BY <1>1, <2>12, <3>1 DEF IInv, ReindexedSoFar, Ingesting
      <4>2. edges = added
        BY <4>1 DEF edges
      <4>3. Cardinality(added) = IF tree = Paths THEN 1 ELSE 0
        BY FS_EmptySet, FS_Singleton
      <4>4. \A e \in added : e[1] \in Live(graph'[f]) /\ e[2] \in Live(graph'[f])
        BY <2>3, <4>1 DEF Live, Paths
      <4>5. DOMAIN graph'[f].nodes \ {"health"} = tree \cup {RepositoryNode}
        BY <1>1, <2>3, <4>1 DEF RepositoryNode, Paths
      <4> HIDE DEF added
      <4>6. IsExact(graph'[f], tree)
        BY <2>3, <4>2, <4>3, <4>4, <4>5 DEF IsExact
      <4> QED
        BY <1>0, <2>7, <2>8, <4>1, <4>6 DEF ReindexedSoFar, ValidOf, Digests
    <3> QED
      BY <2>7, <2>8, <3>1 DEF Answers, DeletedSoFar, ReindexedSoFar
  <2> QED
    BY <1>0, <1>3, <1>5, <2>8, <2>9, <2>10, <2>11, <2>12, GoingOnKeeps
<1> QED
  BY <1>4, <1>5 DEF AddEdges

LEMMA FinishKeeps ==
  ASSUME IInv, NEW t \in All, Finish(t)
  PROVE  IInv'
<1> DEFINE f == thread[t].at
           g == WithNodes(graph[f], t, {"health"})
           s == Fact(t, f, "health", {}, "repo_load", Unanchored)
<1>0. UNCHANGED <<disk, tmp, docs, edits, crashes>> /\ mixed' = mixed \ {t} /\ lock' = Unlocked(t)
      /\ graph' = [graph EXCEPT ![f] = g] /\ records' = Added(records, s)
  BY DEF Finish
<1>1. Typed /\ thread[t].pc = "score" /\ Fits(t)
  BY DEF IInv, Finish
<1>2. f \in Folders /\ graph[f] \in GraphState
  <2>1. f \in Folders
    BY <1>1, WhereLoads DEF Ingesting
  <2> QED
    BY <1>1, <2>1 DEF Typed
<1>3. g \in GraphState /\ s \in Record
  <2>1. {"health"} \in SUBSET NodeNames /\ "health" \in Titles /\ {} \in SUBSET Paths /\ Unanchored \in Anchorings
    BY DEF NodeNames, Titles, Anchorings
  <2> QED
    BY <1>2, <2>1, WithNodesTyped, FactTyped
<1> HIDE DEF g, s
<1>4. records' \in SUBSET Record /\ graph' \in [Folders -> GraphState] /\ lock' \in [Folders -> All \cup {None}]
  <2>1. Added(records, s) \in SUBSET Record
    BY <1>1, <1>3, AddedTyped DEF Typed
  <2>2. graph' \in [Folders -> GraphState] /\ lock' \in [Folders -> All \cup {None}]
    BY <1>0, <1>1, <1>2, <1>3 DEF Typed, Unlocked
  <2> QED
    BY <1>0, <2>1, <2>2
<1>5. /\ thread' \in [All -> ThreadState] /\ Others(t)
      /\ \/ t = Boot /\ thread'[t].pc = "boot" /\ Same(t, {"op"})
         \/ thread'[t].pc \in Rest /\ thread'[t].op = "none"
  <2>1. CASE t = Boot
    <3>1. At(t, "boot") /\ "boot" \in Places
      BY <2>1 DEF Finish, Places
    <3> QED
      BY <1>1, <2>1, <3>1, AtMoves DEF Typed, Same, Fields
  <2>2. CASE t # Boot
    <3>1. Ends(t, "ok") /\ "ok" \in Rest
      BY <2>2 DEF Finish, Rest
    <3> QED
      BY <1>1, <3>1, EndsMoves DEF Typed
  <2> QED
    BY <2>1, <2>2
<1>6. Typed'
  BY <1>0, <1>1, <1>4, <1>5 DEF Typed
<1>7. HealthStep /\ thread[t].pc \notin Rest
  BY <1>0, <1>1 DEF HealthStep, Healthy, Rest
<1> QED
  BY <1>0, <1>5, <1>6, <1>7, LeavingKeeps

LEMMA RaiseKeeps ==
  ASSUME IInv, NEW t \in All, Raise(t)
  PROVE  IInv'
<1>0. UNCHANGED <<disk, tmp, graph, records, docs, mixed, edits, crashes>> /\ Fails(t)
  BY DEF Raise
<1>1. Typed /\ thread[t].pc \notin Rest /\ "failed" \in Rest
  BY DEF IInv, Raise, Rest
<1>2. Typed' /\ HealthStep
  BY <1>0, <1>1, FailsMoves DEF Typed, HealthStep, Healthy
<1> QED
  BY <1>0, <1>1, <1>2, FailsMoves, LeavingKeeps

-----------------------------------------------------------------------------
(* delete and the docs                                                     *)

LEMMA DeleteGraphKeeps ==
  ASSUME IInv, NEW t \in All, DeleteGraph(t)
  PROVE  IInv'
<1> DEFINE f == thread[t].at
<1>0. UNCHANGED <<disk, tmp, lock, records, docs, mixed, edits, crashes>>
      /\ graph' = [graph EXCEPT ![f] = EmptyGraph]
  BY DEF DeleteGraph, RemoveGraph
<1>1. Typed /\ thread[t].pc = "ungraph" /\ Fits(t) /\ "forget" \in Places /\ At(t, "forget")
  BY DEF IInv, DeleteGraph, Places
<1>2. f \in Folders /\ thread[t].op = "delete" /\ t # Boot
  BY <1>1, WhereLoads
<1>3. /\ thread' \in [All -> ThreadState] /\ Others(t) /\ Same(t, {"op", "at"})
      /\ thread'[t].pc = "forget" /\ thread'[t].op = "delete" /\ thread'[t].at = f
  BY <1>1, <1>2, AtMoves DEF Typed, Same, Fields
<1>4. Typed' /\ graph'[f] = EmptyGraph
  BY <1>0, <1>1, <1>2, <1>3, EmptyGraphTyped DEF Typed
<1>5. HealthStep
  BY <1>0 DEF HealthStep, Healthy
<1>6. Fits(t)' /\ Replaces(t)' /\ Answers(t)'
  BY <1>2, <1>3, <1>4 DEF Fits, Replaces, Answers, DeletedSoFar, ReindexedSoFar
<1> QED
  BY <1>0, <1>1, <1>3, <1>4, <1>5, <1>6, GoingOnKeeps DEF Rest

LEMMA DeleteMemoryKeeps ==
  ASSUME IInv, NEW t \in All, DeleteMemory(t)
  PROVE  IInv'
<1> DEFINE f == thread[t].at
<1>0. UNCHANGED <<disk, tmp, lock, graph, mixed, edits, crashes>>
      /\ records' = Forgotten(records, f) /\ docs' = [docs EXCEPT ![f] = None]
  BY DEF DeleteMemory, Forget
<1>1. Typed /\ thread[t].pc = "forget" /\ Fits(t) /\ "unlink" \in Places /\ At(t, "unlink")
  BY DEF IInv, DeleteMemory, Places
<1>2. f \in Folders /\ thread[t].op = "delete" /\ t # Boot
  BY <1>1, WhereLoads
<1>3. /\ thread' \in [All -> ThreadState] /\ Others(t) /\ Same(t, {"op", "at"})
      /\ thread'[t].pc = "unlink" /\ thread'[t].op = "delete" /\ thread'[t].at = f
  BY <1>1, <1>2, AtMoves DEF Typed, Same, Fields
<1>4. Typed' /\ docs'[f] = None /\ ~HasRepository(records', f)
  BY <1>0, <1>1, <1>2, <1>3 DEF Typed, Forgotten, HasRepository
<1>5. HealthStep
  BY <1>0 DEF HealthStep, Healthy
<1>6. Fits(t)' /\ Replaces(t)'
  BY <1>2, <1>3 DEF Fits, Replaces
<1>7. ASSUME t \in Threads \ mixed PROVE Answers(t)'
  <2>1. graph[f] = EmptyGraph
    BY <1>1, <1>7 DEF IInv, DeletedSoFar
  <2> QED
    BY <1>0, <1>3, <1>4, <2>1 DEF Answers, DeletedSoFar, ReindexedSoFar, HasRepository
<1> QED
  BY <1>0, <1>1, <1>3, <1>4, <1>5, <1>6, <1>7, GoingOnKeeps DEF Rest

LEMMA DeleteFolderKeeps ==
  ASSUME IInv, NEW t \in All, DeleteFolder(t)
  PROVE  IInv'
<1> DEFINE f == thread[t].at
<1>0. UNCHANGED <<tmp, lock, graph, records, docs, edits, crashes>> /\ mixed' = mixed \ {t}
  BY DEF DeleteFolder
<1>1. Typed /\ thread[t].pc = "unlink" /\ Fits(t) /\ thread[t].pc \notin Rest
  BY DEF IInv, DeleteFolder, Rest
<1>2. f \in Folders /\ thread[t].op = "delete" /\ disk[f].meta \in Origins /\ None \in Origins
  <2>1. f \in Folders /\ thread[t].op = "delete"
    BY <1>1, WhereLoads
  <2> QED
    BY <1>1, <2>1 DEF Typed, Folder, Origins
<1>3. /\ \E m \in Origins :
           \/ disk' = [disk EXCEPT ![f] = Absent]
           \/ disk' = [disk EXCEPT ![f] = [state |-> "broken", origin |-> None, meta |-> m, tree |-> {}]]
      /\ \E result \in Rest : Ends(t, result)
  BY <1>2 DEF DeleteFolder, Rest
<1>4. disk' \in [Folders -> Folder] /\ HealthStep
  BY <1>1, <1>2, <1>3, RemovalHealth
<1>5. thread' \in [All -> ThreadState] /\ Others(t) /\ thread'[t].pc \in Rest /\ thread'[t].op = "none"
  BY <1>1, <1>3, EndsMoves DEF Typed
<1>6. Typed'
  BY <1>0, <1>1, <1>4, <1>5 DEF Typed
<1> QED
  BY <1>0, <1>1, <1>2, <1>4, <1>5, <1>6, LeavingKeeps

LEMMA PublishDocsKeeps ==
  ASSUME IInv, NEW t \in All, PublishDocs(t)
  PROVE  IInv'
<1> DEFINE f == thread[t].at
<1>0. UNCHANGED <<disk, tmp, lock, graph, records, mixed, edits, crashes>>
      /\ docs' = [docs EXCEPT ![f] = thread[t].tree]
  BY DEF PublishDocs
<1>1. Typed /\ thread[t].pc = "generate" /\ Fits(t) /\ "persist" \in Places /\ At(t, "persist")
      /\ thread[t].tree \in SUBSET Paths
  BY DEF IInv, PublishDocs, Places, Typed, ThreadState
<1>2. f \in Folders /\ thread[t].op = "docs" /\ t # Boot
  BY <1>1, WhereLoads
<1>3. /\ thread' \in [All -> ThreadState] /\ Others(t) /\ Same(t, {"op", "at"})
      /\ thread'[t].pc = "persist" /\ thread'[t].op = "docs" /\ thread'[t].at = f
  BY <1>1, <1>2, AtMoves DEF Typed, Same, Fields
<1>4. Typed'
  BY <1>0, <1>1, <1>2, <1>3 DEF Typed
<1>5. HealthStep
  BY <1>0 DEF HealthStep, Healthy
<1>6. Fits(t)' /\ Replaces(t)' /\ Answers(t)'
  BY <1>2, <1>3 DEF Fits, Replaces, Answers, DeletedSoFar, ReindexedSoFar
<1> QED
  BY <1>0, <1>1, <1>3, <1>4, <1>5, <1>6, GoingOnKeeps DEF Rest

LEMMA PersistDocsKeeps ==
  ASSUME IInv, NEW t \in All, PersistDocs(t)
  PROVE  IInv'
<1> DEFINE f == thread[t].at
           s == Fact(t, f, "docs", thread[t].tree, "docs_cache", Unanchored)
           left == RemovedFrom(records, f, {"docs_cache"})
<1>0. UNCHANGED <<disk, tmp, lock, graph, docs, mixed, edits, crashes>> /\ records' = Added(left, s)
      /\ Ends(t, "ok")
  BY DEF PersistDocs
<1>1. Typed /\ thread[t].pc = "persist" /\ Fits(t) /\ thread[t].pc \notin Rest /\ "ok" \in Rest
      /\ thread[t].tree \in SUBSET Paths
  BY DEF IInv, PersistDocs, Rest, Typed, ThreadState
<1>2. f \in Folders /\ thread[t].op = "docs"
  BY <1>1, WhereLoads
<1>3. s \in Record /\ left \in SUBSET Record
  <2>1. s \in Record
    BY <1>1, <1>2, FactTyped DEF Titles, Anchorings
  <2>2. left \in SUBSET Record
    BY <1>1 DEF Typed, RemovedFrom
  <2> QED
    BY <2>1, <2>2
<1> HIDE DEF s, left
<1>4. records' \in SUBSET Record
  BY <1>0, <1>3, AddedTyped
<1>5. thread' \in [All -> ThreadState] /\ Others(t) /\ thread'[t].pc \in Rest /\ thread'[t].op = "none"
  BY <1>0, <1>1, EndsMoves DEF Typed
<1>6. Typed'
  BY <1>0, <1>1, <1>4, <1>5 DEF Typed
<1>7. HealthStep
  BY <1>0 DEF HealthStep, Healthy
<1> QED
  BY <1>0, <1>1, <1>2, <1>5, <1>6, <1>7, LeavingKeeps

-----------------------------------------------------------------------------
(* Requests                                                                *)

\* A new request, answered at once or at its first place
Starts(t) ==
  /\ thread' \in [All -> ThreadState] /\ Others(t)
  /\ Fits(t)' /\ Replaces(t)' /\ Answers(t)' /\ ~Holds(t)'

FirstPlaces == { <<"load", "lock">>, <<"create", "scaffold">>, <<"activate", "parse">>,
                 <<"delete", "ungraph">>, <<"reindex", "clear">> }

LEMMA EndsStarts ==
  ASSUME Typed, NEW t \in All, NEW result \in Rest, Ends(t, result)
  PROVE  Starts(t)
<1>1. /\ thread' \in [All -> ThreadState] /\ Others(t)
      /\ thread'[t].pc = result /\ thread'[t].op = "none"
  BY EndsMoves DEF Typed
<1> QED
  BY <1>1 DEF Starts, Fits, Replaces, Answers, DeletedSoFar, ReindexedSoFar, Holds, Rest

LEMMA BeginsStarts ==
  ASSUME Typed, NEW t \in Threads, NEW f \in Folders, NEW u \in Urls \cup {None},
         NEW op, NEW pc, <<op, pc>> \in FirstPlaces, Begins(t, op, f, u, pc)
  PROVE  Starts(t)
<1>1. t \in All /\ t # Boot
  BY DEF All, Threads, Boot
<1>2. /\ \/ op = "load" /\ pc = "lock"
         \/ op = "create" /\ pc = "scaffold"
         \/ op = "activate" /\ pc = "parse"
         \/ op = "delete" /\ pc = "ungraph"
         \/ op = "reindex" /\ pc = "clear"
      /\ op \in Ops /\ pc \in Places
  BY DEF FirstPlaces, Ops, Places, Cloning, Ingesting
<1>3. /\ thread' \in [All -> ThreadState] /\ Others(t)
      /\ thread'[t].pc = pc /\ thread'[t].op = op /\ thread'[t].at = f
  BY <1>1, <1>2, BeginsMoves DEF Typed
<1>4. Fits(t)'
  BY <1>1, <1>2, <1>3 DEF Fits, Rest, Cloning, Ingesting
<1>5. Replaces(t)' /\ ~Holds(t)'
  BY <1>2, <1>3 DEF Replaces, Holds
<1>6. Answers(t)'
  BY <1>2, <1>3 DEF Answers, DeletedSoFar, ReindexedSoFar, Ingesting
<1> QED
  BY <1>3, <1>4, <1>5, <1>6 DEF Starts

\* A request that comes in when others are under way is one of several from then on.
LEMMA StartingKeeps ==
  ASSUME IInv, NEW t \in Threads, thread[t].pc = "idle", Starts(t), Alone(t), Typed', HealthStep,
         UNCHANGED <<tmp, lock, graph, records, edits, crashes>>
  PROVE  IInv'
<1>1. Threads \subseteq All /\ t \in All /\ \A s \in All : s \in Busy <=> thread[s].pc \notin Rest
  BY DEF All, Threads, Busy, Rest
<1>2. \A s \in All \ {t} : thread'[s] = thread[s]
  BY DEF Starts, Others
<1>3. Busy' \subseteq Busy \cup {t}
  BY <1>1, <1>2 DEF Busy
<1>4. mixed' = IF Busy = {} THEN mixed ELSE mixed \cup Busy \cup {t}
  BY DEF Alone
<1>5. Locks'
  <2>1. \A s \in All : Holds(s) => thread[s].at \in Folders
    BY DEF IInv, Fits, Holds, Cloning, Ingesting, Rest
  <2>2. thread[t].op # "load"
    BY <1>1 DEF IInv, Fits, Cloning, Ingesting
  <2> QED
    BY <1>1, <2>1, <2>2, LocksKept DEF Starts, LockStep, IInv
<1>6. ASSUME NEW s \in All \ {t} PROVE Fits(s)' /\ Replaces(s)'
  <2>1. Fits(s)'
    BY <1>2 DEF IInv, Fits
  <2>2. ASSUME thread'[s].pc \in {"clone", "cloning", "swap"} PROVE (~Healthy(thread[s].at))'
    <3>1. thread[s].at \in Folders /\ ~Healthy(thread[s].at) /\ thread'[s] = thread[s]
      BY <1>2, <2>2 DEF IInv, Fits, Replaces, Rest
    <3>2. PICK f \in Folders : f = thread[s].at /\ ~Healthy(f)' /\ thread'[s].at = thread[s].at
      BY <3>1 DEF HealthStep
    <3> QED
      BY <3>2 DEF Healthy
  <2> QED
    BY <2>1, <2>2 DEF Replaces
<1>7. Solo'
  <2> SUFFICES ASSUME NEW s \in Threads, s \in Busy', s \notin mixed' PROVE Busy' = {s}
    BY DEF Solo
  <2>1. Busy = {}
    BY <1>3, <1>4
  <2> QED
    BY <1>3, <2>1
<1>8. ASSUME NEW s \in Threads \ mixed' PROVE Answers(s)'
  <2>1. CASE s = t
    BY <2>1 DEF Starts
  <2>2. CASE s # t
    <3>1. s \notin Busy /\ thread'[s] = thread[s] /\ s \in All
      BY <1>1, <1>2, <1>4, <2>2
    <3>2. thread'[s].pc \in Rest /\ thread'[s].op = "none"
      BY <1>1, <3>1 DEF IInv, Fits, Rest, Cloning, Ingesting
    <3> QED
      BY <3>2 DEF Answers, DeletedSoFar, ReindexedSoFar, Rest
  <2> QED
    BY <2>1, <2>2
<1> QED
  BY <1>5, <1>6, <1>7, <1>8 DEF IInv, Answers, Starts

LEMMA RequestKeeps ==
  ASSUME IInv, NEW t \in Threads, Request(t)
  PROVE  IInv'
<1>0. UNCHANGED <<tmp, lock, graph, records, edits, crashes>> /\ thread[t].pc = "idle" /\ Alone(t)
  BY DEF Request
<1>1. Typed /\ t \in All /\ {"ok", "failed"} \subseteq Rest
  BY DEF IInv, All, Threads, Boot, Rest
<1>2. mixed' \in SUBSET All
  BY <1>0, <1>1 DEF Typed, Alone, Busy
<1>3. ASSUME Starts(t), UNCHANGED <<disk, docs>> PROVE IInv'
  <2>1. Typed' /\ HealthStep
    BY <1>0, <1>1, <1>2, <1>3 DEF Typed, Starts, HealthStep, Healthy
  <2> QED
    BY <1>0, <1>3, <2>1, StartingKeeps
<1>4. ASSUME NEW u \in Urls, Load(t, u) PROVE IInv'
  <2>1. Starts(t)
    BY <1>1, <1>4, EndsStarts, BeginsStarts DEF Load, FirstPlaces
  <2> QED
    BY <1>3, <1>4, <2>1 DEF Load
<1>5. ASSUME NEW f \in Folders, Create(t, f) PROVE IInv'
  <2>1. Starts(t)
    BY <1>1, <1>5, EndsStarts, BeginsStarts DEF Create, FirstPlaces
  <2>2. CASE UNCHANGED disk
    BY <1>3, <1>5, <2>1, <2>2 DEF Create
  <2>3. CASE ~UNCHANGED disk
    <3> DEFINE A == [Absent EXCEPT !.state = "ok"]  d == [A EXCEPT !.origin = Local]
    <3>1. disk' = [disk EXCEPT ![f] = d] /\ UNCHANGED docs
      BY <1>5, <2>3 DEF Create
    <3>2. A \in Folder
      BY DEF Absent, Folder, Origins
    <3> HIDE DEF A
    <3>3. d \in Folder /\ d.origin \notin Urls
      BY <3>2, PipelineAssumption DEF Folder, Origins
    <3> HIDE DEF d
    <3>4. disk' \in [Folders -> Folder] /\ HealthStep
      BY <1>1, <3>1, <3>3 DEF Typed, HealthStep, Healthy
    <3>5. Typed'
      BY <1>0, <1>1, <1>2, <2>1, <3>1, <3>4 DEF Typed, Starts
    <3> QED
      BY <1>0, <2>1, <3>4, <3>5, StartingKeeps
  <2> QED
    BY <2>2, <2>3
<1>6. ASSUME NEW f \in Folders, Activate(t, f) PROVE IInv'
  <2>1. Starts(t)
    BY <1>1, <1>6, EndsStarts, BeginsStarts DEF Activate, FirstPlaces
  <2> QED
    BY <1>3, <1>6, <2>1 DEF Activate
<1>7. ASSUME NEW f \in Folders, Delete(t, f) PROVE IInv'
  <2>1. Starts(t)
    BY <1>1, <1>7, BeginsStarts DEF Delete, FirstPlaces
  <2> QED
    BY <1>3, <1>7, <2>1 DEF Delete
<1>8. ASSUME NEW f \in Folders, Reindex(t, f) PROVE IInv'
  <2>1. Starts(t)
    BY <1>1, <1>8, EndsStarts, BeginsStarts DEF Reindex, FirstPlaces
  <2> QED
    BY <1>3, <1>8, <2>1 DEF Reindex
<1>9. ASSUME NEW f \in Folders, ReadDocs(t, f) PROVE IInv'
  <2>1. UNCHANGED disk /\ HealthStep
    BY <1>9 DEF ReadDocs, HealthStep, Healthy
  <2>2. docs' \in [Folders -> (SUBSET Paths) \cup {None}]
    <3>1. CASE UNCHANGED docs
      BY <1>1, <3>1 DEF Typed
    <3>2. CASE ~UNCHANGED docs
      <4> DEFINE r == CHOOSE r \in PersistedDocs(f) : TRUE
      <4>1. PersistedDocs(f) # {} /\ docs' = [docs EXCEPT ![f] = r.content]
        BY <1>9, <3>2 DEF ReadDocs
      <4>2. r \in records
        BY <4>1 DEF PersistedDocs, Listed
      <4> HIDE DEF r
      <4>3. r.content \in SUBSET Paths
        BY <1>1, <4>2 DEF Typed, Record
      <4> QED
        BY <1>1, <4>1, <4>3 DEF Typed
    <3> QED
      BY <3>1, <3>2
  <2>3. Starts(t)
    <3>1. CASE Ends(t, "ok") \/ Ends(t, "failed")
      BY <1>1, <3>1, EndsStarts
    <3>2. CASE ~(Ends(t, "ok") \/ Ends(t, "failed"))
      <4> DEFINE A == [Idle EXCEPT !.op = "docs"]  B == [A EXCEPT !.at = f]
                 C == [B EXCEPT !.tree = disk[f].tree]  D == [C EXCEPT !.pc = "generate"]
      <4>1. thread' = [thread EXCEPT ![t] = D]
        BY <1>9, <3>2 DEF ReadDocs
      <4>2. A \in ThreadState /\ A.op = "docs"
        BY IdleTyped DEF ThreadState, Ops
      <4> HIDE DEF A
      <4>3. B \in ThreadState /\ B.op = "docs" /\ B.at = f
        BY <4>2 DEF ThreadState
      <4> HIDE DEF B
      <4>4. disk[f].tree \in SUBSET Paths /\ "generate" \in Places
        BY <1>1 DEF Typed, Folder, Places
      <4>5. C \in ThreadState /\ C.op = "docs" /\ C.at = f
        BY <4>3, <4>4 DEF ThreadState
      <4> HIDE DEF C
      <4>6. D \in ThreadState /\ D.op = "docs" /\ D.at = f /\ D.pc = "generate"
        BY <4>4, <4>5 DEF ThreadState
      <4> HIDE DEF D
      <4>7. thread' \in [All -> ThreadState] /\ Others(t) /\ thread'[t] = D /\ t # Boot
        <5>1. t # Boot
          BY DEF Threads, Boot
        <5> QED
          BY <1>1, <4>1, <4>6, <5>1, Assigned DEF Typed
      <4> QED
        BY <4>6, <4>7 DEF Starts, Fits, Replaces, Holds, Answers, DeletedSoFar, ReindexedSoFar
    <3> QED
      BY <3>1, <3>2
  <2>4. Typed'
    BY <1>0, <1>1, <1>2, <2>1, <2>2, <2>3 DEF Typed, Starts
  <2> QED
    BY <1>0, <2>1, <2>3, <2>4, StartingKeeps
<1> QED
  BY <1>4, <1>5, <1>6, <1>7, <1>8, <1>9 DEF Request

-----------------------------------------------------------------------------
(* Edits, crashes and rehydration                                          *)

\* A thread at rest answers for nothing.
LEMMA RestingAnswers ==
  ASSUME NEW t, thread[t].pc \in Rest, Fits(t)
  PROVE  Answers(t) /\ thread[t].op = "none"
BY DEF Fits, Answers, DeletedSoFar, ReindexedSoFar, Rest, Cloning, Ingesting

LEMMA EditKeeps ==
  ASSUME IInv, NEW f \in Folders, Edit(f)
  PROVE  IInv'
<1>0. UNCHANGED <<tmp, lock, graph, records, docs, thread, crashes>> /\ mixed' = mixed \cup Busy
      /\ edits < MaxEdits /\ edits' = edits + 1
  BY DEF Edit
<1>1. Typed
  BY DEF IInv
<1>2. PICK p \in Paths : disk' = [disk EXCEPT ![f].tree = IF p \in @ THEN @ \ {p} ELSE @ \cup {p}]
  BY DEF Edit
<1>3. disk' \in [Folders -> Folder] /\ \A g \in Folders : Healthy(g)' <=> Healthy(g)
  <2> DEFINE tree == IF p \in disk[f].tree THEN disk[f].tree \ {p} ELSE disk[f].tree \cup {p}
  <2>1. tree \in SUBSET Paths
    BY <1>1 DEF Typed, Folder
  <2>2. disk' = [disk EXCEPT ![f].tree = tree]
    BY <1>2
  <2> HIDE DEF tree
  <2> QED
    BY <1>1, <2>1, <2>2 DEF Typed, Folder, Healthy
<1>4. Typed'
  <2>1. edits' \in 0 .. MaxEdits /\ mixed' \in SUBSET All
    BY <1>0, <1>1, PipelineAssumption DEF Typed, Busy
  <2> QED
    BY <1>0, <1>1, <1>3, <2>1 DEF Typed
<1>5. ASSUME NEW t \in All PROVE Fits(t)' /\ Replaces(t)'
  <2>1. Fits(t) /\ Replaces(t) /\ thread' = thread
    BY <1>0 DEF IInv
  <2>2. thread[t].pc \in {"clone", "cloning", "swap"} => thread[t].at \in Folders
    BY <2>1 DEF Fits, Rest
  <2>3. Fits(t)'
    BY <2>1 DEF Fits
  <2>4. ASSUME thread'[t].pc \in {"clone", "cloning", "swap"} PROVE (~Healthy(thread[t].at))'
    <3>1. PICK g \in Folders : g = thread[t].at /\ ~Healthy(g)'
      BY <1>3, <2>1, <2>2, <2>4 DEF Replaces
    <3> QED
      BY <2>1, <3>1 DEF Healthy
  <2> QED
    BY <2>3, <2>4 DEF Replaces
<1>6. Locks'
  BY <1>0 DEF IInv, Locks, Holds
<1>7. Busy' = Busy /\ Threads \subseteq All
  BY <1>0 DEF Busy, All
<1>8. Solo'
  BY <1>0, <1>7 DEF Solo
<1>9. ASSUME NEW t \in Threads \ mixed' PROVE Answers(t)'
  <2>1. thread'[t].pc \in Rest /\ Fits(t)'
    BY <1>0, <1>5, <1>7, <1>9 DEF Busy, Rest
  <2> QED
    BY <2>1 DEF Fits, Answers, DeletedSoFar, ReindexedSoFar, Rest, Cloning, Ingesting
<1> QED
  BY <1>4, <1>5, <1>6, <1>8, <1>9 DEF IInv, Answers

LEMMA EventsCounted ==
  ASSUME Typed
  PROVE  Events \in Nat /\ crashes <= Events
<1> DEFINE S == { t \in Threads : thread[t].pc # "idle" }
<1>1. IsFiniteSet(Threads)
  BY PipelineAssumption, FS_Interval DEF Threads
<1>2. IsFiniteSet(S)
  <2>1. S \subseteq Threads
    OBVIOUS
  <2> QED
    BY <1>1, <2>1, FS_Subset
<1>3. Cardinality(S) \in Nat
  BY <1>2, FS_CardinalityType
<1> HIDE DEF S
<1>4. Events = Cardinality(S) + crashes
  BY DEF Events, S
<1> QED
  BY <1>3, <1>4 DEF Typed

LEMMA CrashKeeps ==
  ASSUME IInv, CrashAndRestart
  PROVE  IInv'
<1> DEFINE A == [Idle EXCEPT !.op = "rehydrate"]
           boot == [A EXCEPT !.pc = "sweep temps"]
           dead == [Idle EXCEPT !.pc = "failed"]
<1>0. /\ UNCHANGED <<disk, tmp, records, edits>> /\ mixed' = {Boot} /\ crashes' = crashes + 1
      /\ lock' = [f \in Folders |-> None] /\ graph' = [f \in Folders |-> EmptyGraph]
      /\ docs' = [f \in Folders |-> None] /\ Events < MaxEvents
      /\ thread' = [t \in All |-> IF t = Boot THEN boot ELSE IF t \in Busy THEN dead ELSE thread[t]]
  BY DEF CrashAndRestart
<1>1. Typed /\ Boot \in All /\ Boot \notin Threads /\ Threads \subseteq All
  BY DEF IInv, All, Boot, Threads
<1>2. boot \in ThreadState /\ boot.op = "rehydrate" /\ boot.pc = "sweep temps"
  <2>1. A \in ThreadState /\ A.op = "rehydrate"
    BY IdleTyped DEF ThreadState, Ops
  <2> HIDE DEF A
  <2> QED
    BY <2>1 DEF ThreadState, Places
<1>3. dead \in ThreadState /\ dead.op = "none" /\ dead.pc = "failed"
  <2>1. Idle.op = "none" /\ "failed" \in Places
    BY DEF Idle, Places, Rest
  <2> QED
    BY <2>1, IdleTyped DEF ThreadState
<1> HIDE DEF boot, dead
<1>4. \A t \in All : t \notin Busy => thread[t].pc \in Rest /\ thread[t].op = "none"
  BY RestingAnswers DEF IInv, Busy, Rest
<1>5. Typed'
  <2>1. thread' \in [All -> ThreadState]
    BY <1>0, <1>1, <1>2, <1>3 DEF Typed
  <2>2. crashes' \in 0 .. MaxEvents
    BY <1>0, <1>1, EventsCounted, PipelineAssumption DEF Typed
  <2>3. /\ lock' \in [Folders -> All \cup {None}] /\ graph' \in [Folders -> GraphState]
        /\ docs' \in [Folders -> (SUBSET Paths) \cup {None}] /\ mixed' \in SUBSET All
    BY <1>0, <1>1, EmptyGraphTyped
  <2> QED
    BY <1>0, <1>1, <2>1, <2>2, <2>3 DEF Typed
<1>6. \A t \in All : \/ t = Boot /\ thread'[t].op = "rehydrate" /\ thread'[t].pc = "sweep temps"
                     \/ t # Boot /\ thread'[t].op = "none" /\ thread'[t].pc \in Rest
  BY <1>0, <1>2, <1>3, <1>4 DEF Rest
<1>7. \A t \in All : Fits(t)' /\ Replaces(t)' /\ ~Holds(t)'
  BY <1>6 DEF Fits, Replaces, Holds, Rest
<1>8. Locks'
  BY <1>0, <1>7 DEF Locks
<1>9. Solo'
  BY <1>1, <1>6 DEF Solo, Busy, Rest
<1>10. \A t \in Threads : Answers(t)'
  BY <1>1, <1>6 DEF Answers, DeletedSoFar, ReindexedSoFar, Rest
<1> QED
  BY <1>5, <1>7, <1>8, <1>9, <1>10 DEF IInv, Answers

LEMMA SweepTempsKeeps ==
  ASSUME IInv, SweepTemps
  PROVE  IInv'
<1> DEFINE todo == { f \in Folders : Exists(f) /\ ~HasGraph(f) }
           A == [thread[Boot] EXCEPT !.pc = "boot"]
           r == [A EXCEPT !.todo = todo]
<1>0. UNCHANGED <<disk, lock, graph, records, docs, mixed, edits, crashes>> /\ tmp' = {}
  BY DEF SweepTemps
<1>1. Typed /\ Boot \in All /\ Boot \notin Threads /\ thread[Boot].pc = "sweep temps" /\ Fits(Boot)
      /\ thread[Boot] \in ThreadState
  <2>1. Boot \in All /\ Boot \notin Threads
    BY DEF All, Boot, Threads
  <2>2. Typed /\ Fits(Boot) /\ thread[Boot].pc = "sweep temps"
    BY <2>1 DEF IInv, SweepTemps
  <2> QED
    BY <2>1, <2>2 DEF Typed
<1>2. thread[Boot].op = "rehydrate"
  BY <1>1 DEF Fits, Rest, Cloning, Ingesting
<1>3. thread' = [thread EXCEPT ![Boot] = r]
  BY <1>1 DEF SweepTemps, Typed
<1>4. todo \in SUBSET Folders
  OBVIOUS
<1> HIDE DEF todo
<1>5. A \in ThreadState /\ A.pc = "boot" /\ A.op = "rehydrate"
  BY <1>1, <1>2 DEF ThreadState, Places
<1> HIDE DEF A
<1>6. r \in ThreadState /\ r.pc = "boot" /\ r.op = "rehydrate"
  BY <1>4, <1>5 DEF ThreadState
<1> HIDE DEF r
<1>7. thread' \in [All -> ThreadState] /\ Others(Boot) /\ thread'[Boot] = r
  BY <1>1, <1>3, <1>6, Assigned DEF Typed
<1>8. Typed' /\ HealthStep
  BY <1>0, <1>1, <1>7 DEF Typed, HealthStep, Healthy
<1>9. Fits(Boot)' /\ Replaces(Boot)' /\ ~Holds(Boot)'
  BY <1>6, <1>7 DEF Fits, Replaces, Holds
<1>10. thread[Boot].pc \notin Rest /\ LockStep(Boot)
  BY <1>0, <1>1, <1>2, <1>9 DEF Rest, LockStep
<1> QED
  BY <1>0, <1>1, <1>7, <1>8, <1>9, <1>10, OneThreadSteps

LEMMA NextFolderKeeps ==
  ASSUME IInv, NextFolder
  PROVE  IInv'
<1>0. UNCHANGED <<disk, tmp, lock, graph, records, docs, mixed, edits, crashes>>
  BY DEF NextFolder
<1>1. Typed /\ Boot \in All /\ Boot \notin Threads /\ thread[Boot].pc = "boot" /\ Fits(Boot)
      /\ thread[Boot] \in ThreadState
  <2>1. Boot \in All /\ Boot \notin Threads
    BY DEF All, Boot, Threads
  <2>2. Typed /\ Fits(Boot) /\ thread[Boot].pc = "boot"
    BY <2>1 DEF IInv, NextFolder
  <2> QED
    BY <2>1, <2>2 DEF Typed
<1>2. thread[Boot].op = "rehydrate" /\ thread[Boot].pc \notin Rest /\ "ok" \in Rest
  BY <1>1 DEF Fits, Rest, Cloning, Ingesting
<1>3. HealthStep
  BY <1>0 DEF HealthStep, Healthy
<1>4. CASE Ends(Boot, "ok")
  <2>1. /\ thread' \in [All -> ThreadState] /\ Others(Boot)
        /\ thread'[Boot].pc \in Rest /\ thread'[Boot].op = "none"
    BY <1>1, <1>2, <1>4, EndsMoves DEF Typed
  <2>2. Typed'
    BY <1>0, <1>1, <2>1 DEF Typed
  <2> QED
    BY <1>0, <1>1, <1>2, <1>3, <2>1, <2>2, LeavingKeeps
<1>5. ASSUME NEW f \in thread[Boot].todo,
             thread' = [thread EXCEPT ![Boot].pc = IF disk[f].meta # None THEN "parse" ELSE "boot",
                                      ![Boot].at = f, ![Boot].todo = @ \ {f}]
      PROVE  IInv'
  <2> DEFINE pc == IF disk[f].meta # None THEN "parse" ELSE "boot"
             A == [thread[Boot] EXCEPT !.pc = pc]
             B == [A EXCEPT !.at = f]
             r == [B EXCEPT !.todo = thread[Boot].todo \ {f}]
  <2>1. f \in Folders /\ thread[Boot].todo \ {f} \in SUBSET Folders
    BY <1>1 DEF ThreadState
  <2>2. thread' = [thread EXCEPT ![Boot] = r]
    BY <1>1, <1>5 DEF Typed, ThreadState
  <2>3. pc \in {"parse", "boot"} /\ pc \in Places
    BY DEF Places, Ingesting
  <2> HIDE DEF pc
  <2>4. A \in ThreadState /\ A.pc = pc /\ A.op = "rehydrate"
    BY <1>1, <1>2, <2>3 DEF ThreadState
  <2> HIDE DEF A
  <2>5. B \in ThreadState /\ B.pc = pc /\ B.op = "rehydrate" /\ B.at = f
    BY <2>1, <2>4 DEF ThreadState
  <2> HIDE DEF B
  <2>6. r \in ThreadState /\ r.pc = pc /\ r.op = "rehydrate" /\ r.at = f
    BY <2>1, <2>5 DEF ThreadState
  <2> HIDE DEF r
  <2>7. thread' \in [All -> ThreadState] /\ Others(Boot) /\ thread'[Boot] = r
    BY <1>1, <2>2, <2>6, Assigned DEF Typed
  <2>8. Typed'
    BY <1>0, <1>1, <2>7 DEF Typed
  <2>9. Fits(Boot)' /\ Replaces(Boot)' /\ ~Holds(Boot)'
    BY <2>1, <2>3, <2>6, <2>7 DEF Fits, Replaces, Holds, Ingesting
  <2>10. LockStep(Boot)
    BY <1>0, <1>2, <2>9 DEF LockStep
  <2> QED
    BY <1>0, <1>1, <1>2, <1>3, <2>7, <2>8, <2>9, <2>10, OneThreadSteps
<1> QED
  BY <1>4, <1>5 DEF NextFolder

-----------------------------------------------------------------------------
(* The invariant                                                           *)

LEMMA StepKeeps ==
  ASSUME IInv, NEW t \in All, Step(t)
  PROVE  IInv'
BY LockFolderKeeps, StartCloneKeeps, FinishCloneKeeps, RemoveOldKeeps, RenameKeeps, WriteMetaKeeps,
   ScaffoldKeeps, ClearKeeps, ParseKeeps, SweepMemoryKeeps, FindDigestKeeps, WriteDigestKeeps,
   AddNodesKeeps, AddEdgesKeeps, FinishKeeps, RaiseKeeps, DeleteGraphKeeps, DeleteMemoryKeeps,
   DeleteFolderKeeps, PublishDocsKeeps, PersistDocsKeeps DEF Step

LEMMA StutterKeeps ==
  ASSUME IInv, UNCHANGED vars
  PROVE  IInv'
<1>1. Typed'
  <2>1. Typed
    BY DEF IInv
  <2>2. UNCHANGED <<disk, tmp, lock, graph, records, docs, thread, mixed, edits, crashes>>
    BY DEF vars
  <2> QED
    BY <2>1, <2>2 DEF Typed
<1>2. ASSUME NEW t \in All PROVE Fits(t)' /\ Replaces(t)'
  <2>1. Fits(t) /\ Replaces(t)
    BY DEF IInv
  <2>2. thread' = thread /\ disk' = disk
    BY DEF vars
  <2>3. Fits(t)'
    BY <2>1, <2>2 DEF Fits
  <2> QED
    BY <2>1, <2>2, <2>3 DEF Replaces, Healthy
<1>3. Locks' /\ Solo'
  BY DEF IInv, Locks, Holds, Solo, Busy, vars
<1>4. \A t \in Threads \ mixed' : DeletedSoFar(t)' /\ ReindexedSoFar(t)'
  BY DEF IInv, DeletedSoFar, ReindexedSoFar, ValidOf, Digests, vars
<1> QED
  BY <1>1, <1>2, <1>3, <1>4 DEF IInv

\* What is there when the server starts: nothing, or one loaded repository.
LEMMA LoadedTyped ==
  ASSUME NEW f \in Folders, NEW u \in Urls, Loaded(f, u)
  PROVE  disk \in [Folders -> Folder] /\ graph \in [Folders -> GraphState] /\ records \in SUBSET Record
<1> DEFINE g == WithNodes(EmptyGraph, Boot, Paths \cup {RepositoryNode, "health"})
           edges == {<<g.nodes["importer"], g.nodes["imported"], Boot>>}
           d == [Checkout(u) EXCEPT !.meta = u]
<1>1. Boot \in All
  BY DEF All
<1>2. disk \in [Folders -> Folder]
  <2>1. Checkout(u) \in Folder
    BY DEF Checkout, Folder, Origins
  <2>2. d \in Folder
    BY <2>1 DEF Folder, Origins
  <2>3. Absent \in Folder
    BY DEF Absent, Folder, Origins
  <2>4. disk = [x \in Folders |-> IF x = f THEN d ELSE Absent]
    BY DEF Loaded
  <2> QED
    BY <2>2, <2>3, <2>4
<1>3. graph \in [Folders -> GraphState]
  <2>1. Paths \cup {RepositoryNode, "health"} \in SUBSET NodeNames
    BY DEF NodeNames
  <2>2. /\ g \in GraphState /\ \A s \in DOMAIN g.nodes : g.nodes[s] \in NodeIds
        /\ DOMAIN g.nodes = DOMAIN EmptyGraph.nodes \cup (Paths \cup {RepositoryNode, "health"})
    BY <1>1, <2>1, EmptyGraphTyped, WithNodesTyped
  <2>3. graph = [x \in Folders |-> IF x = f THEN [g EXCEPT !.edges = edges] ELSE EmptyGraph]
    BY DEF Loaded
  <2> HIDE DEF g
  <2>4. edges \in SUBSET Edges
    BY <1>1, <2>2 DEF Edges, Paths
  <2> HIDE DEF edges
  <2>5. [g EXCEPT !.edges = edges] \in GraphState
    BY <2>2, <2>4 DEF GraphState
  <2> QED
    BY <2>3, <2>5, EmptyGraphTyped
<1>4. records \in SUBSET Record
  <2>1. /\ Paths \in SUBSET Paths /\ {} \in SUBSET Paths /\ {"layout", "health"} \subseteq Titles
        /\ TreeAnchor(Paths) \in Anchorings /\ Unanchored \in Anchorings
    BY DEF Titles, Anchorings
  <2>2. /\ Fact(Boot, f, "layout", Paths, "repo_load", TreeAnchor(Paths)) \in Record
        /\ Fact(Boot, f, "health", {}, "repo_load", Unanchored) \in Record
    BY <1>1, <2>1, FactTyped
  <2> QED
    BY <2>2 DEF Loaded
<1> QED
  BY <1>2, <1>3, <1>4

LEMMA InitInv ==
  Init => IInv
<1> SUFFICES ASSUME Init PROVE IInv
  OBVIOUS
<1>1. disk \in [Folders -> Folder] /\ graph \in [Folders -> GraphState] /\ records \in SUBSET Record
  <2>1. ASSUME NEW u \in Urls, Loaded(Candidates[u][1], u)
        PROVE  disk \in [Folders -> Folder] /\ graph \in [Folders -> GraphState] /\ records \in SUBSET Record
    <3>1. Candidates[u] \in Seq(Folders) /\ Candidates[u] # <<>>
      BY PipelineAssumption
    <3>2. Candidates[u][1] \in Folders
      BY <3>1
    <3> QED
      BY <2>1, <3>2, LoadedTyped
  <2>2. Absent \in Folder
    BY DEF Absent, Folder, Origins
  <2> QED
    BY <2>1, <2>2, EmptyGraphTyped DEF Init
<1>2. Typed
  <2>1. /\ thread \in [All -> ThreadState] /\ lock \in [Folders -> All \cup {None}]
        /\ docs \in [Folders -> (SUBSET Paths) \cup {None}]
    BY IdleTyped DEF Init
  <2>2. tmp \in SUBSET (Folders \X All) /\ mixed \in SUBSET All /\ edits \in 0 .. MaxEdits
        /\ crashes \in 0 .. MaxEvents
    BY PipelineAssumption DEF Init
  <2> QED
    BY <1>1, <2>1, <2>2 DEF Typed
<1>3. \A t \in All : thread[t].op = "none" /\ thread[t].pc = "idle"
  BY DEF Init, Idle
<1>4. \A t \in All : Fits(t) /\ Replaces(t) /\ ~Holds(t)
  BY <1>3 DEF Fits, Replaces, Holds, Rest
<1>5. Locks
  BY <1>4 DEF Locks, Init
<1>6. Solo
  BY <1>3 DEF Solo, Busy
<1>7. \A t \in Threads : DeletedSoFar(t) /\ ReindexedSoFar(t)
  BY <1>3 DEF All, DeletedSoFar, ReindexedSoFar
<1> QED
  BY <1>2, <1>4, <1>5, <1>6, <1>7 DEF IInv

\* The invariant holds throughout, whatever requests, crashes and edits there are.
THEOREM Invariance ==
  Spec => []IInv
<1>1. IInv /\ [Next]_vars => IInv'
  BY RequestKeeps, EditKeeps, StepKeeps, CrashKeeps, SweepTempsKeeps, NextFolderKeeps, StutterKeeps DEF Next
<1> QED
  BY <1>1, InitInv, PTL DEF Spec

-----------------------------------------------------------------------------
(* What follows from it                                                    *)

\* The type invariant.  A lock is held by a load of that folder and by nobody
\* else, however a load ends.
THEOREM TypeCorrect ==
  Spec => []TypeOK
<1>1. IInv => TypeOK
  <2> SUFFICES ASSUME IInv PROVE TypeOK
    OBVIOUS
  <2>1. Typed
    BY DEF IInv
  <2>2. \A f \in Folders : lock[f] # None => thread[lock[f]].op = "load" /\ thread[lock[f]].at = f
    BY DEF IInv, Locks, Holds
  <2>3. DOMAIN graph = Folders /\ DOMAIN thread = All
    BY <2>1 DEF Typed
  <2>4. \A f \in Folders : docs[f] \in (SUBSET Paths) \cup {None}
    BY <2>1 DEF Typed
  <2> QED
    BY <2>1, <2>2, <2>3, <2>4 DEF Typed, TypeOK, Folder
<1> QED
  BY <1>1, Invariance, PTL

\* A step of a thread that ends a folder's healthy clone is a delete's.
LEMMA OnlyDeleteRemovesClones ==
  ASSUME IInv, [Next]_vars, NEW f \in Folders, Healthy(f), ~Healthy(f)'
  PROVE  \E t \in Threads : thread[t].pc = "unlink" /\ thread[t].at = f
<1>1. disk' # disk /\ disk \in [Folders -> Folder] /\ disk[f].state = "ok" /\ disk[f].origin \in Urls
  BY DEF Healthy, IInv, Typed
<1>2. ASSUME NEW g, NEW d, disk' = [disk EXCEPT ![g] = d] PROVE g = f
  BY <1>1, <1>2 DEF Healthy
<1>3. ASSUME NEW t \in Threads, Request(t) PROVE FALSE
  <2>1. PICK g \in Folders : Create(t, g)
    BY <1>1, <1>3 DEF Request, Load, Activate, Delete, Reindex, ReadDocs
  <2>2. ~Exists(g) /\ disk' = [disk EXCEPT ![g] = [Absent EXCEPT !.state = "ok", !.origin = Local]]
    BY <1>1, <2>1 DEF Create
  <2>3. g = f
    BY <1>2, <2>2
  <2> QED
    BY <1>1, <2>2, <2>3 DEF Exists
<1>4. ASSUME NEW g \in Folders, Edit(g) PROVE FALSE
  BY <1>1, <1>4 DEF Edit, Healthy, Folder
<1>5. ASSUME NEW t \in All, Step(t) PROVE thread[t].pc = "unlink" /\ thread[t].at = f /\ t \in Threads
  <2>1. Fits(t) /\ Replaces(t)
    BY DEF IInv
  <2>2. RemoveOld(t) \/ Rename(t) \/ WriteMeta(t) \/ Scaffold(t) \/ DeleteFolder(t)
    BY <1>1, <1>5 DEF Step, LockFolder, StartClone, FinishClone, Clear, Parse, SweepMemory, FindDigest,
       WriteDigest, AddNodes, AddEdges, Finish, Raise, DeleteGraph, DeleteMemory, PublishDocs, PersistDocs
  <2>3. ASSUME RemoveOld(t) PROVE FALSE
    <3>1. \E d : disk' = [disk EXCEPT ![thread[t].at] = d]
      BY <2>3 DEF RemoveOld
    <3>2. thread[t].at = f /\ thread[t].pc = "swap"
      BY <1>2, <2>3, <3>1 DEF RemoveOld
    <3> QED
      BY <2>1, <3>2 DEF Replaces
  <2>4. ASSUME Rename(t) PROVE FALSE
    <3>1. ~Exists(thread[t].at) /\ disk' = [disk EXCEPT ![thread[t].at] = Checkout(thread[t].url)]
      BY <1>1, <2>4 DEF Rename
    <3>2. thread[t].at = f
      BY <1>2, <3>1
    <3> QED
      BY <1>1, <3>1, <3>2 DEF Exists
  <2>5. ASSUME WriteMeta(t) PROVE FALSE
    <3>1. disk' = [disk EXCEPT ![thread[t].at].meta = thread[t].url]
      BY <1>1, <2>5 DEF WriteMeta
    <3> QED
      BY <1>1, <3>1 DEF Healthy, Folder
  <2>6. ASSUME Scaffold(t) PROVE FALSE
    <3>1. disk' = [disk EXCEPT ![thread[t].at].meta = Local, ![thread[t].at].tree = @ \cup {"importer"}]
      BY <1>1, <2>6 DEF Scaffold
    <3> QED
      BY <1>1, <3>1 DEF Healthy, Folder
  <2>7. ASSUME DeleteFolder(t) PROVE thread[t].pc = "unlink" /\ thread[t].at = f /\ t \in Threads
    <3>1. \E d : disk' = [disk EXCEPT ![thread[t].at] = d]
      BY <2>7 DEF DeleteFolder
    <3>2. thread[t].at = f /\ thread[t].pc = "unlink"
      BY <1>2, <2>7, <3>1 DEF DeleteFolder
    <3>3. t # Boot
      BY <2>1, <3>2, WhereLoads
    <3> QED
      BY <3>2, <3>3 DEF All
  <2> QED
    BY <2>2, <2>3, <2>4, <2>5, <2>6, <2>7
<1>6. ~CrashAndRestart /\ ~SweepTemps /\ ~NextFolder /\ ~UNCHANGED vars
  BY <1>1 DEF CrashAndRestart, SweepTemps, NextFolder, vars
<1> QED
  BY <1>3, <1>4, <1>5, <1>6 DEF Next

\* A healthy clone is only ever removed by a delete of its folder: not by a load
\* that fails at any point, nor by a second load of the same folder.
THEOREM LoadsKeepClones ==
  Spec => ClonesSurviveLoads
<1>1. IInv /\ [Next]_vars =>
        [\A f \in Folders : Healthy(f) /\ ~Healthy(f)' =>
           \E t \in Threads : thread[t].pc = "unlink" /\ thread[t].at = f]_vars
  BY OnlyDeleteRemovesClones
<1> QED
  BY <1>1, Invariance, PTL DEF Spec, ClonesSurviveLoads

\* Every step is one thread's, as far as the threads go.
LEMMA StepMoves ==
  ASSUME Typed, NEW t \in All, Step(t)
  PROVE  Others(t)
<1>1. thread \in [All -> ThreadState]
  BY DEF Typed
<1>2. ASSUME NEW pc, At(t, pc) \/ Ends(t, pc) PROVE Others(t)
  BY <1>1, <1>2 DEF At, Ends, Others
<1>3. ASSUME Fails(t) PROVE Others(t)
  BY <1>2, <1>3 DEF Fails
<1>4. ASSUME LockFolder(t) \/ WriteMeta(t) PROVE Others(t)
  BY <1>1, <1>3, <1>4 DEF LockFolder, WriteMeta, Others
<1>5. ASSUME StartClone(t) \/ FinishClone(t) \/ RemoveOld(t) \/ Rename(t) \/ Scaffold(t) PROVE Others(t)
  BY <1>2, <1>3, <1>5 DEF StartClone, FinishClone, RemoveOld, Rename, Scaffold
<1>6. ASSUME Parse(t) \/ FindDigest(t) \/ WriteDigest(t) \/ AddNodes(t) PROVE Others(t)
  BY <1>1, <1>6 DEF Parse, FindDigest, WriteDigest, AddNodes, Others
<1>7. ASSUME Clear(t) \/ SweepMemory(t) \/ Finish(t) \/ Raise(t) PROVE Others(t)
  BY <1>2, <1>3, <1>7 DEF Clear, SweepMemory, Finish, Raise
<1>8. ASSUME AddEdges(t) PROVE Others(t)
  BY <1>1, <1>3, <1>8 DEF AddEdges, Others
<1>9. ASSUME DeleteGraph(t) \/ DeleteMemory(t) \/ DeleteFolder(t) \/ PublishDocs(t) \/ PersistDocs(t)
      PROVE  Others(t)
  BY <1>2, <1>9 DEF DeleteGraph, DeleteMemory, DeleteFolder, PublishDocs, PersistDocs
<1> QED
  BY <1>4, <1>5, <1>6, <1>7, <1>8, <1>9 DEF Step

LEMMA RequestMoves ==
  ASSUME Typed, NEW t \in Threads, Request(t)
  PROVE  Others(t)
<1>1. \E r : thread' = [thread EXCEPT ![t] = r]
  BY DEF Request, Load, Create, Activate, Delete, Reindex, ReadDocs, Ends, Begins
<1> QED
  BY <1>1 DEF Others, Typed

\* A thread that succeeds from its last place has taken its last step.
LEMMA LastStep ==
  ASSUME IInv, [Next]_vars, NEW t \in Threads, thread[t].pc \in {"score", "unlink"},
         thread'[t].pc = "ok"
  PROVE  IF thread[t].pc = "score" THEN Finish(t) ELSE DeleteFolder(t)
<1>1. Typed /\ thread \in [All -> ThreadState] /\ t \in All /\ t # Boot /\ Boot \in All
  BY DEF IInv, Typed, All, Threads, Boot
<1>2. thread'[t] # thread[t]
  OBVIOUS
<1>3. ASSUME NEW s \in Threads, Request(s) PROVE FALSE
  <2>1. s # t /\ s \in All
    BY <1>3 DEF Request, All
  <2> QED
    BY <1>1, <1>2, <1>3, <2>1, RequestMoves DEF Others
<1>4. ASSUME NEW s \in All, Step(s) PROVE s = t
  BY <1>1, <1>2, <1>4, StepMoves DEF Others
<1>5. ASSUME Step(t) PROVE Finish(t) \/ Raise(t) \/ DeleteFolder(t)
  BY <1>5 DEF Step, LockFolder, StartClone, FinishClone, RemoveOld, Rename, WriteMeta, Scaffold,
     Clear, Parse, SweepMemory, FindDigest, WriteDigest, AddNodes, AddEdges,
     DeleteGraph, DeleteMemory, PublishDocs, PersistDocs
<1>6. ~Raise(t)
  BY <1>1, FailsMoves DEF Raise
<1>7. ~CrashAndRestart
  BY <1>1 DEF CrashAndRestart, Busy, Idle
<1>8. ~SweepTemps /\ ~NextFolder
  BY <1>1, <1>2 DEF SweepTemps, NextFolder, Ends
<1>9. ASSUME NEW f \in Folders, Edit(f) PROVE FALSE
  BY <1>2, <1>9 DEF Edit
<1>10. ~UNCHANGED vars
  BY <1>2 DEF vars
<1> QED
  BY <1>3, <1>4, <1>5, <1>6, <1>7, <1>8, <1>9, <1>10 DEF Next, Finish, DeleteFolder

\* A reindex that has the server to itself makes graph, digest and docs those of
\* the folder, whatever races, failures and restarts came before.
LEMMA ReindexStep ==
  ASSUME IInv, [Next]_vars, NEW t \in Threads,
         thread[t].op = "reindex", thread[t].pc = "score", thread'[t].pc = "ok", t \notin mixed
  PROVE  LET f == thread[t].at IN
         /\ IsExact(graph'[f], disk[f].tree)
         /\ \E r \in records' : r.valid /\ r.repo = f /\ r.title = "layout"
         /\ \A r \in records' : r.valid /\ r.repo = f => ~IsStale(r, TreeAnchor(disk[f].tree))
         /\ docs'[f] = None
<1> DEFINE f == thread[t].at
           g == WithNodes(graph[f], t, {"health"})
           s == Fact(t, f, "health", {}, "repo_load", Unanchored)
           hashes == TreeAnchor(disk[f].tree)
<1>1. Finish(t) /\ t \in All /\ Typed /\ Fits(t) /\ ReindexedSoFar(t)
  BY LastStep DEF IInv, All
<1>2. f \in Folders
  BY <1>1, WhereLoads DEF Ingesting
<1>3. docs' = docs /\ graph' = [graph EXCEPT ![f] = g] /\ records' = Added(records, s)
  BY <1>1 DEF Finish
<1>4. /\ IsExact(graph[f], disk[f].tree) /\ docs[f] = None /\ Digests(f) # {}
      /\ \A r \in ValidOf(f) : ~IsStale(r, hashes)
  BY <1>1 DEF ReindexedSoFar, Ingesting
<1>5. s \in Record /\ s.title = "health" /\ ~IsStale(s, hashes)
  <2>1. "health" \in Titles /\ {} \in SUBSET Paths /\ Unanchored \in Anchorings
    BY DEF Titles, Anchorings
  <2>2. s \in Record /\ s.anchors = Unanchored
    BY <1>1, <1>2, <2>1, FactTyped
  <2> QED
    BY <2>2 DEF IsStale, Unanchored, Fact
<1>6. /\ g.edges = graph[f].edges
      /\ DOMAIN g.nodes = DOMAIN graph[f].nodes \cup {"health"}
      /\ \A x \in DOMAIN graph[f].nodes : g.nodes[x] = graph[f].nodes[x]
  <2>1. {"health"} \in SUBSET NodeNames /\ graph[f] \in GraphState
    BY <1>1, <1>2 DEF NodeNames, Typed
  <2> QED
    BY <1>1, <2>1, WithNodesTyped
<1> HIDE DEF g, s
<1>7. graph'[f] = g /\ records \in SUBSET Record
  BY <1>1, <1>2, <1>3 DEF Typed
<1>8. IsExact(g, disk[f].tree)
  <2>1. DOMAIN g.nodes \ {"health"} = disk[f].tree \cup {RepositoryNode}
    BY <1>4, <1>6 DEF IsExact
  <2>2. Live(graph[f]) \subseteq Live(g)
    BY <1>6 DEF Live
  <2> QED
    BY <1>4, <1>6, <2>1, <2>2 DEF IsExact
<1>9. \E r \in records' : r.valid /\ r.repo = f /\ r.title = "layout"
  <2>1. PICK r \in records : r.valid /\ r.repo = f /\ r.title = "layout"
    BY <1>4 DEF Digests, ValidOf
  <2>2. ~SameFact(r, s)
    BY <1>5, <2>1 DEF SameFact
  <2>3. r \in records'
    BY <1>3, <1>5, <1>7, <2>2, AddedTyped
  <2> QED
    BY <2>1, <2>3
<1>10. NoneStale(records', f, hashes)
  <2>1. NoneStale(records, f, hashes)
    BY <1>4 DEF NoneStale, ValidOf
  <2> QED
    BY <1>3, <1>5, <1>7, <2>1, AddedStale
<1> QED
  BY <1>3, <1>4, <1>7, <1>8, <1>9, <1>10 DEF NoneStale

\* Whatever earlier races, failures and restarts left behind, a reindex that had
\* the server to itself makes the graph and the memory those of the folder.
THEOREM ReindexLeavesExactGraph ==
  Spec => ReindexRepairs
<1>1. IInv /\ [Next]_vars =>
        [\A t \in Threads :
           LET f == thread[t].at IN
           (thread[t].op = "reindex" /\ thread[t].pc = "score" /\ thread'[t].pc = "ok" /\ t \notin mixed)
           => /\ IsExact(graph'[f], disk[f].tree)
              /\ \E r \in records' : r.valid /\ r.repo = f /\ r.title = "layout"
              /\ \A r \in records' : r.valid /\ r.repo = f => ~IsStale(r, TreeAnchor(disk[f].tree))
              /\ docs'[f] = None]_vars
  BY ReindexStep
<1> QED
  BY <1>1, Invariance, PTL DEF Spec, ReindexRepairs

\* A delete that succeeds and had the server to itself leaves no folder, no node,
\* no record and no docs.
LEMMA DeleteStep ==
  ASSUME IInv, [Next]_vars, NEW t \in Threads,
         thread[t].pc = "unlink", thread'[t].pc = "ok", t \notin mixed
  PROVE  LET f == thread[t].at IN
         /\ disk'[f] = Absent /\ graph'[f] = EmptyGraph /\ docs'[f] = None
         /\ ~HasRepository(records', f)
<1> DEFINE f == thread[t].at
<1>1. DeleteFolder(t) /\ t \in All /\ Typed /\ Fits(t) /\ DeletedSoFar(t)
  BY LastStep DEF IInv, All
<1>2. f \in Folders
  BY <1>1, WhereLoads
<1>3. ~Ends(t, "failed")
  <2>1. "failed" \in Rest /\ thread \in [All -> ThreadState]
    BY <1>1 DEF Rest, Typed
  <2> QED
    BY <1>1, <2>1, EndsMoves
<1>4. disk' = [disk EXCEPT ![f] = Absent] /\ UNCHANGED <<graph, records, docs>>
  BY <1>1, <1>3 DEF DeleteFolder
<1>5. graph[f] = EmptyGraph /\ docs[f] = None /\ ~HasRepository(records, f)
  BY <1>1 DEF DeletedSoFar
<1> QED
  BY <1>1, <1>2, <1>4, <1>5 DEF Typed

\* A repository that was deleted by nobody else at the time is forgotten entirely.
THEOREM DeleteLeavesNothing ==
  Spec => DeleteForgets
<1>1. IInv /\ [Next]_vars =>
        [\A t \in Threads :
           LET f == thread[t].at IN
           (thread[t].pc = "unlink" /\ thread'[t].pc = "ok" /\ t \notin mixed)
           => /\ disk'[f] = Absent /\ graph'[f] = EmptyGraph /\ docs'[f] = None
              /\ ~HasRepository(records', f)]_vars
  BY DeleteStep
<1> QED
  BY <1>1, Invariance, PTL DEF Spec, DeleteForgets
=============================================================================
