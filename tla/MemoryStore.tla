----------------------------- MODULE MemoryStore -----------------------------
(***************************************************************************)
(* Who writes and withdraws the memory of one repository, while its files  *)
(* change: the ingestion that sweeps it and rewrites the digest            *)
(* (repository/api.py, _ingest and _mem), the jobs that record what they   *)
(* did (memory/experience.py), users (memory/records_api.py), the          *)
(* retrieval that checks what it serves (memory/context.py) and delete.    *)
(* Each operation of the store holds its lock; what a caller read before   *)
(* calling may have changed since.                                         *)
(***************************************************************************)
EXTENDS MemoryRecords

CONSTANTS
  Jobs,         \* job ids that record experience
  Notes,        \* contents a user may write under the digest's title
  Nothing,      \* no tree
  Checkouts,    \* the trees the working copy goes through
  MaxEdits,     \* bound: changes of the working tree
  MaxRecords    \* bound: records ever made

\* A source file that is absent or defines f, or f and a caller g of it, and
\* a manifest that is absent or present.
Trees == [src : {"absent", "f", "f and g"}, manifest : {"absent", "present"}]

ASSUME MemoryAssumption ==
  /\ Checkouts \subseteq Trees
  /\ MaxEdits \in Nat /\ MaxRecords \in Nat

VARIABLES
  records,      \* MemoryStore._records
  workspace,    \* the repository on disk
  ingest,       \* an ingestion under way
  recorder,     \* per job, its record_job_experience
  edits, minted,
  observed      \* history: per record id, the tree its writer last looked at

vars == <<records, workspace, ingest, recorder, edits, minted, observed>>

Repo == "repo"

Symbols(tree) ==
  IF tree.src = "absent" THEN {} ELSE IF tree.src = "f" THEN {"f"} ELSE {"f", "g"}

Missing == {"<subject does not exist>"}

\* QueryIndex.result for callers(f): that f is gone differs from no caller.
CallersOfF(tree) == IF "f" \in Symbols(tree) THEN Symbols(tree) \ {"f"} ELSE Missing

\* What every kind of anchor hashes, over one tree
Hashes(tree) ==
  [s \in {"file:src", "file:manifest", "symbol:f", "tree", "symbols_index", "query:callers(f)"} |->
     CASE s = "file:src"         -> {tree.src}
       [] s = "file:manifest"    -> {tree.manifest}
       [] s = "symbol:f"         -> IF "f" \in Symbols(tree) THEN {tree.src} ELSE {}
       [] s = "tree"             -> { f \in DOMAIN tree : tree[f] # "absent" }
       [] s = "symbols_index"    -> Symbols(tree)
       [] s = "query:callers(f)" -> CallersOfF(tree)]

AnchorsTo(subjects, tree) == [s \in subjects |-> Hashes(tree)[s]]

NewRecord(type, title, content, source, anchors) ==
  [id |-> minted + 1, repo |-> Repo, type |-> type, title |-> title, content |-> content,
   source |-> source, trust |-> FullTrust, count |-> 1, valid |-> TRUE,
   anchors |-> anchors, outdated |-> FALSE]

\* A call of MemoryStore.add by a writer that looked at tree
Write(r, tree) ==
  /\ minted < MaxRecords
  /\ minted' = minted + 1
  /\ records' = Added(records, r)
  /\ observed' = [i \in { x.id : x \in { y \in Added(records, r) : IsAnchored(y) } } |->
       IF i = r.id \/ (IsAnchored(r) /\ \E c \in CurrentFor(records, r) :
                         c.id = i /\ Resolution(c, r) = "corroborate")
         THEN tree ELSE observed[i]]

Init ==
  /\ records = {}
  /\ workspace \in Checkouts
  /\ ingest = [pc |-> "rest", tree |-> Nothing, found |-> {}]
  /\ recorder = [j \in Jobs |-> [pc |-> "working", tree |-> Nothing, status |-> "done"]]
  /\ edits = 0 /\ minted = 0
  /\ observed = [i \in {} |-> Nothing]

-----------------------------------------------------------------------------
(* The working tree, and the user                                          *)

Edit ==
  /\ edits < MaxEdits
  /\ workspace' \in Checkouts \ {workspace}
  /\ edits' = edits + 1
  /\ UNCHANGED <<records, ingest, recorder, minted, observed>>

\* POST /memory/records: no anchors, no source
Remember(note) ==
  /\ Write(NewRecord("semantic", "layout", note, "user", Unanchored), workspace)
  /\ UNCHANGED <<workspace, ingest, recorder, edits>>

\* DELETE /repository/{name}, its part in the store
Delete ==
  /\ records' = Forgotten(records, Repo)
  /\ UNCHANGED <<workspace, ingest, recorder, edits, minted, observed>>

-----------------------------------------------------------------------------
(* _ingest: parse, sweep against the parse, then the digest facts          *)

Parse ==
  /\ ingest.pc = "rest"
  /\ ingest' = [ingest EXCEPT !.pc = "sweep", !.tree = workspace]
  /\ UNCHANGED <<records, workspace, recorder, edits, minted, observed>>

\* Files are hashed on disk now, everything else comes from the parse.
SweptHashes ==
  [s \in DOMAIN Hashes(workspace) |->
     IF s \in {"file:src", "file:manifest"} THEN Hashes(workspace)[s] ELSE Hashes(ingest.tree)[s]]

Sweep ==
  /\ ingest.pc = "sweep"
  /\ records' = Swept(records, Repo, SweptHashes)
  /\ ingest' = [ingest EXCEPT !.pc = "find"]
  /\ UNCHANGED <<workspace, recorder, edits, minted, observed>>

DigestContent(tree) == Hashes(tree)["tree"]

\* _mem: the current digest, if it says something else
FindDigest ==
  /\ ingest.pc = "find"
  /\ ingest' = [ingest EXCEPT !.pc = "retire",
       !.found = { r.id : r \in { x \in Listed(records, Repo, {"semantic"}) :
                     /\ x.title = "layout" /\ x.source = "repo_load"
                     /\ x.content # DigestContent(ingest.tree) } }]
  /\ UNCHANGED <<records, workspace, recorder, edits, minted, observed>>

RetireDigest ==
  /\ ingest.pc = "retire"
  /\ records' = Invalidated(records, ingest.found)
  /\ ingest' = [ingest EXCEPT !.pc = "write", !.found = {}]
  /\ UNCHANGED <<workspace, recorder, edits, minted, observed>>

WriteDigest ==
  /\ ingest.pc = "write"
  /\ Write(NewRecord("semantic", "layout", DigestContent(ingest.tree), "repo_load",
                     AnchorsTo({"tree"}, ingest.tree)), ingest.tree)
  /\ ingest' = [ingest EXCEPT !.pc = "rest", !.tree = Nothing]
  /\ UNCHANGED <<workspace, recorder, edits>>

-----------------------------------------------------------------------------
(* record_job_experience: retire the job's earlier episode, write the new  *)
(* one, then each command that exited 0.  A finished job may be continued  *)
(* and end, and record, again.                                             *)

RetireEpisodes(j) ==
  /\ recorder[j].pc = "working"
  /\ \E status \in {"done", "error"} :
       recorder' = [recorder EXCEPT ![j] = [pc |-> "episode", tree |-> workspace, status |-> status]]
  /\ records' = Invalidated(records,
       { r.id : r \in { x \in Listed(records, Repo, Historical) : x.source = j } })
  /\ UNCHANGED <<workspace, ingest, edits, minted, observed>>

WriteEpisode(j) ==
  /\ recorder[j].pc = "episode"
  /\ Write(NewRecord("episodic", j, {recorder[j].status}, j,
                     AnchorsTo({"file:src"}, recorder[j].tree)), recorder[j].tree)
  /\ recorder' = [recorder EXCEPT ![j] = [pc |-> "command", tree |-> Nothing, status |-> "done"]]
  /\ UNCHANGED <<workspace, ingest, edits>>

\* A job without a verified command ends here.
WriteCommand(j) ==
  /\ recorder[j].pc = "command"
  /\ recorder' = [recorder EXCEPT ![j].pc = "working"]
  /\ \/ Write(NewRecord("procedural", "command", {"exit 0"}, j,
                        AnchorsTo({"file:manifest"}, workspace)), workspace)
     \/ UNCHANGED <<records, minted, observed>>
  /\ UNCHANGED <<workspace, ingest, edits>>

-----------------------------------------------------------------------------
(* _fresh_records: before serving, records anchored to files only are      *)
(* checked against the disk; what is stale is withdrawn or flagged.        *)

OnlyFiles(r) == IsAnchored(r) /\ DOMAIN r.anchors \subseteq {"file:src", "file:manifest"}

Retrieve ==
  /\ records' = { IF OnlyFiles(r) THEN Rechecked(r, Hashes(workspace)) ELSE r : r \in records }
  /\ UNCHANGED <<workspace, ingest, recorder, edits, minted, observed>>

Next ==
  \/ Edit
  \/ \E note \in Notes : Remember(note)
  \/ Delete
  \/ Parse \/ Sweep \/ FindDigest \/ RetireDigest \/ WriteDigest
  \/ \E j \in Jobs : RetireEpisodes(j) \/ WriteEpisode(j) \/ WriteCommand(j)
  \/ Retrieve

Spec == Init /\ [][Next]_vars

-----------------------------------------------------------------------------
\* However writers interleave, and whichever of them lost an argument, a fact
\* has one current record at most (store.py, add: no "two same-titled records
\* ... with no record of which was current").
OneCurrentFact ==
  \A r, s \in records : r.valid /\ s.valid /\ SameFact(r, s) => r = s

\* A record's anchors are the tree its writer, or whoever confirmed it last,
\* looked at: a confirmed fact is not held against the tree it was first
\* written against (store.py, add).
AnchorsAreLastObservation ==
  \A r \in records : \A s \in DOMAIN r.anchors : r.anchors[s] = Hashes(observed[r.id])[s]

\* What a record says is current is the only thing that does, and was looked at when
\* its anchors say (store.py, add).
FactsAreCurrent == OneCurrentFact /\ AnchorsAreLastObservation

\* History is flagged and never withdrawn: an episode goes only when its own
\* job records again or the repository is deleted, however often the code it
\* touched changes under sweeps and retrievals (anchors.py, sweep_repository;
\* experience.py).
HistoryIsKept ==
  [][\A r \in records : r.valid /\ r.type \in Historical =>
       \/ \E s \in records' : s.id = r.id /\ s.valid
       \/ recorder'[r.source].pc = "episode"
       \/ records' = {}]_vars
=============================================================================
