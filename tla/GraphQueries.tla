---------------------------- MODULE GraphQueries ----------------------------
(***************************************************************************)
(* What the agents read off the graph: the blast radius of a change        *)
(* (backend/agents/impact.py), the planner's (planner.py), the context of  *)
(* a question (retrieval.py), the files whose payloads outlive compaction  *)
(* (context_window.py) and the grade of a change's risk, as operators over *)
(* a sequence of edges [from, to, conf], in the order the store lists      *)
(* them, with confidences in tenths; and the graph as it was at a time     *)
(* (graph/repository.py, graph/service.py).                                *)
(***************************************************************************)
EXTENDS Naturals, Sequences, FiniteSets, SequencesExt, FiniteSetsExt

Certain == 10

\* dependents and outgoing: the edges out of a node, in order; what depends on a
\* node is what the flipped edges lead to.
From(edges, n) == SelectSeq(edges, LAMBDA e : e.from = n)
Flipped(edges) == [i \in DOMAIN edges |-> [edges[i] EXCEPT !.from = edges[i].to, !.to = edges[i].from]]

Merge(f, x, v) == [y \in DOMAIN f \cup {x} |-> IF y = x THEN v ELSE f[y]]

\* Wrong: a node at the limit still hands its dependents on
MayExpandPast(depth, limit) == depth <= limit
MayExpand(depth, limit) == depth < limit

\* One node taken off the queue: its unseen neighbours join the radius.
Visit(r, n, edges) ==
  LET Reach(acc, e) ==
        IF e.to \in DOMAIN acc.depth THEN acc
        ELSE [acc EXCEPT !.depth = Merge(@, e.to, r.depth[n] + 1),
                         !.parent = Merge(@, e.to, n),
                         !.conf = Merge(@, e.to, IF r.conf[n] < e.conf THEN r.conf[n] ELSE e.conf),
                         !.queue = Append(@, e.to)]
  IN  FoldLeft(Reach, r, From(edges, n))

Start(targets) ==
  [queue |-> targets, parent |-> <<>>,
   depth |-> [t \in ToSet(targets) |-> 0], conf |-> [t \in ToSet(targets) |-> Certain]]

\* blast_radius_ids and compute_blast_radius are the same search, over the
\* edges into a node and over the edges out of it.  (On a first-in first-out
\* queue a node is never reached again on a shorter path, so that the queue is
\* empty after as many steps as there are nodes.)
Dequeue(r, limit, edges) ==
  IF r.queue = <<>> THEN r
  ELSE LET n    == Head(r.queue)
           rest == [r EXCEPT !.queue = Tail(@)]
       IN  IF MayExpand(r.depth[n], limit) THEN Visit(rest, n, edges) ELSE rest

Explore(targets, limit, edges) ==
  LET After[k \in 0 .. Len(targets) + Len(edges)] ==
        IF k = 0 THEN Start(targets) ELSE Dequeue(After[k - 1], limit, edges)
  IN  After[Len(targets) + Len(edges)]

BlastRadius(edges, targets, limit) == Explore(targets, limit, Flipped(edges))
Downstream(edges, changed, limit)  == Explore(changed, limit, edges)

Affected(r) == DOMAIN r.parent

\* relevant_paths: the file last touched and what depends on it within two steps.
Relevant(edges, file) == {file} \cup Affected(BlastRadius(edges, <<file>>, 2))

\* assemble: the nodes within some hops of the seeds, every edge out of a node
\* that was expanded, and the nodes a search found.
Assembled(edges, seeds, hops, hits) ==
  LET r == Downstream(edges, seeds, hops)
  IN  [nodes |-> DOMAIN r.depth \cup hits,
       edges |-> { i \in DOMAIN edges :
                     edges[i].from \in DOMAIN r.depth /\ MayExpand(r.depth[edges[i].from], hops) }]

\* _grade, then the floor of a root component and the pardon of a cosmetic edit;
\* levels are None, Low, Medium, High, Critical.
Size(affected) ==
  IF affected = 0 THEN 0 ELSE IF affected <= 2 THEN 1
  ELSE IF affected <= 6 THEN 2 ELSE IF affected <= 12 THEN 3 ELSE 4
Grade(affected, conf) == IF conf < 5 /\ Size(affected) > 1 THEN Size(affected) - 1 ELSE Size(affected)

Level(affected, conf, mounted, composes, cosmetic) ==
  LET floor == IF ~mounted \/ composes < 5 THEN 0 ELSE IF composes >= 10 THEN 3 ELSE 2
  IN  IF cosmetic THEN 0 ELSE IF Grade(affected, conf) < floor THEN floor ELSE Grade(affected, conf)

-----------------------------------------------------------------------------
(* The graph at a time (graph/repository.py and service.py).  A node is    *)
(* [id, created]; an edge [from, to, since, until, created], until Open    *)
(* while it holds.  Reading the store as it is now takes the time Now.     *)

Open == 0
Now  == 0

HeldAt(e, t)     == e.since <= t /\ (e.until = Open \/ e.until > t)
EdgesAt(edges, t) == { e \in edges : IF t = Now THEN e.until = Open ELSE HeldAt(e, t) }
EndsOf(edges)    == UNION { {e.from, e.to} : e \in edges }

\* A node is older than it is known to be when an edge was dated back to it.
SnapshotAt(nodes, edges, t) ==
  LET active == EdgesAt(edges, t)
      shown  == { n \in nodes : n.created <= t \/ n.id \in EndsOf(active) }
  IN  IF t = Now THEN [nodes |-> nodes, edges |-> active]
      ELSE [nodes |-> shown, edges |-> { e \in active : {e.from, e.to} \subseteq { n.id : n \in shown } }]

Timeline(nodes, edges) ==
  LET times == { n.created : n \in nodes } \cup UNION { {e.since, e.created, e.until} \ {Open} : e \in edges }
  IN  IF times = {} THEN <<>> ELSE <<Min(times), Max(times)>>

-----------------------------------------------------------------------------
(* The card a change is approved by (impact.py, analyze).  Nodes are a     *)
(* sequence of [id, type, path, names, repo], path being a file's or that  *)
(* of the file a symbol is in, as its segments, names what a message may   *)
(* call the node by and repo "" where a node belongs to none.  An edge     *)
(* also has a type here.  A description is [mentions, near, words,         *)
(* cosmetic]: the paths in it, the file names each is close to, the words, *)
(* and whether it is about comments or formatting only.                    *)

Dependencies == {"imports", "depends_on", "calls", "flows_into", "correlates_with"}
Targetable   == {"File", "CodeSymbol", "ApiRoute", "SchemaField", "Repository"}
EntryNames   == {"main", "index"}

FirstSix(s) == SubSeq(s, 1, IF Len(s) < 6 THEN Len(s) ELSE 6)
Ids(ns) == { n.id : n \in ToSet(ns) }
Typed(ns, type) == SelectSeq(ns, LAMBDA n : n.type = type)

\* The last file of the name that is closest to a mention.
MeantAbout(n, files, d) ==
  \E m \in d.mentions :
    LET near == SelectSeq(d.near[m], LAMBDA b : \E f \in ToSet(files) : Last(f.path) = b)
    IN  near # <<>> /\ n = Last(SelectSeq(files, LAMBDA f : Last(f.path) = near[1]))

\* A file that is named is the target; otherwise whatever goes by a word of the
\* description, symbols first.
ResolveTargets(nodes, d) ==
  LET files == Typed(nodes, "File")
      exact == SelectSeq(files, LAMBDA n : n.path \in d.mentions)
      named == SelectSeq(files, LAMBDA n : <<Last(n.path)>> \in d.mentions)
      about == SelectSeq(files, LAMBDA n : MeantAbout(n, files, d))
      said  == SelectSeq(nodes, LAMBDA n : n.type \in Targetable /\ n.names \cap d.words # {})
  IN  FirstSix(IF exact # <<>> THEN exact ELSE IF named # <<>> THEN named ELSE IF about # <<>> THEN about
               ELSE Typed(said, "CodeSymbol") \o Typed(said, "File")
                    \o SelectSeq(said, LAMBDA n : n.type \notin {"CodeSymbol", "File"}))

\* A file's own symbols change with it.
Changed(nodes, targets) ==
  Ids(targets) \cup { n.id : n \in { s \in ToSet(Typed(nodes, "CodeSymbol")) : \E t \in ToSet(Typed(targets, "File")) : t.path = s.path } }

Composes(t, edges) == Cardinality({ e.to : e \in { d \in ToSet(edges) : d.type = "imports" /\ d.from = t.id } })
Mounted(t, nodes, edges) ==
  Last(t.path) \in EntryNames
  \/ \E e \in ToSet(edges), n \in ToSet(nodes) :
       e.type = "imports" /\ e.to = t.id /\ e.from = n.id /\ n.path # <<>> /\ Last(n.path) \in EntryNames

\* The ways a change reaches what it affects, longest first, none inside another.
Chains(r) ==
  LET Way[n \in DOMAIN r.depth] == IF n \in DOMAIN r.parent THEN Append(Way[r.parent[n]], n) ELSE <<n>>
      deepest == SortSeq(SetToSeq(Affected(r)), LAMBDA m, n : r.depth[m] > r.depth[n])
      Show(ways, n) == IF Len(ways) = 3 \/ \E w \in ToSet(ways) : n \in ToSet(w) THEN ways ELSE Append(ways, Way[n])
  IN  FoldLeft(Show, <<>>, deepest)

\* _coupling_incident_risks: a file that was implicated in an incident, and its cause.
IncidentRisks(nodes, edges, reached) ==
  { <<e.from, e.to>> : e \in { d \in ToSet(edges) :
      /\ d.type = "correlates_with" /\ d.from \in reached \cap Ids(nodes)
      /\ \E n \in ToSet(nodes) : n.id = d.to /\ n.type = "root_cause" } }

EdgesWithin(edges, type, reached) == Len(SelectSeq(edges, LAMBDA e : e.type = type /\ {e.from, e.to} \subseteq reached))

\* The card of what a search found; nodes are those of the repository.
CardOf(nodes, edges, d, targets, r) ==
  LET affected == SelectSeq(nodes, LAMBDA n : n.id \in Affected(r))
      reached  == Ids(targets) \cup Affected(r)
      files    == Typed(targets, "File")
      composes == Max({0} \cup { Composes(t, edges) : t \in ToSet(files) })
      root     == \E t \in ToSet(files) : Mounted(t, nodes, edges) /\ Composes(t, edges) >= 5
      conf     == IF affected = <<>> THEN Certain ELSE Min({ r.conf[n] : n \in Affected(r) })
  IN  [targets    |-> targets,
       affected   |-> Ids(affected),
       confidence |-> conf,
       level      |-> Level(Len(affected), conf, root, composes, d.cosmetic),
       calls      |-> EdgesWithin(edges, "calls", reached),
       imports    |-> EdgesWithin(edges, "imports", reached),
       touched    |-> { n.path : n \in { m \in ToSet(affected) : m.type \in {"File", "CodeSymbol"} } },
       chains     |-> Chains(r),
       risks      |-> IncidentRisks(nodes, edges, reached)]

\* A change that names nothing the graph knows has no card.
CardFor(nodes, edges, d, limit) ==
  LET targets == ResolveTargets(nodes, d)
      depends == SelectSeq(edges, LAMBDA e : e.type \in Dependencies)
  IN  IF targets = <<>> THEN <<>>
      ELSE <<CardOf(nodes, edges, d, targets, BlastRadius(depends, SetToSeq(Changed(nodes, targets)), limit))>>

Card(nodes, edges, d, repo, limit) == CardFor(SelectSeq(nodes, LAMBDA n : n.repo = repo), edges, d, limit)

=============================================================================
