----------------------------- MODULE CodeLookup -----------------------------
(***************************************************************************)
(* What the code tools answer from the graph (backend/agents/tools.py), as *)
(* operators over a sequence of nodes [type, repo, file, name, owner,      *)
(* kind, hash], named by their places, and a sequence of edges [from, to,  *)
(* type].  Every list an answer holds is cut to a length of its own.       *)
(***************************************************************************)
EXTENDS Naturals, Sequences, FiniteSets, SequencesExt, FiniteSetsExt

Cap(s, n) == SubSeq(s, 1, IF Len(s) < n THEN Len(s) ELSE n)

\* The nodes, in order, of which something holds.
Which(nodes, Is(_)) == SelectSeq([i \in DOMAIN nodes |-> i], Is)

InRepo(n, repo) == n.repo = (IF repo = "codexa-os" THEN "" ELSE repo)
Symbols(nodes, repo) == Which(nodes, LAMBDA i : nodes[i].type = "CodeSymbol" /\ InRepo(nodes[i], repo))

\* _list_symbols
ListSymbols(nodes, repo, file, kind) ==
  SelectSeq(Symbols(nodes, repo), LAMBDA i : file \in {"", nodes[i].file} /\ kind \in {"", nodes[i].kind})

\* _get_file_outline: by kind, the usual kinds first.
Kinds == <<"class", "function", "method", "hook", "component", "variable", "type", "interface">>
FileOutline(nodes, repo, file) ==
  LET there == ListSymbols(nodes, repo, file, "")
      of(k) == SelectSeq(there, LAMBDA i : nodes[i].kind = k)
      rest  == SelectSeq(there, LAMBDA i : nodes[i].kind \notin ToSet(Kinds))
  IN  FoldLeft(LAMBDA acc, k : acc \o of(k), <<>>, Kinds) \o rest

-----------------------------------------------------------------------------
Into(edges, i, types)  == SelectSeq(edges, LAMBDA e : e.to = i /\ e.type \in types)
OutOf(edges, i, types) == SelectSeq(edges, LAMBDA e : e.from = i /\ e.type \in types)
Sources(es) == [k \in DOMAIN es |-> es[k].from]
Targets(es) == [k \in DOMAIN es |-> es[k].to]

\* _get_dependencies, of the first few nodes of a name or path.
Depending == {"imports", "calls", "depends_on", "flows_into"}
Dependencies(nodes, edges, repo, name) ==
  LET matches == Which(nodes, LAMBDA i : InRepo(nodes[i], repo) /\ name \in {nodes[i].name, nodes[i].file})
  IN  [k \in DOMAIN Cap(matches, 3) |->
         [node |-> matches[k], uses |-> Cap(Targets(OutOf(edges, matches[k], Depending)), 20),
          usedBy |-> Cap(Sources(Into(edges, matches[k], Depending)), 20)]]

\* The meaning that was written for the code as it is; unknown code has no hash.
Meaning(n, key, meanings) ==
  IF key \in DOMAIN meanings /\ (n.hash = "" \/ meanings[key].hash = n.hash) THEN <<meanings[key].says>> ELSE <<>>

\* _lookup_symbol
Said(nodes, edges, meanings, i) ==
  [node    |-> i,
   means   |-> Meaning(nodes[i], <<nodes[i].file, nodes[i].owner, nodes[i].name>>, meanings),
   callers |-> Cap(Sources(Into(edges, i, {"calls", "imports"})), 10),
   calls   |-> Cap(Targets(OutOf(edges, i, {"calls", "imports"})), 10)]
LookupSymbol(nodes, edges, repo, name, meanings) ==
  LET Meant(i) == name \in {<<"", nodes[i].name>>, <<nodes[i].owner, nodes[i].name>>}
  IN  FoldLeft(LAMBDA said, i : Append(said, Said(nodes, edges, meanings, i)), <<>>, Cap(SelectSeq(Symbols(nodes, repo), Meant), 5))

-----------------------------------------------------------------------------
(* find_references, version two.  A query is [file, owner, name]: a full   *)
(* identity, <<"", owner, name>> a qualified name, <<"", "", name>> a bare *)
(* one.                                                                    *)

MaxRefDepth == 3
MaxRefLines == 60

Identity(n) == <<n.file, n.owner, n.name>>

MeantBy(nodes, repo, q) ==
  SelectSeq(Symbols(nodes, repo),
            LAMBDA i : IF q[1] # "" THEN Identity(nodes[i]) = q
                       ELSE IF q[2] # "" THEN <<nodes[i].owner, nodes[i].name>> = <<q[2], q[3]>>
                       ELSE nodes[i].name = q[3] /\ nodes[i].kind # "module")

\* One hop: the callers, of this repository and not seen before, of the last hop.
Hop(acc, nodes, edges, repo) ==
  LET Reach(a, e) == IF e.from \in ToSet(a.seen) \/ ~InRepo(nodes[e.from], repo) THEN a
                     ELSE [a EXCEPT !.seen = Append(@, e.from), !.next = Append(@, e.from), !.refs = Append(@, [node |-> e.from, hop |-> a.hop])]
      Callers(a, i) == FoldLeft(Reach, a, Into(edges, i, {"calls", "depends_on"}))
      reached == FoldLeft(Callers, [acc EXCEPT !.next = <<>>, !.hop = @ + 1], acc.next)
  IN  reached

\* _find_references_v2: nothing, the candidates to choose from, or the callers with
\* their distance.
ReferencesTo(targets, nodes, edges, repo, hops) ==
  LET named   == { Identity(nodes[i]) : i \in ToSet(targets) }
      target  == Last(targets)
      start   == [seen |-> <<target>>, next |-> <<target>>, refs |-> <<>>, hop |-> 0]
      After[k \in 0 .. hops] == IF k = 0 THEN start ELSE Hop(After[k - 1], nodes, edges, repo)
  IN  IF targets = <<>> THEN [says |-> "unknown", refs |-> <<>>, choose |-> {}]
      ELSE IF Cardinality(named) > 1 THEN [says |-> "ambiguous", refs |-> <<>>, choose |-> named]
      ELSE [says |-> "found", refs |-> Cap(After[hops].refs, MaxRefLines), choose |-> {}]
FindReferences(nodes, edges, repo, q, depth) ==
  ReferencesTo(MeantBy(nodes, repo, q), nodes, edges, repo,
               IF depth < 1 THEN 1 ELSE IF depth > MaxRefDepth THEN MaxRefDepth ELSE depth)

\* Version one, _find_references: whatever leads to a symbol of that name.
ReferencesByName(nodes, edges, repo, name) ==
  LET targets == SelectSeq(Symbols(nodes, repo), LAMBDA i : nodes[i].name = name)
      refs    == SelectSeq(edges, LAMBDA e : /\ e.to \in ToSet(targets) /\ e.type \in {"calls", "imports", "depends_on"}
                                            /\ InRepo(nodes[e.from], repo))
  IN  [says |-> IF targets = <<>> THEN "unknown" ELSE "found", definitions |-> Cap(targets, 3), refs |-> Cap(Sources(refs), 30)]

=============================================================================
