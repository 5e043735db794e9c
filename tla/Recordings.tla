----------------------------- MODULE Recordings -----------------------------
(***************************************************************************)
(* What the services of the backend write when they record something in    *)
(* the graph: each request is a sequence of writes, every one of which is  *)
(* a store operation followed by its event.  A node is named by its stable *)
(* id, a pair of a kind and a name; an edge by the two stable ids, because *)
(* a service only links nodes it has just added, or ids its caller gives.  *)
(***************************************************************************)
EXTENDS Naturals, Sequences, SequencesExt

\* add_node and add_edge with the fields that are told apart; a node's version
\* stands for its properties.
Node(kind, name, ver) == [do |-> "node", stable |-> <<kind, name>>, ver |-> ver]
Edge(from, to)        == [do |-> "edge", from |-> from, to |-> to]
Say(event)            == [do |-> "say", event |-> event]

Linked(names) == [i \in 1 .. Len(names) - 1 |-> Edge(names[i], names[i + 1])]
Stables(steps) == [i \in DOMAIN steps |-> steps[i].stable]

\* DataFlowTracingService.create_trace
DataFlowTrace(field, route, consumers, ver) ==
  LET f == Node("field", field, ver)  r == Node("route", route, ver)
  IN  <<f, r, Edge(f.stable, r.stable)>>
      \o FlattenSeq([i \in DOMAIN consumers |->
                       <<Node("symbol", consumers[i], ver), Edge(r.stable, <<"symbol", consumers[i]>>)>>])

\* CausalGraphService.record_chain: all events first, then the chain.
CausalChain(events, ver) ==
  LET steps == [i \in DOMAIN events |-> Node("event", events[i], ver)]
  IN  steps \o Linked(Stables(steps))

\* IncidentLearningService.record: the five nodes of one report, what connects
\* them, and the files the report names, by whatever ids the client sent.
IncidentEdges(report) ==
  << <<"cause", "incident">>, <<"fix", "cause">>, <<"test", "incident">>, <<"rule", "cause">> >>
IncidentReport(report, files, ver) ==
  LET kinds == <<"incident", "cause", "fix", "test", "rule">>
      ends  == IncidentEdges(report)
  IN  [i \in DOMAIN kinds |-> Node(kinds[i], report, ver)]
      \o [i \in DOMAIN ends |-> Edge(<<ends[i][1], report>>, <<ends[i][2], report>>)]
      \o [i \in DOMAIN files |-> Edge(files[i], <<"cause", report>>)]

\* ArchitectureEvolutionService.record_trend, which also writes the module's own node
Trend(path, ver) ==
  <<Node("file", path, ver), Node("trend", path, ver), Edge(<<"trend", path>>, <<"file", path>>)>>

\* IntentGraphService.record_chain; the two conventions services are its first link.
Source(artifact, ver) == Node("artifact", artifact, ver)
IntentChain(artifact, decision, ver) ==
  LET s == Source(artifact, ver)  d == Node("decision", decision, ver)
      t == Node("tradeoff", decision, ver)  r == Node("rejected", decision, ver)
  IN  <<s, d, t, r, Edge(d.stable, s.stable), Edge(t.stable, d.stable), Edge(r.stable, d.stable)>>
Convention(artifact, convention, ver) ==
  LET s == Source(artifact, ver)  c == Node("convention", convention, ver)
  IN  <<s, c, Edge(c.stable, s.stable)>>

\* ResearchAgentService.record_recommendation
Recommendation(query, citations, ver) ==
  LET steps == [i \in DOMAIN citations |-> Node("citation", citations[i], ver)]
  IN  <<Node("recommendation", query, ver)>> \o steps
      \o [i \in DOMAIN steps |-> Edge(<<"recommendation", query>>, steps[i].stable)]

\* The services that keep one node per subject: a calibration, an estimate, a health
\* score; and the two that say so in an event of their own, a review and a distillation.
Score(kind, subject, ver) == <<Node(kind, subject, ver)>>
Review(repository, ver)   == <<Node("review", repository, ver), Say("review")>>

\* PolicyDistillationService.distill: every distillation of a repository is the next version.
Distillation(repository, version, ver) ==
  <<Node("distillation", <<repository, version>>, ver), Say("distillation")>>

=============================================================================
