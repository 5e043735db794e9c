----------------------------- MODULE ChangeGate -----------------------------
(***************************************************************************)
(* From a proposed change to a sandbox run of it: the simulation           *)
(* (simulation/engine.py) works out what depends on the changed nodes,     *)
(* records its verdict together with a hash of the proposal and of the     *)
(* state of those nodes (simulation/witness.py), and the sandbox           *)
(* (execution/sandbox.py) runs nothing whose latest simulation did not     *)
(* pass, was of another diff, or whose nodes have changed since.           *)
(* Meanwhile other requests record things in the same graph or remove a    *)
(* repository from it.  The store is the one of graph/repository.py over   *)
(* Postgres: a write is one transaction, its event (graph/events.py)       *)
(* another, and every request is handled in a thread of its own.           *)
(***************************************************************************)
EXTENDS Recordings, Integers, FiniteSets, FiniteSetsExt

CONSTANTS Threads,      \* request handlers
          Requests,     \* what clients may ask: sequences of steps, mapped to
                        \* how much of MaxAsked each takes
          Existing,     \* stable ids in the graph at the start, as a sequence
          Wired,        \* the edges at the start: pairs of positions in Existing
          Tagged,       \* stable ids of nodes that carry the repository's name
          Unsafe,       \* affected nodes from which on a simulation predicts failures
          MaxAsked      \* bound: requests in a behaviour

SimulateStep(proposal, diff, changed, depth, viable) ==
  [do |-> "simulate", proposal |-> proposal, diff |-> diff, changed |-> changed,
   depth |-> depth, viable |-> viable]
RunStep(proposal, diff) == [do |-> "run", proposal |-> proposal, diff |-> diff]

\* A step of a request: a write (Recordings), a removal, a simulation or a run.
IsStep(s) ==
  \/ s.do \in {"node", "edge", "say", "remove"}
  \/ s.do = "simulate" /\ s = SimulateStep(s.proposal, s.diff, s.changed, s.depth, s.viable)
  \/ s.do = "run" /\ s = RunStep(s.proposal, s.diff)

ASSUME GateAssumption ==
  /\ IsFiniteSet(Threads)
  /\ \A r \in DOMAIN Requests : r \in Seq(ToSet(r)) /\ \A s \in ToSet(r) : IsStep(s)
  /\ MaxAsked \in Nat /\ Unsafe \in Nat
  /\ \A i \in DOMAIN Wired : Wired[i][1] \in DOMAIN Existing /\ Wired[i][2] \in DOMAIN Existing

VARIABLES nodes,      \* id -> [stable, ver]
          edges,      \* the active edges, in the order they were written
          log,        \* the events, each [of, about]
          scenarios,  \* the SimulationScenario nodes, in the order of created_at
          runs,       \* what the sandbox answered
          thread,     \* what each handler still has to do
          asked,
          past        \* history: the nodes after every write, and the ids whose write succeeded

gateVars == <<nodes, edges, log, scenarios, runs, thread, asked, past>>

Q == INSTANCE GraphQueries

Idle == [todo |-> <<>>, say |-> <<>>, found |-> {}, hash |-> <<>>, seen |-> 0, now |-> 0]

Init ==
  /\ nodes = [i \in DOMAIN Existing |-> [stable |-> Existing[i], ver |-> 0]]
  /\ edges = [i \in DOMAIN Wired |-> [from |-> Wired[i][1], to |-> Wired[i][2], conf |-> Q!Certain]]
  /\ log = <<>> /\ scenarios = <<>> /\ runs = <<>>
  /\ thread = [t \in Threads |-> Idle]
  /\ asked = 0
  /\ past = [graphs |-> <<nodes>>, written |-> <<>>]

-----------------------------------------------------------------------------
(* The store *)

IdsOf(stable) == { i \in DOMAIN nodes : nodes[i].stable = stable }
IdOf(stable)  == CHOOSE i \in IdsOf(stable) : TRUE
Fresh         == Cardinality(UNION { DOMAIN past.graphs[k] : k \in DOMAIN past.graphs }) + 1

\* INSERT ... ON CONFLICT (stable_id) DO UPDATE: the id stays.
Upserted(stable, ver) ==
  LET id == IF IdsOf(stable) # {} THEN IdOf(stable) ELSE Fresh
  IN  [i \in DOMAIN nodes \cup {id} |-> IF i = id THEN [stable |-> stable, ver |-> ver] ELSE nodes[i]]

\* remove_by_repository: the edges that touch its nodes, then the nodes.
Owned == { i \in DOMAIN nodes : nodes[i].stable \in Tagged }
Without(dead) == [i \in DOMAIN nodes \ dead |-> nodes[i]]
EdgesWithout(dead) == SelectSeq(edges, LAMBDA e : e.from \notin dead /\ e.to \notin dead)

\* hash_graph_state: which of these nodes exist, and their properties.
StateIn(graph, ids) == [i \in ids \cap DOMAIN graph |-> graph[i]]
HashGraphState(ids) == StateIn(nodes, ids)

Written(graph, what) == past' = [graphs |-> Append(past.graphs, graph), written |-> Append(past.written, what)]

-----------------------------------------------------------------------------
(* A handler *)

Step(t) == Head(thread[t].todo)
Does(t, what) == thread[t].todo # <<>> /\ thread[t].say = <<>> /\ Step(t).do = what
Rest(t) == Tail(thread[t].todo)
Next1(t) == [thread[t] EXCEPT !.todo = Rest(t)]
\* A step that takes several: what is left of it comes first.
Within(t, part) == <<[Step(t) EXCEPT !.do = part]>> \o Rest(t)
Ready(t) == thread[t].todo = <<>> /\ thread[t].say = <<>>

Ask(t, request) ==
  /\ Ready(t) /\ asked + Requests[request] <= MaxAsked
  /\ asked' = asked + Requests[request]
  /\ thread' = [thread EXCEPT ![t] = [Idle EXCEPT !.todo = request]]
  /\ UNCHANGED <<nodes, edges, log, scenarios, runs, past>>

\* GraphService.add_node: the write; its event is a step of its own.
WriteNode(t) ==
  /\ Does(t, "node")
  /\ LET s == Step(t)  after == Upserted(s.stable, s.ver)
     IN  /\ nodes' = after
         /\ Written(after, <<"node", s.stable>>)
         /\ thread' = [thread EXCEPT ![t] = [Next1(t) EXCEPT !.say = <<"node", s.stable>>]]
  /\ UNCHANGED <<edges, log, scenarios, runs, asked>>

\* GraphService.add_edge: both ends must exist; if not, the request fails where it is,
\* with what it has already written.
WriteEdge(t) ==
  /\ Does(t, "edge")
  /\ LET s == Step(t)
     IN  IF IdsOf(s.from) # {} /\ IdsOf(s.to) # {}
         THEN /\ edges' = Append(edges, [from |-> IdOf(s.from), to |-> IdOf(s.to), conf |-> Q!Certain])
              /\ Written(nodes, <<"edge", s.from, s.to>>)
              /\ thread' = [thread EXCEPT ![t] = [Next1(t) EXCEPT !.say = <<"edge", s.from, s.to>>]]
         ELSE /\ thread' = [thread EXCEPT ![t] = Idle]
              /\ UNCHANGED <<edges, past>>
  /\ UNCHANGED <<nodes, log, scenarios, runs, asked>>

\* Wrong: a removal that found nothing is announced too
AlwaysAnnounced == <<"removed">>

\* GraphService.remove_repository: no event if there was nothing to remove.
RemovalEvent == IF Owned = {} THEN <<>> ELSE <<"removed">>

RemoveRepository(t) ==
  /\ Does(t, "remove")
  /\ nodes' = Without(Owned) /\ edges' = EdgesWithout(Owned)
  /\ IF Owned = {} THEN UNCHANGED past ELSE Written(Without(Owned), <<"removed">>)
  /\ thread' = [thread EXCEPT ![t] = [Next1(t) EXCEPT !.say = RemovalEvent]]
  /\ UNCHANGED <<log, scenarios, runs, asked>>

\* GraphEventWriter.append, after the write it tells of
AppendEvent(t) ==
  /\ thread[t].say # <<>>
  /\ log' = Append(log, thread[t].say)
  /\ thread' = [thread EXCEPT ![t].say = <<>>]
  /\ UNCHANGED <<nodes, edges, scenarios, runs, asked, past>>

\* An event a service appends on its own account
Announce(t) ==
  /\ Does(t, "say")
  /\ log' = Append(log, <<Step(t).event>>)
  /\ past' = [past EXCEPT !.written = Append(@, <<Step(t).event>>)]
  /\ thread' = [thread EXCEPT ![t] = Next1(t)]
  /\ UNCHANGED <<nodes, edges, scenarios, runs, asked>>

-----------------------------------------------------------------------------
(* EngineeringSimulationEngine.run *)

Ids(stables) == { i \in DOMAIN nodes : nodes[i].stable \in stables }
Radius(changed, depth) == Q!Affected(Q!Downstream(edges, SetToSeq(changed), depth)) \ changed

\* compute_blast_radius reads the edges and appends an event; the ids come from the
\* client, who saw the graph.
Traverse(t) ==
  /\ Does(t, "simulate")
  /\ LET s == Step(t)  changed == Ids(s.changed)
     IN  thread' = [thread EXCEPT ![t] = [@ EXCEPT !.todo = Within(t, "witness"),
                                          !.found = changed \cup Radius(changed, s.depth),
                                          !.seen = Cardinality(Radius(changed, s.depth)),
                                          !.say = <<"radius">>]]
  /\ past' = [past EXCEPT !.written = Append(@, <<"radius">>)]
  /\ UNCHANGED <<nodes, edges, log, scenarios, runs, asked>>

\* hash_graph_state reads the nodes, later.
Witness(t) ==
  /\ Does(t, "witness")
  /\ thread' = [thread EXCEPT ![t] = [@ EXCEPT !.todo = Within(t, "verdict"),
                                      !.hash = HashGraphState(thread[t].found),
                                      !.now = Len(past.graphs)]]
  /\ UNCHANGED <<nodes, edges, log, scenarios, runs, asked, past>>

\* The verdict: rollback and deployment must be viable, the schema untouched (which the
\* request says) and the radius small.  The scenario's stable id is new, so it never
\* replaces an older one.
Passes(viable, affected) == viable /\ affected < Unsafe
RecordVerdict(t) ==
  /\ Does(t, "verdict")
  /\ LET s == Step(t)
     IN  /\ scenarios' = Append(scenarios, [proposal |-> s.proposal, diff |-> s.diff,
                                            passed |-> Passes(s.viable, thread[t].seen),
                                            witness |-> thread[t].found, hash |-> thread[t].hash,
                                            at |-> thread[t].now])
         /\ past' = [past EXCEPT !.written = Append(@, <<"scenario">>)]
         /\ thread' = [thread EXCEPT ![t] = [Idle EXCEPT !.todo = Rest(t), !.say = <<"scenario">>]]
  /\ UNCHANGED <<nodes, edges, log, runs, asked>>

Simulation(proposal, diff, changed, depth, viable) ==
  <<SimulateStep(proposal, diff, changed, depth, viable), Say("simulated")>>

-----------------------------------------------------------------------------
(* SandboxExecutionService.schedule_run *)

\* Wrong: the first simulation of the proposal that passed
AnyPassed(proposal) ==
  LET own == { k \in DOMAIN scenarios : scenarios[k].proposal = proposal /\ scenarios[k].passed }
  IN  IF own = {} THEN 0 ELSE Min(own)

\* The latest simulation of the proposal; 0 is none.
Latest(proposal) ==
  LET own == { k \in DOMAIN scenarios : scenarios[k].proposal = proposal }
  IN  IF own = {} THEN 0 ELSE Max(own)

LookUp(t) ==
  /\ Does(t, "run")
  /\ thread' = [thread EXCEPT ![t] = [@ EXCEPT !.todo = Within(t, "check"),
                                      !.seen = Latest(Step(t).proposal), !.now = Len(scenarios)]]
  /\ UNCHANGED <<nodes, edges, log, scenarios, runs, asked, past>>

\* Wrong: only the text of the change is compared
SameDiff(k, diff) == k # 0 /\ scenarios[k].passed /\ scenarios[k].diff = diff

Stands(k, diff) ==
  k # 0 /\ scenarios[k].passed /\ scenarios[k].diff = diff
    /\ HashGraphState(scenarios[k].witness) = scenarios[k].hash

Decide(t) ==
  /\ Does(t, "check")
  /\ runs' = Append(runs, [proposal |-> Step(t).proposal, diff |-> Step(t).diff,
                           scheduled |-> Stands(thread[t].seen, Step(t).diff),
                           known |-> thread[t].now, at |-> Len(past.graphs)])
  /\ thread' = [thread EXCEPT ![t] = [Idle EXCEPT !.todo = Rest(t)]]
  /\ UNCHANGED <<nodes, edges, log, scenarios, asked, past>>

Run(proposal, diff) == <<RunStep(proposal, diff), Say("run")>>

Removal == <<[do |-> "remove"]>>

-----------------------------------------------------------------------------

Handle(t) == \/ WriteNode(t) \/ WriteEdge(t) \/ RemoveRepository(t) \/ AppendEvent(t) \/ Announce(t)
             \/ Traverse(t) \/ Witness(t) \/ RecordVerdict(t) \/ LookUp(t) \/ Decide(t)

Next == \E t \in Threads : Handle(t) \/ \E r \in DOMAIN Requests : Ask(t, r)

GateSpec == Init /\ [][Next]_gateVars

-----------------------------------------------------------------------------

\* A change runs exactly when it should: of the simulations of its proposal that were
\* recorded when the sandbox looked, the last one passed, was of this very diff, and every
\* node it rested on is as it was when the simulation looked at it - not merely written
\* again, not gone, whatever was recorded in between.
\* (schedule_run's checks against the graph's whole history)
RunsExactlyWhatStands ==
  \A i \in DOMAIN runs :
    LET r   == runs[i]
        own == { k \in 1 .. r.known : scenarios[k].proposal = r.proposal }
    IN  r.scheduled <=>
          \E k \in own :
            /\ \A j \in own : j <= k
            /\ scenarios[k].passed /\ scenarios[k].diff = r.diff
            /\ \A n \in scenarios[k].witness :
                 StateIn(past.graphs[r.at], {n}) = StateIn(past.graphs[scenarios[k].at], {n})

\* The log tells what was written: every write that succeeded has one event once its
\* handler rests, and a write that failed, or that removed nothing, has none.
\* (GraphService: the write first, the event after it)
LogTellsTheWrites ==
  LET waiting(e) == Cardinality({ t \in Threads : thread[t].say = e })
      count(s, e) == Cardinality({ i \in DOMAIN s : s[i] = e })
  IN  \A e \in ToSet(log) \cup ToSet(past.written) : count(past.written, e) = count(log, e) + waiting(e)

=============================================================================
