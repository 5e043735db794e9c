---------------------------- MODULE MCChangeGate ----------------------------
(***************************************************************************)
(* A file and a symbol that depends on it; one proposal in two diffs; and  *)
(* one request for every service that records something in the graph.      *)
(***************************************************************************)
EXTENDS ChangeGate, TLC

Handlers == Permutations(Threads)

File   == <<"file", "a">>
Symbol == <<"symbol", "b">>

MCExisting == <<File, Symbol, <<"note", "n">> >>
MCWired    == <<<<1, 2>>>>
MCTagged   == {File, Symbol}

\* The gate with what changes the nodes it looks at.
GateRequests ==
  { Simulation("p", "d1", {File}, 1, TRUE), Simulation("p", "d1", {File}, 1, FALSE),
    Run("p", "d1"), Run("p", "d2"), Removal, <<Node("file", "a", 1)>>, <<Node("file", "a", 0)>>,
    <<Node("symbol", "b", 1)>>, <<Edge(File, <<"note", "n">>)>> }

\* One of every recording, beside one other request.
Others ==
  { Trend("a", 1), DataFlowTrace("f", "r", <<"b">>, 1), CausalChain(<<"x", "y">>, 1), IncidentReport("i", <<File>>, 1), IntentChain("s", "d", 1), Convention("s", "c", 1),
    Recommendation("q", <<"u">>, 1), Score("health", "r", 1), Review("r", 1), Distillation("r", 1, 1) }

MCRequests == [r \in GateRequests \cup Others |-> IF r \in GateRequests THEN 1 ELSE 2]

=============================================================================
