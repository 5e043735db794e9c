----------------------------- MODULE TaskGates -----------------------------
(***************************************************************************)
(* What a job is obliged to do and what it is able to do, both read off    *)
(* the words of one message: the contract (backend/agents/task.py) and the *)
(* tools it is offered (backend/agents/tools.py), as JobManager.start      *)
(* derives them.                                                           *)
(*                                                                         *)
(* A message is what the patterns find in it: verbs holds the first match  *)
(* of each intent's pattern as [intent, opens, at] (opens: it starts a     *)
(* line; at: its place), asks says that it leads with an interrogative,    *)
(* impact how much it is about consequences, launches that it says to run  *)
(* something, ui that it is about an interface, signals which tool groups  *)
(* its words name, greets and wonders that it is a greeting or a question  *)
(* to the second classifier, short that it has 24 characters at most.      *)
(***************************************************************************)
EXTENDS Naturals, Sequences, FiniteSets, SequencesExt

\* The order of the pattern table: it decides only between equal ranks.
Table == <<"EXPLAIN", "CREATE", "MODIFY", "DELETE", "SEARCH", "RUN", "ANALYZE">>

\* A verb that opens a line comes first, then the earlier one.
Outranks(v, w) ==
  \/ v.opens /\ ~w.opens
  \/ v.opens = w.opens /\ v.at < w.at
  \/ v.opens = w.opens /\ v.at = w.at /\ \E i, j \in DOMAIN Table : i <= j /\ Table[i] = v.intent /\ Table[j] = w.intent

Commands(m) == \E v \in m.verbs : v.opens /\ v.at = 0 /\ v.intent \in {"CREATE", "MODIFY", "DELETE"}

ClassifyIntent(m) ==
  IF ~Commands(m) /\ (m.impact = "strong" \/ (m.asks /\ m.impact = "some")) THEN "ANALYZE"
  ELSE IF ~Commands(m) /\ ~m.asks /\ m.launches THEN "RUN"
  ELSE IF m.verbs = {} THEN "CONVERSATION"
  ELSE (CHOOSE v \in m.verbs : \A w \in m.verbs : Outranks(v, w)).intent

IsBareContinuation(m) == m.short /\ ClassifyIntent(m) = "CONVERSATION"

\* Wrong: only one message is looked back at.
SubstantiveLast(history) ==
  IF history # <<>> /\ Last(history).role = "user" /\ ~IsBareContinuation(Last(history).text)
  THEN <<Last(history).text>> ELSE <<>>

\* The last message of the user that says something, as a sequence of one or none.
Substantive(history) ==
  LET said == SelectSeq(history, LAMBDA h : h.role = "user" /\ ~IsBareContinuation(h.text))
  IN  IF said = <<>> THEN <<>> ELSE <<Last(said).text>>

ResolveContractSource(m, history) ==
  IF IsBareContinuation(m) /\ Substantive(history) # <<>> THEN Substantive(history)[1] ELSE m

Looks(m) == IF m.ui THEN {"screenshot"} ELSE {}

GenerateContract(m) ==
  LET intent == ClassifyIntent(m) IN
  [intent   |-> intent,
   required |-> CASE intent = "CREATE" -> {"write_file"} \cup Looks(m)
                  [] intent = "MODIFY" -> {"edit_file"} \cup Looks(m)
                  [] intent = "DELETE" -> {"delete_file"}
                  [] intent = "RUN"    -> {"run_command"}
                  [] intent = "SEARCH" -> {"web_search"}
                  [] OTHER             -> {}]

-----------------------------------------------------------------------------
(* Whether the contract was kept.                                          *)

Delegating  == {"delegate_task", "delegate_build"}
Delegatable == {"write_file", "edit_file", "delete_file", "move_file", "create_directory", "run_command"}
Editing     == {"edit_file", "apply_patch", "write_file"}

\* Wrong: whoever delegated is believed to have done anything.
CreditedAll(called) == IF called \cap Delegating = {} THEN called ELSE called \cup Delegatable \cup {"screenshot"}

\* What a delegated worker did is not in the job's own log.
Credited(called) == IF called \cap Delegating = {} THEN called ELSE called \cup Delegatable

ContractKept(c, called) ==
  LET done == Credited(called)
      all  == IF c.intent = "MODIFY" /\ done \cap Editing # {} THEN done \cup Editing ELSE done
  IN  c.required \subseteq all

-----------------------------------------------------------------------------
(* The tools a job is offered.  Of each group only the tools that a plan,  *)
(* a contract or a delegation of the code can ask for are written out.     *)

ToolGroups ==
  [repo          |-> {"commit_direction", "search_code", "read_file", "list_directory",
                      "get_project_metadata", "find_references"},
   code          |-> {"write_file", "edit_file", "delete_file", "move_file", "create_directory", "apply_patch"},
   runtime       |-> {"run_command", "start_dev_server"},
   browser       |-> {"screenshot", "browser_console"},
   design        |-> {"get_design_guidance"},
   git           |-> {"commit"},
   external      |-> {"web_search"},
   orchestration |-> Delegating]

RealTools == UNION { ToolGroups[g] : g \in DOMAIN ToolGroups }

NoGroups(tools) == {}

GroupsProviding(tools) == { g \in DOMAIN ToolGroups : ToolGroups[g] \cap tools # {} }

\* The fallback adds "code" after the orchestration group has been decided.
GroupsNamed(m) ==
  LET grounded == m.signals \cup (IF m.signals = {"external"} THEN {} ELSE {"repo"})
      matched  == grounded \cup (IF "code" \in grounded THEN {"orchestration"} ELSE {})
  IN  IF m.greets THEN {}
      ELSE IF matched \ {"repo"} = {} /\ ~m.wonders THEN matched \cup {"code"} ELSE matched

\* JobManager.start: what the words name, what the contract requires, and what the
\* design brief of an interface tells the model to load.
OfferedTools(m, contract, designed) ==
  LET brief  == IF designed THEN {"get_design_guidance", "screenshot", "start_dev_server"} ELSE {}
      groups == GroupsNamed(m) \cup GroupsProviding(contract.required) \cup GroupsProviding(brief)
  IN  UNION { ToolGroups[g] : g \in groups }

=============================================================================
