---------------------------- MODULE PlanBuilding ----------------------------
(***************************************************************************)
(* How a request becomes a plan (backend/agents/plan_builder.py): a model  *)
(* may propose one, which is repaired or refused, and a template stands in *)
(* whenever there is none; and the checks each task is given and judged by *)
(* (backend/agents/validators.py).                                         *)
(*                                                                         *)
(* Paths are names; the three sets below say what kind each one is.  A     *)
(* task is [required, artifacts, after, checks, commits]: after is the     *)
(* index of the task it depends on, 0 for none.                            *)
(***************************************************************************)
EXTENDS TaskGates

MinTasks == 3
MaxTasks == 12
MaxPerTask == 5
Substantial == {"CREATE", "MODIFY"}

Outside == {"../secrets", "c:/windows"}     \* no repository-relative reading
Pages   == {"index.html"}                   \* .html or .htm
Globs   == {"src/*"}

-----------------------------------------------------------------------------
(* The checks a task's own declarations imply (infer_validators).          *)

InferValidators(required, artifacts) ==
  LET page == ToSet(artifacts) \cap Pages # {} IN
  (IF artifacts # <<>> THEN {"artifacts_exist"} ELSE {})
  \cup (IF required = {} THEN {}
        ELSE IF required = {"screenshot"} THEN {"screenshot_taken"} ELSE {"tools_called"})
  \cup (IF page /\ "screenshot" \in required THEN {"renders_cleanly"} ELSE {})
  \cup (IF page THEN {"design_evidence", "intent_fidelity"} ELSE {})

MakeTask(e, after) ==
  [required |-> ToSet(e.required), artifacts |-> e.artifacts, after |-> after,
   checks |-> InferValidators(ToSet(e.required), e.artifacts)]

-----------------------------------------------------------------------------
(* The templates.                                                          *)

Milestone(required, artifacts) == [required |-> required, artifacts |-> artifacts, chained |-> TRUE]

BuildTasks(entries) ==
  [i \in DOMAIN entries |-> MakeTask(entries[i], IF entries[i].chained THEN i - 1 ELSE 0)]

\* A request is [files, onePage, stack, oneFile, brief]: the files it names, whether
\* it asks for one self-contained page, speaks of a backend, declares that one file
\* is all, and is short and of no broad scope.
PrimaryArtifact(q) ==
  LET named == SelectSeq(q.files, LAMBDA p : p \notin Outside) IN
  IF Cardinality(ToSet(named)) = 1 THEN <<named[1]>>
  ELSE IF q.onePage THEN <<"index.html">> ELSE <<>>

NamedFile(q) ==
  LET named == SelectSeq(q.files, LAMBDA p : p \notin Outside)
  IN  IF named = <<>> THEN <<>> ELSE <<named[1]>>

CreateSpecs(q, ui) ==
  LET a == PrimaryArtifact(q) IN
  << Milestone(<<"list_directory">>, <<>>), Milestone(<<"commit_direction">>, <<>>), Milestone(<<"write_file">>, a),
     Milestone(<<"write_file", "edit_file">>, a), Milestone(<<"edit_file">>, a), Milestone(<<"edit_file">>, a) >>
  \o IF ui
     THEN << Milestone(<<"start_dev_server", "screenshot">>, <<>>), Milestone(<<"edit_file", "screenshot">>, a),
             Milestone(<<"screenshot", "browser_console">>, <<>>) >>
     ELSE << Milestone(<<"read_file">>, a) >>

FullstackSpecs ==
  [i \in 1 .. 9 |->
     Milestone(<< <<"list_directory">>, <<"commit_direction">>, <<"write_file">>, <<"write_file">>, <<"write_file">>,
             <<"write_file">>, <<"run_command">>, <<"screenshot", "edit_file">>, <<"run_command">> >>[i], <<>>)]

ModifySpecs(q, ui) ==
  LET few == Cardinality({ p \in ToSet(q.files) : p \notin Outside }) <= 1 IN
  IF q.brief /\ ~ui /\ few
  THEN << Milestone(<<"read_file", "edit_file">>, NamedFile(q)), Milestone(<<"read_file">>, <<>>) >>
  ELSE << Milestone(<<"search_code", "read_file">>, <<>>), Milestone(<<"edit_file">>, NamedFile(q)) >>
       \o IF ui
          THEN << Milestone(<<"start_dev_server", "screenshot">>, <<>>), Milestone(<<"edit_file", "screenshot">>, <<>>) >>
          ELSE << Milestone(<<"read_file">>, <<>>) >>

SpecsFor(q, c) ==
  LET ui == "screenshot" \in c.required IN
  CASE c.intent = "CREATE" /\ q.stack /\ ~q.oneFile    -> FullstackSpecs
    [] c.intent = "CREATE" /\ ~(q.stack /\ ~q.oneFile) -> CreateSpecs(q, ui)
    [] c.intent = "MODIFY" -> ModifySpecs(q, ui)
    [] c.intent = "DELETE" -> << Milestone(<<"list_directory", "find_references">>, <<>>),
                                 Milestone(<<"delete_file">>, <<>>), Milestone(<<"search_code">>, <<>>) >>
    [] c.intent = "RUN"    -> << Milestone(<<"get_project_metadata">>, <<>>), Milestone(<<"run_command">>, <<>>) >>
    [] c.intent \in {"ANALYZE", "EXPLAIN"} -> << Milestone(<<>>, <<>>) >>
    [] OTHER -> <<>>

FallbackPlan(q, c) == BuildTasks(SpecsFor(q, c))

-----------------------------------------------------------------------------
(* The proposal.  A raw task is [named, required, artifacts, chained,      *)
(* commits]: named says that it is an object with an objective, commits    *)
(* that the objective speaks of committing.  A model's reply is [says,     *)
(* tasks]: "nothing" (or it failed), "prose", or "plan".                   *)

Few(items, limit) ==
  LET once == FoldLeft(LAMBDA seen, x : IF x \in ToSet(seen) THEN seen ELSE Append(seen, x), <<>>, items)
  IN  SubSeq(once, 1, IF Len(once) < limit THEN Len(once) ELSE limit)

\* Wrong: what the model returns is used as it is.
EntryAsIs(raw) == raw

\* The lists are cut to size before unknown names are dropped.
Entry(raw) ==
  [raw EXCEPT !.required  = SelectSeq(Few(@, MaxPerTask), LAMBDA t : t \in RealTools),
              !.artifacts = SelectSeq(Few(@, MaxPerTask), LAMBDA p : p \notin Outside)]

Entries(raws) ==
  LET usable == SelectSeq(raws, LAMBDA r : r.named)
  IN  [i \in 1 .. (IF Len(usable) < MaxTasks THEN Len(usable) ELSE MaxTasks) |-> Entry(usable[i])]

First(S) == CHOOSE i \in S : \A j \in S : i <= j

Commitment == [named |-> TRUE, required |-> <<"commit_direction">>, artifacts |-> <<>>, chained |-> TRUE, commits |-> TRUE]

\* The proposal's own commitment, adopted if it only lacks the tool, or one of ours
\* in front of the first task that makes an artifact; what no longer fits is dropped
\* from the end.
EnsureCommitment(es, intent) ==
  LET own       == { i \in DOMAIN es : es[i].artifacts = <<>> /\ es[i].commits }
      producing == { i \in DOMAIN es : es[i].artifacts # <<>> }
      at        == IF producing # {} THEN First(producing) ELSE IF es = <<>> THEN 1 ELSE 2
      longer    == InsertAt(es, at, Commitment)
  IN  IF intent \notin Substantial \/ \E i \in DOMAIN es : "commit_direction" \in ToSet(es[i].required) THEN es
      ELSE IF own # {} THEN [es EXCEPT ![First(own)].required = <<"commit_direction">>]
      ELSE SubSeq(longer, 1, IF Len(longer) < MaxTasks THEN Len(longer) ELSE MaxTasks)

\* The plan of a proposal, empty when it does not survive.
PlanFromProposal(raws, intent) ==
  LET es == EnsureCommitment(Entries(raws), intent) IN
  IF raws = <<>> \/ (Len(es) < MinTasks /\ intent \in Substantial) THEN <<>> ELSE BuildTasks(es)

\* The models asked for a proposal, in order, the job's own last; an override is alone.
PlanningModels(light, balanced, own, override) ==
  LET fast == Few(light \o balanced, 3)
  IN  IF override # <<>> THEN override ELSE IF own \in ToSet(fast) THEN fast ELSE Append(fast, own)

\* The first reply that says anything; a model that fails or says nothing is passed
\* over, and prose is no proposal.
Proposal(models, replies) ==
  LET speak == { i \in DOMAIN models : replies[models[i]].says # "nothing" } IN
  IF speak = {} \/ replies[models[First(speak)]].says = "prose" THEN <<>> ELSE replies[models[First(speak)]].tasks

BuildPlan(q, c, models, replies) ==
  LET proposed == PlanFromProposal(Proposal(models, replies), c.intent) IN
  IF c.intent \in {"CONVERSATION", "SEARCH"} THEN <<>>
  ELSE IF c.intent \in {"ANALYZE", "EXPLAIN"} \/ models = <<>> \/ proposed = <<>> THEN FallbackPlan(q, c)
  ELSE proposed

-----------------------------------------------------------------------------
(* The verdict on a task (validate_task).  The world is [disk, called,     *)
(* blank, design, mechanism]: what is found at each path, the tools called *)
(* during the task, the pages that render blank or throw, and whether the  *)
(* files show what the design called for and committed to.  On disk there  *)
(* is nothing, something that is no file, an empty file, a placeholder,    *)
(* the head of a page, or a real file.                                     *)

OnDisk == {"missing", "folder", "empty", "placeholder", "head", "real"}

\* Wrong: a file that is not empty will do.
NonEmpty(p, content) == content \in {"placeholder", "head", "real"}

\* A page must have a body; what is not a page cannot lack one.
Substance(p, content) == content = "real" \/ (content = "head" /\ p \notin Pages)

Exists(p, w) == p \notin Outside /\ Substance(p, w.disk[p])

Readable(artifacts, w) == { p \in ToSet(artifacts) \ (Outside \cup Globs) : w.disk[p] \in {"empty", "placeholder", "head", "real"} }

Single(artifacts) == SelectSeq(artifacts, LAMBDA p : p \notin Globs)

Check(name, t, w) ==
  CASE name = "artifacts_exist"  -> \A p \in ToSet(t.artifacts) : Exists(p, w)
    [] name = "tools_called"     -> t.required \subseteq Credited(w.called)
    [] name = "screenshot_taken" -> "screenshot" \in w.called
    [] name = "renders_cleanly"  -> LET one == Single(t.artifacts)
                                    IN  one = <<>> \/ (one[1] \in Readable(t.artifacts, w) /\ one[1] \notin w.blank)
    [] name = "design_evidence"  -> w.design = "none" \/ t.artifacts = <<>>
                                      \/ (w.design = "shown" /\ { p \in Readable(t.artifacts, w) : w.disk[p] # "empty" } # {})
    [] name = "intent_fidelity"  -> w.mechanism
    [] OTHER                     -> FALSE

\* The one check whose failure is reported and does not count.
Advisory == {"intent_fidelity"}

Validated(t, w) == \A name \in t.checks \ Advisory : Check(name, t, w)

=============================================================================
