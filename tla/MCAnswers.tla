----------------------------- MODULE MCAnswers -----------------------------
(***************************************************************************)
(* What the pure parts answer, one small question per state: a panel whose *)
(* providers may fail, the cards of a vote, a graph and a change in it, the *)
(* size of a change's radius and its card, a file that is read window by   *)
(* window, designs and plans committed one after the other, the brief      *)
(* of an interface, a conversation that starts a job, a request and the    *)
(* plan made of it, a task's verdict, the transcript of a few rounds, and  *)
(* the questions of the modules about code, tools and models.              *)
(***************************************************************************)
EXTENDS Integers, GraphQueries, PlanBuilding, Transcript, TLC

VARIABLE question

CQ == INSTANCE CodeQuestions
TQ == INSTANCE ToolReports
MQ == INSTANCE ModelQuestions
IQ == INSTANCE IntentQuestions
DQ == INSTANCE DesignIntent

\* Deployments: four providers, one of them with two models; three, two of them
\* with two; two.
Deployments ==
  { { <<"a", 1>>, <<"a", 2>>, <<"b", 1>>, <<"c", 1>>, <<"d", 1>> },
    { <<"a", 1>>, <<"a", 2>>, <<"b", 1>>, <<"b", 2>>, <<"c", 1>> },
    { <<"a", 1>>, <<"a", 2>>, <<"b", 1>> } }
Preferences == UNION { SetToSeqs(d) : d \in Deployments }

Votes == [answer : {"yes", "no"}, net : -1 .. 1, weight : 0 .. 1]

\* Every graph over four nodes; some edges are unsure.
Arrows == SelectSeq([i \in 1 .. 16 |-> <<1 + (i - 1) \div 4, 1 + ((i - 1) % 4)>>], LAMBDA a : a[1] # a[2])
Drawn(as) == [i \in DOMAIN as |-> [from |-> as[i][1], to |-> as[i][2],
                                   conf |-> IF as[i][1] = 2 \/ as[i][2] = 3 THEN 3 ELSE Certain]]

Designs ==
  [chosen : UNION { [ks -> 1 .. 2] : ks \in SUBSET {"palette", "motion"} },
   rejected : {<<>>, <<1>>, <<2, 1>>, <<3, 2>>, [i \in 1 .. 9 |-> i], [i \in 1 .. 10 |-> 20 - i]},
   structure : {"none", "mine"}, planned : {0}]
Commits == [direction : 0 .. 1, chosen : {<<>>, [palette |-> 1]}, rejected : {<<>>}, structure : {"none", "mine"}, task : 0 .. 2]

\* What the patterns may find in a message.
Verbs == { [intent |-> "CREATE", opens |-> TRUE, at |-> 0], [intent |-> "RUN", opens |-> TRUE, at |-> 0],
           [intent |-> "EXPLAIN", opens |-> FALSE, at |-> 9], [intent |-> "MODIFY", opens |-> FALSE, at |-> 9] }
Plain == [verbs |-> {}, asks |-> FALSE, impact |-> "none", launches |-> FALSE, short |-> FALSE, ui |-> FALSE,
          signals |-> {}, greets |-> FALSE, wonders |-> FALSE]
Says(intent) == [Plain EXCEPT !.verbs = IF intent = "CONVERSATION" THEN {}
                                        ELSE {[intent |-> intent, opens |-> TRUE, at |-> 0]}]
Nudge == [Plain EXCEPT !.short = TRUE]
Messages ==
  { m \in { [Plain EXCEPT !.verbs = vs, !.asks = a, !.impact = i, !.launches = l, !.short = s, !.ui = u, !.signals = g] :
             vs \in SUBSET Verbs, a, l, s, u \in BOOLEAN, i \in {"none", "some", "strong"},
             g \in {{}, {"external"}, {"runtime"}, {"code", "git"}} } : m.asks => ~Commands(m) }

Said == {[role |-> "assistant", text |-> Plain]}
  \cup { [role |-> "user", text |-> m] : m \in {Says("CREATE"), Says("MODIFY"), Nudge, Plain, [Nudge EXCEPT !.impact = "strong"]} }

Requests == [files : {<<>>, <<"index.html">>, <<"app.py", "index.html">>, <<"../secrets">>},
             onePage : BOOLEAN, stack : BOOLEAN, oneFile : BOOLEAN, brief : BOOLEAN]

Raw(tools, paths) == [named |-> TRUE, required |-> tools, artifacts |-> paths, chained |-> TRUE, commits |-> FALSE]
Raws == { [Raw(<<>>, <<>>) EXCEPT !.named = FALSE], Raw(<<"list_directory">>, <<>>), Raw(<<"dump_ast", "write_file">>, <<"app.py">>),
          Raw(<<"write_file", "write_file">>, <<"index.html", "../secrets">>), Raw(<<>>, <<"c:/windows">>),
          [Raw(<<>>, <<>>) EXCEPT !.commits = TRUE, !.chained = FALSE],
          Raw(<<"screenshot">>, <<"src/*", "index.html">>) }
Proposals == UNION { [1 .. n -> Raws] : n \in 0 .. 3 } \cup { [i \in 1 .. n |-> r] : n \in 11 .. 13, r \in Raws }

Calls(tools) == [what |-> "calls", text |-> "none", calls |-> tools]
Does(what, text) == [what |-> what, text |-> text, calls |-> <<>>]
Call(tool, path) == [tool |-> tool, path |-> path, big |-> tool = "write_file"]

Outcomes == { Does("cut", "none"), Does("stall", "none"), Does("stall", "long"), Does("claim", "none"),
              Calls(<<Call("get_design_guidance", "none")>>),
              Calls(<<Call("screenshot", "none"), Call("read_file", "a")>>),
              Calls(<<Call("write_file", "a"), Call("write_file", "b"), Call("write_file", "c")>>) }

\* b depends on a; c is not in the graph.
Near == [p \in {"a", "b", "c", "none"} |-> CASE p = "a" -> {"a", "b"} [] p = "b" -> {"b"} [] OTHER -> {}]

\* Besides the answers, one thing happens at the top of one round.
Turns(n) == { [what |-> "nothing", at |-> 0] } \cup [what : {"switch", "reenter", "intervene"}, at : 2 .. n + 1]

Before == << Message("request", BeforeStart), [Message("answer", BeforeStart) EXCEPT !.big = TRUE], Message("request", BeforeStart) >>

Opening == [log |-> Before, round |-> 0, begun |-> {}, starts |-> <<>>, last |-> <<>>, streak |-> 0]

Firsts == {<<>>} \cup { <<[shape |-> sh, parts |-> ps]>> : sh \in {"text", "blocks"}, ps \in {<<"caller">>, <<"caller", "task">>} }
          \cup { <<[shape |-> sh, parts |-> <<>>]>> : sh \in {"images", "other"} }
Preambles == {<<>>, <<"task">>, <<"task", "design">>}

\* Plans with some tasks done or given up, one at work and some to come.
Told(status, notes) == [status |-> status, notes |-> [i \in 1 .. notes |-> i]]
Plans == { [tasks |-> [i \in 1 .. done |-> Told("COMPLETED", 1)] \o [i \in 1 .. failed |-> Told("FAILED", 0)] \o <<Told("IN_PROGRESS", notes)>>
                      \o [i \in 1 .. open |-> Told(IF i = 2 THEN "FAILED" ELSE "PENDING", 0)],
            at |-> done + failed + 1] : done \in 0 .. 5, failed \in 0 .. 1, notes \in {0, 7}, open \in 0 .. 8 }
Decided == { [k \in ks |-> 1] : ks \in SUBSET {"palette", "rejected", "structure"} }

Tools == {"list_directory", "write_file", "edit_file", "screenshot", "commit_direction"}
Requireds == {<<>>, <<"list_directory">>, <<"write_file", "edit_file">>, <<"screenshot", "list_directory">>}

Init == question = [about |-> "nothing"]

Panels == \E models \in Preferences : \E failing \in SUBSET ToSet(models) :
            question' = [about |-> "panel", models |-> models, failing |-> failing]
Vote   == \E vs \in [1 .. 3 -> Votes] :
            question' = [about |-> "vote", cards |-> { [model |-> i] @@ vs[i] : i \in 1 .. 3 }]
Change == \E g \in SUBSET ToSet(Arrows) : \E limit \in 1 .. 2 :
            question' = [about |-> "change", limit |-> limit, edges |-> Drawn(SelectSeq(Arrows, LAMBDA a : a \in g))]
Risk   == \E n \in 0 .. 15 : \E conf \in 0 .. 9 : \E mounted \in BOOLEAN : \E composes \in 0 .. 11 :
            question' = [about |-> "risk", n |-> n, conf |-> conf, mounted |-> mounted, composes |-> composes]
Reading == \E n \in 1 .. 4 : \E lines \in [1 .. n -> 1 .. 3] : \E maxLines \in 1 .. 2 : \E budget \in 1 .. 4 :
            question' = [about |-> "file", lines |-> lines, maxLines |-> maxLines, budget |-> budget]
Commit == \E prior, call \in Designs : question' = [about |-> "design", prior |-> prior, call |-> call]
Decide == \E calls \in [1 .. 3 -> Commits] : question' = [about |-> "decisions", calls |-> calls]
Chat    == \E n \in 0 .. 3 : \E history \in [1 .. n -> Said] :
             question' = [about |-> "chat", history |-> history]
Phrase == \E m \in Messages : question' = [about |-> "message", text |-> m]
Ask     == \E q \in Requests : \E intent \in ToSet(Table) \cup {"CONVERSATION"} : \E ui \in BOOLEAN :
             question' = [about |-> "request", request |-> q, text |-> [Says(intent) EXCEPT !.ui = ui]]
Briefed == \E b \in DQ!Briefs : question' = [about |-> "brief", text |-> b]
Propose == \E intent \in ToSet(Table) : \E p \in Proposals : \E fast \in {"nothing", "prose"} : \E own \in BOOLEAN :
             question' = [about |-> "plan", intent |-> intent, own |-> own,
                          replies |-> [fast |-> [says |-> fast, tasks |-> <<>>], own |-> [says |-> "plan", tasks |-> p],
                                      mid |-> [says |-> IF own THEN "nothing" ELSE "plan", tasks |-> p]]]
Judge   == \E n \in 0 .. 2 : \E paths \in [1 .. n -> {"index.html", "app.py", "src/*"}] :
           \E required \in {{}, {"screenshot"}, {"write_file"}, {"write_file", "screenshot"}, {"read_file"}} :
           \E disk \in [{"index.html", "app.py", "src/*"} -> {"missing", "placeholder", "head", "real"}] :
           \E called \in SUBSET {"screenshot", "write_file", "read_file", "delegate_build"} :
           \E blank \in SUBSET {"index.html"} : \E design \in {"none", "absent"} :
             question' = [about |-> "verdict",
                          task |-> MakeTask([required |-> SetToSeq(required), artifacts |-> paths], 0),
                          world |-> [disk |-> disk, called |-> called, blank |-> blank, design |-> design,
                                     mechanism |-> FALSE]]

Rounds == \E n \in 0 .. 4 : \E rounds \in [1 .. n -> Outcomes] : \E turn \in Turns(n) :
            question' = [about |-> "rounds", rounds |-> rounds, turn |-> turn]
Opened == \E first \in Firsts : \E preamble \in Preambles :
            question' = [about |-> "opening", first |-> first, preamble |-> preamble]
Contexts == \E plan \in Plans : \E design \in Decided : \E hidden \in BOOLEAN :
              question' = [about |-> "context", plan |-> plan, design |-> design, hidden |-> hidden]
Forced == \E required \in Requireds : \E available \in SUBSET Tools : \E called \in SUBSET available : \E artifacts, lacks, partial \in BOOLEAN :
          \E committed, planned \in BOOLEAN :
            question' = [about |-> "forcing", available |-> available, committed |-> committed, planned |-> planned,
                         task |-> [required |-> required, artifacts |-> artifacts, called |-> called,
                                   lacks |-> lacks, partial |-> partial]]

Compiled == \E site \in CQ!Sites : \E chain \in CQ!Chains :
            \E ofA \in SUBSET CQ!About(site).a, ofB \in SUBSET CQ!About(site).b : \E imports \in CQ!About(site).imports :
              question' = [about |-> "call", call |-> site, program |-> CQ!Program(ofA, ofB, imports, chain, site)]
Carded   == \E edges \in CQ!Graphs : \E d \in CQ!Descriptions : \E limit \in 1 .. 3 :
              question' = [about |-> "card", edges |-> edges, text |-> d, limit |-> limit]
Rooted   == \E n \in 0 .. 11 : \E mounted \in BOOLEAN : question' = [about |-> "root", n |-> n, mounted |-> mounted]
Imported == \E files \in SUBSET CQ!Files : question' = [about |-> "import", files |-> files]
Stated   == \E file \in CQ!Importing : \E s \in CQ!Statements : \E files \in SUBSET CQ!Sources :
              question' = [about |-> "statement", file |-> file, statement |-> s, files |-> files \cup {file}]
Pictured == \E store \in CQ!Stores : \E t \in 0 .. 4 : question' = [about |-> "picture", store |-> store, t |-> t]
Written  == \E code, written \in {"", "h1", "h2"} : question' = [about |-> "meaning", code |-> code, written |-> written]

Used     == \E qs \in TQ!Questions : \E q \in qs : question' = [about |-> "tool", asked |-> q]
Ingested == \E qs \in IQ!Questions : \E q \in qs : question' = [about |-> "intent", asked |-> q]
Consulted == \E qs \in MQ!Questions : \E q \in qs : question' = [about |-> "model", asked |-> q]
Claimed  == \E cs \in MQ!Answers, w \in MQ!Worlds : question' = [about |-> "model", asked |-> MQ!Ask("answer", [claims |-> cs, world |-> w])]

Next == question.about = "nothing" /\ (Panels \/ Vote \/ Change \/ Risk \/ Reading \/ Commit \/ Decide
                                        \/ Chat \/ Phrase \/ Ask \/ Briefed \/ Propose \/ Judge
                                        \/ Rounds \/ Opened \/ Contexts \/ Forced
                                        \/ Compiled \/ Carded \/ Rooted \/ Imported \/ Stated \/ Pictured \/ Written \/ Used \/ Ingested \/ Consulted \/ Claimed)

Spec == Init /\ [][Next]_question

-----------------------------------------------------------------------------
\* However the providers fail, a panel is short only when no model of a provider
\* that never failed is left, and nobody answers twice or for a model that failed
\* (quorum.py, _panel_models and _gather_cards).
PanelIsFilled ==
  question.about = "panel" =>
    LET cards   == MQ!Answering(question.models, question.failing)
        healthy == { m \in ToSet(question.models) : \A f \in question.failing : MQ!Provider(f) # MQ!Provider(m) }
    IN  /\ IsInjective(cards) /\ ToSet(cards) \cap question.failing = {}
        /\ Len(cards) <= MQ!PanelSize
        /\ Len(cards) = MQ!PanelSize \/ healthy \subseteq ToSet(cards)

\* Confidence never lifts an answer over one the repository bears out better, and
\* a debate in which nobody revises decides what the first round decided (quorum.py,
\* _rank and _debate_round).
ConfidenceOnlyBreaksTies ==
  question.about = "vote" =>
    LET best == MQ!Ranked(question.cards)
        loud == { IF \A b \in best : c.net < b.net THEN [c EXCEPT !.weight = @ + 2] ELSE c : c \in question.cards }
    IN  /\ MQ!Ranked(loud) = best
        /\ MQ!Resolved(MQ!Final(question.cards, <<>>)) = MQ!Resolved(question.cards)

\* The nodes to which k edges or fewer lead from node 1.
Reached(edges, k) ==
  LET Within[i \in 0 .. k] ==
        IF i = 0 THEN {1}
        ELSE Within[i - 1] \cup { e.to : e \in { d \in ToSet(edges) : d.from \in Within[i - 1] } }
  IN  Within[k]

\* Whatever depends on a change through no more edges than asked for, and nothing
\* else, is in its radius, at its distance, through a dependent one step nearer,
\* no surer than that one and the edge to it (impact.py, blast_radius_ids); the
\* context of a question holds the nodes that near and exactly the edges out of
\* those it expanded (retrieval.py, assemble).
RadiusIsExact ==
  question.about = "change" =>
    LET edges == question.edges
        limit == question.limit
        r == BlastRadius(edges, <<1>>, limit)
        back == Flipped(edges)
        c == Assembled(edges, <<1>>, limit, {})
    IN  /\ Affected(r) = Reached(back, limit) \ {1}
        /\ \A n \in Affected(r) :
             LET p == r.parent[n] IN
             /\ n \in Reached(back, r.depth[n]) \ Reached(back, r.depth[n] - 1)
             /\ r.depth[p] = r.depth[n] - 1
             /\ \E e \in ToSet(edges) : e.from = n /\ e.to = p /\ r.conf[n] <= e.conf /\ r.conf[n] <= r.conf[p]
        /\ c.nodes = Reached(edges, limit)
        /\ c.edges = { i \in DOMAIN edges : edges[i].from \in Reached(edges, limit - 1) }

\* One more dependent, or a surer path to one, never lowers the level of risk a
\* change is given, and a root component's is never below its floor (impact.py,
\* analyze and _grade).
RiskIsMonotone ==
  question.about = "risk" =>
    LET q == question
        level == Level(q.n, q.conf, q.mounted, q.composes, FALSE)
    IN  /\ level <= Level(q.n + 1, q.conf, q.mounted, q.composes, FALSE)
        /\ level <= Level(q.n, q.conf + 1, q.mounted, q.composes, FALSE)
        /\ q.mounted /\ q.composes >= 5 => level >= 2

\* A call is an edge to what it refers to and to nothing else, an import to the file
\* it names, a lookup in the graph says all of it and nothing stale, and what a
\* repository is said to serve, to have decided and to have been is evidenced
\* (resolve_v2.py: "an edge into the wrong definition is worse than a missing one";
\* tools.py, _find_references_v2 and _lookup_symbol; intent.py: "no evidence, no node").
CodeIsReadRight ==
  /\ question.about = "call"    => CQ!CallsAreResolved(question.program, question.call)
  /\ question.about = "import"  => CQ!ImportsAreFound(question.files)
  /\ question.about = "statement" => CQ!StatementsBind(question.file, question.statement, question.files)
  /\ question.about = "picture" => question.t = 0 \/ CQ!PicturesAreOfTheirTime(question.store, question.t)
  /\ question.about = "change"  => \A other \in BOOLEAN : CQ!LookupsAgree(question.edges, question.limit, other)
  /\ question.about = "card"    => CQ!CardsAreExact(question.edges, question.text, question.limit)
  /\ question.about = "root"    => CQ!RootsAreGraded(question.n, question.mounted)
  /\ question.about = "meaning" => CQ!MeaningsAreCurrent(question.code, question.written)
  /\ question.about = "intent"  => IQ!Holds(question.asked)

\* What a change is said to affect is what it affects, and how bad that is said to
\* be grows with it (impact.py, analyze); a quorum answers as well as its models
\* allow, and what was verified decides (quorum.py, run); and the graph both are
\* asked about is the code's.
AnalysesAreExact == RadiusIsExact /\ RiskIsMonotone /\ PanelIsFilled /\ ConfidenceOnlyBreaksTies /\ CodeIsReadRight

\* The lines a reader is shown that follows every reply's advice; a reply that
\* shows nothing ends the reading.
ReadThrough(lines, maxLines, budget) ==
  LET Follow(r) ==
        LET w == TQ!Window(lines, r.start, maxLines, budget) IN
        IF r.start = 0 \/ w.to < w.from THEN [r EXCEPT !.start = 0]
        ELSE [start |-> TQ!Continuation(lines, w), shown |-> r.shown \o [i \in 1 .. w.to + 1 - w.from |-> w.from + i - 1]]
      Reads[k \in 0 .. Len(lines)] == IF k = 0 THEN [start |-> 1, shown |-> <<>>] ELSE Follow(Reads[k - 1])
  IN  Reads[Len(lines)]

\* A file is read to its end, every line once and in order, by a reader who follows
\* the advice of each reply, however long its lines are (tools.py, _read_window:
\* "every truncated reply ends with the exact call that continues it").
ReadingReachesTheEnd ==
  question.about = "file" =>
    ReadThrough(question.lines, question.maxLines, question.budget)
      = [start |-> 0, shown |-> [i \in DOMAIN question.lines |-> i]]

\* A decision survives every later call that does not change it, a rejected idea
\* stays rejected, and a repeated call changes nothing (tools.py, _merge_design).
DecisionsStick ==
  question.about = "design" =>
    LET prior == question.prior
        call  == question.call
        merged == TQ!MergeDesign(prior, call)
    IN  /\ \A k \in DOMAIN prior.chosen : k \in DOMAIN call.chosen \/ merged.chosen[k] = prior.chosen[k]
        /\ IsPrefix(prior.rejected, merged.rejected)
        /\ TQ!MergeDesign(merged, call) = merged

\* A job is committed as soon as one call says a direction, and keeps what any of them
\* chose; a task counts as planned only if a structure was committed for it, as soon as
\* it was, and until one is for another (jobs.py, _loop: "this task already has its plan").
CommitmentsLast ==
  question.about = "decisions" =>
    LET calls == question.calls
        After[i \in 0 .. 3] == IF i = 0 THEN <<>> ELSE TQ!Committed(After[i - 1], calls[i], calls[i].task)
        counted == { i \in 1 .. 3 : calls[i].direction # 0 }
        plans   == { i \in counted : calls[i].structure # "none" /\ calls[i].task # 0 }
        d == TQ!Designed(After[3])
    IN  /\ After[3] # <<>> <=> counted # {}
        /\ \A i \in counted : DOMAIN calls[i].chosen \subseteq DOMAIN d.chosen
        /\ d.planned # 0 => \E i \in plans : calls[i].task = d.planned /\ \A j \in plans : j <= i
        /\ \A i \in plans : (\A j \in counted : j <= i) => d.planned = calls[i].task

\* A tool that is offered answers what it was asked, a command ends, and what is said
\* of a page is of that page (tools.py, execute_tool, _run_command_structured and
\* _browser_console).
ToolsAnswerForThemselves == question.about = "tool" => TQ!Holds(question.asked)

\* A request goes to a model that can answer it, with a key of its own and no faster
\* than it may; a reply is read for what it says, and its claims are held against the
\* repository (llm.py, plan_builder.py, verification.py and quorum.py).
RepliesAreWeighed == question.about = "model" => MQ!Holds(question.asked)

\* The answers the job steers by keep what they promise.
AnswersCarryOn == ReadingReachesTheEnd /\ DecisionsStick /\ CommitmentsLast /\ ToolsAnswerForThemselves /\ RepliesAreWeighed

\* A nudge starts a job with the contract of the last message that said something,
\* however many nudges and answers came after it, and with none when there is no
\* such message (task.py, resolve_contract_source; chat/api.py: "must contract
\* against the last substantive message").
NudgesKeepTheContract ==
  question.about = "chat" =>
    LET history == question.history
        source  == ResolveContractSource(Nudge, history)
        says(i) == history[i].role = "user" /\ ~IsBareContinuation(history[i].text)
    IN  \/ \E i \in DOMAIN history : says(i) /\ source = history[i].text /\ \A j \in i + 1 .. Len(history) : ~says(j)
        \/ GenerateContract(source).required = {} /\ \A i \in DOMAIN history : ~says(i)

\* Whatever a message says, the job it starts is offered every tool its contract
\* requires, and a command is never taken for a question about its consequences
\* (tools.py, groups_providing: "a job must be given the tools its own contract
\* requires of it"; task.py, classify_intent).
ContractsCanBeKept ==
  question.about = "message" =>
    LET c == GenerateContract(question.text) IN
    /\ c.required \subseteq OfferedTools(question.text, c, FALSE)
    /\ ContractKept(c, c.required) /\ (c.required # {} => ~ContractKept(c, {}))
    /\ Commands(question.text) => c.required # {}

\* A brief says how an interface is to be by the words it does not rule out, and what
\* it asks for can be built and is not got by less (design_intent.py, derive;
\* validators.py, _design_evidence and _intent_fidelity).
DesignsAreOfTheBrief ==
  question.about = "brief" => DQ!BriefIsHeard(question.text) /\ DQ!BriefsCanBeKept(question.text)

\* What the words of a conversation oblige a job to is what the user last asked
\* for, and it is possible.
JobsAreHeldToTheirTask == NudgesKeepTheContract /\ ContractsCanBeKept /\ DesignsAreOfTheBrief

\* The world in which a task was done as it declares itself.
AsDeclared(t) == [disk |-> [p \in ToSet(t.artifacts) |-> "real"], called |-> t.required \cap RealTools,
                  blank |-> {}, design |-> "shown", mechanism |-> FALSE]

\* Whatever the planning models return, there is a plan for work; it is no longer
\* than it may be, its dependencies point back, a proposal for substantial work
\* commits to a direction, and no task in it is one that doing what it declares
\* would not finish (plan_builder.py: "Nothing the model returns is used as-is",
\* "a task requiring one can never satisfy its own completion condition").
PlansCanBeFinished ==
  question.about = "plan" =>
    LET c      == GenerateContract(Says(question.intent))
        models == PlanningModels(<<"fast">>, <<"mid", "fast">>, "own", <<>>)
        plan   == BuildPlan([files |-> <<>>, onePage |-> FALSE, stack |-> FALSE, oneFile |-> FALSE, brief |-> FALSE],
                            c, models, question.replies)
    IN  /\ c.intent # "SEARCH" => plan # <<>>
        /\ Len(plan) <= MaxTasks
        /\ c.intent = "CREATE" => \E i \in DOMAIN plan : "commit_direction" \in plan[i].required
        /\ \A i \in DOMAIN plan : plan[i].after < i /\ Validated(plan[i], AsDeclared(plan[i]))

\* A task that passes the checks inferred for it left every file it declared on disk,
\* as more than a gesture, called or handed over every tool it could not do without,
\* and looked at the page itself (validators.py: "A validator satisfiable by a token
\* gesture is not a validator").
ChecksAreNotFooled ==
  question.about = "verdict" /\ Validated(question.task, question.world) =>
    LET t == question.task
        w == question.world
        one == Single(t.artifacts)
    IN  /\ \A p \in ToSet(t.artifacts) : w.disk[p] = "real" \/ (w.disk[p] = "head" /\ p # "index.html")
        /\ \A tool \in t.required \ w.called : tool \in Delegatable /\ w.called \cap Delegating # {}
        /\ w.design = "absent" => ToSet(t.artifacts) \cap Pages = {}
        /\ "screenshot" \in t.required /\ one # <<>> /\ one[1] \in Pages => w.blank = {}

\* A job that works off a template has kept its contract, whether it did the work
\* itself or delegated what can be delegated: the gate behind the plan never sends
\* it back (plan_builder.py, _specs_for; task.py, validate_completion).
TemplatesMeetTheContract ==
  question.about = "request" =>
    LET c    == GenerateContract(question.text)
        plan == FallbackPlan(question.request, c)
        required == UNION { plan[i].required : i \in DOMAIN plan }
    IN  plan # <<>> => ContractKept(c, required) /\ ContractKept(c, (required \ Delegatable) \cup {"delegate_task"})

\* A job is offered every tool its plan cannot be finished without, or a delegate for
\* it (jobs.py, start: "The contract decides what this job MUST do; the groups decide
\* what it CAN do ... a job could be required to call write_file and never be offered
\* it").  The plan is made later, and nothing is offered for it.
PlansAreOffered ==
  question.about = "request" =>
    LET c       == GenerateContract(question.text)
        offered == OfferedTools(question.text, c, question.text.ui)
    IN  \A i \in DOMAIN FallbackPlan(question.request, c) :
          FallbackPlan(question.request, c)[i].required
            \subseteq offered \cup (IF offered \cap Delegating # {} THEN Delegatable ELSE {})

TaskAt(turn, i) == IF turn.what = "switch" /\ turn.at <= i THEN 2 ELSE 1
Top(s, turn, i) == TopOfRound(IF turn = [what |-> "reenter", at |-> i] THEN Reentered(s) ELSE s,
                              TaskAt(turn, i), turn = [what |-> "intervene", at |-> i], Near)

\* What the model is shown in the round after these.
Shown(rounds, turn) ==
  LET After[i \in 0 .. Len(rounds)] ==
        IF i = 0 THEN Top(Opening, turn, 1) ELSE Top(Answered(After[i - 1], rounds[i]), turn, i + 1)
  IN  After[Len(rounds)]

\* Every call is answered once, by its own result, in order and with nothing between
\* them but the image a screenshot took.
ResultsAnswerCalls(log) ==
  LET plain == SelectSeq(log, LAMBDA m : m.kind # "shot") IN
  /\ \A i \in DOMAIN plain : plain[i].kind = "calls" =>
       \A k \in DOMAIN plain[i].calls :
         i + k \in DOMAIN plain /\ plain[i + k].kind = "result" /\ plain[i + k].calls = <<plain[i].calls[k]>>
  /\ \A i \in DOMAIN plain : plain[i].kind = "result" =>
       \E j \in 1 .. i - 1 : plain[j].kind = "calls" /\ i - j <= Len(plain[j].calls)

\* There is one block of state, which only an intervention follows, and at most one
\* directive.
BlocksAreLive(log) ==
  LET at(kind) == { i \in DOMAIN log : log[i].kind = kind } IN
  /\ Cardinality(at("state")) = 1 /\ Cardinality(at("directive")) <= 1
  /\ \A i \in at("state") : i = Len(log) \/ (i = Len(log) - 1 /\ Last(log).kind = "intervention")

\* Two nudges follow each other only where the directive between them was replaced.
NudgesDoNotStack(log, rounds) ==
  LET said == Without(log, "state") IN
  \A i \in 1 .. Len(said) - 1 : said[i].kind = "nudge" /\ said[i + 1].kind = "nudge" =>
    \E r \in said[i].round + 1 .. said[i + 1].round - 1 : rounds[r].what = "cut"

\* What the last rounds brought is whole, and so is the guidance the current task
\* loaded, as long as the loop has not been entered again.
RecentIsWhole(s, turn) ==
  \A i \in DOMAIN s.log :
    \/ s.log[i].short = {}
    \/ /\ s.round - s.log[i].round >= StaleAfter
       /\ \/ s.log[i].kind # "result"
          \/ turn.what = "reenter" /\ turn.at <= s.round
          \/ turn.what = "switch" /\ turn.at <= s.round /\ s.log[i].round < turn.at

\* The round in which a task begins has nothing of its own yet.
BeginsEmpty(s, turn) ==
  turn = [what |-> "switch", at |-> s.round] =>
    LET split == SplitContext(<<"caller">>, s.log, s.starts[2]) IN
    /\ split.current = Weighed(Compact(Before, s.round, Near, <<>>))
    /\ split.prior + split.current = split.buckets.tool + split.buckets.assistant + split.buckets.user

\* After any rounds, the request of the next one is in order.
TranscriptIsLegal(rounds, turn) ==
  LET s == Shown(rounds, turn) IN
  /\ ResultsAnswerCalls(s.log) /\ BlocksAreLive(s.log) /\ NudgesDoNotStack(s.log, rounds)
  /\ RecentIsWhole(s, turn) /\ BeginsEmpty(s, turn)

\* Whatever shape the caller's first message has, the model is told its task and is
\* given the brief once, where the telemetry finds it.
PreambleIsTold(first, preamble) ==
  LET told == AttachPreamble(first, preamble)
      split == SystemSplit(told[1].parts)
  IN  preamble # <<>> =>
        /\ ToSet(preamble) \subseteq ToSet(told[1].parts)
        /\ split.design_brief = (IF "design" \in ToSet(preamble) THEN 1 ELSE 0) /\ split.task_prompt > 0
        /\ "design" \in ToSet(preamble) => AttachPreamble(told, preamble) = told

\* The block tells the whole of the current task and of no other; of the others that
\* count it tells, in order, the last done and the first to come, never one as both
\* nor one that was given up; and every decision that holds for all tasks
\* (task_context_block: "a model given the whole plan solves the whole plan").
ContextIsOfTheTask(plan, design, hidden) ==
  LET b == StateBlock(plan.tasks, plan.at, design, hidden)
      has(statuses) == { i \in DOMAIN plan.tasks : plan.tasks[i].status \in statuses }
      named == ToSet(b.done) \cup ToSet(b.later)
  IN  /\ plan.at \notin named /\ ToSet(b.done) \cap ToSet(b.later) = {} /\ named \cap has({"FAILED"}) = {}
      /\ \A i \in has({"COMPLETED"}) \ named : Len(b.done) = 4 /\ \A k \in ToSet(b.done) : i < k
      /\ ~hidden => \A i \in has({"PENDING"}) \ named : Len(b.later) = 6 /\ \A k \in ToSet(b.later) : k < i
      /\ plan.tasks[plan.at].notes # <<>> => Last(b.task.notes) = Last(plan.tasks[plan.at].notes)
      /\ DOMAIN b.design = DOMAIN design \ {"structure"}

\* After a cut the model is told what it is committed to, which it is as soon as the
\* demand is anything but to decide.
DirectiveTells(t, available, committed, planned) ==
  LET forced == AfterCut(t, committed, planned, available)
      d == Directive(IF committed THEN <<[direction |-> "x", decisions |-> [i \in 1 .. 9 |-> i]]>> ELSE <<>>, forced)
  IN  "commit_direction" \in available /\ forced # "commit_direction" => d.told # <<>> /\ d.told[1].direction = "x"

\* A forced call is offered and can still tell the task something; without one, there
\* is nothing the task requires or could write that would.
ForcingAims(t, available) ==
  LET f == ForcedTool(t, available) IN
  IF f = "none"
  THEN /\ ToSet(t.required) \cap available \subseteq t.called \cap ReadOnly
       /\ t.artifacts => {"write_file", "edit_file"} \cap available = {}
  ELSE /\ f \in available /\ f \notin t.called \cap ReadOnly
       /\ \A n \in ToSet(t.required) \cap available : n \in t.called \/ f \notin t.called

\* Nothing is demanded of the model that it is not offered.
DemandsAreOffered(t, available, committed, planned, contract) ==
  LET f == AfterCut(t, committed, planned, available)
  IN  /\ ToolChoice(f, f = "none", contract, t.called, available) \in available \cup {"required"}
      /\ ToolChoice("none", FALSE, contract, t.called, available) = "auto"

\* However the rounds of a job go, what its model is shown next is in order: calls
\* answered, one block of state, no pile of nudges, nothing recent shortened; the
\* task is told whatever the caller's first message looked like; and what is forced
\* is offered and can help (jobs.py, _loop: "most providers reject outright" a
\* history with unanswered calls; controller.py, forced_tool_for: "Forcing *a* tool
\* only buys a tool call; forcing *the* tool buys the task").
TranscriptsStayLegal ==
  /\ question.about = "rounds"  => TranscriptIsLegal(question.rounds, question.turn)
  /\ question.about = "opening" => PreambleIsTold(question.first, question.preamble)
  /\ question.about = "context" => ContextIsOfTheTask(question.plan, question.design, question.hidden)
  /\ question.about = "forcing" =>
       /\ DirectiveTells(question.task, question.available, question.committed, question.planned)
       /\ ForcingAims(question.task, question.available)
       /\ DemandsAreOffered(question.task, question.available, question.committed, question.planned, question.task.required)

\* Being done is a fact about the repository and the calls, task by task and for the
\* job as a whole.
DoneMeansDone == ChecksAreNotFooled /\ TemplatesMeetTheContract
=============================================================================
