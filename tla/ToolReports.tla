---------------------------- MODULE ToolReports ----------------------------
(***************************************************************************)
(* What a tool call is answered with (backend/agents/tools.py), as         *)
(* operators: which calls reach their tool and what they leave beside the  *)
(* text (execute_tool), what becomes of a command and its processes, which *)
(* commands check a project, and what is told of a page.                   *)
(***************************************************************************)
EXTENDS Integers, Sequences, FiniteSets, SequencesExt, TLC

(* The tools: the arguments a schema requires, and the groups.             *)

Takes(args, tools) == [t \in tools |-> args]
ReadOnlyTools == Takes({"path"}, {"read_file", "get_file_outline"}) @@ Takes({"query"}, {"search_code", "semantic_search"})
  @@ Takes({}, {"list_directory", "tree", "list_symbols", "get_project_metadata", "detect_conventions"})
  @@ Takes({"name"}, {"lookup_symbol", "get_dependencies"}) @@ Takes({"paths"}, {"read_files"}) @@ Takes({"symbol"}, {"find_references"})
EditingTools == Takes({"path", "content"}, {"write_file"}) @@ Takes({"path"}, {"create_directory", "delete_file"})
  @@ Takes({"path", "old_text", "new_text"}, {"edit_file"}) @@ Takes({"from_path", "to_path"}, {"move_file"})
  @@ Takes({"name"}, {"create_project"}) @@ Takes({"patch"}, {"apply_patch"}) @@ Takes({"files"}, {"create_files"})
RuntimeTools == Takes({"command"}, {"run_command"}) @@ Takes({"code"}, {"run_python"})
  @@ Takes({}, {"run_tests", "typecheck", "lint", "build", "get_build_errors", "start_dev_server"})
PageTools == Takes({}, {"screenshot", "browser_console", "browser_network", "browser_scroll", "inspect_page"})
  @@ Takes({"url"}, {"browser_navigate"}) @@ Takes({"selector"}, {"browser_click", "inspect_element"}) @@ Takes({"selector", "text"}, {"browser_type"})
DesignTools == Takes({}, {"get_design_guidance", "get_design_system", "analyze_visual_hierarchy", "check_design_consistency"})
  @@ Takes({"component"}, {"inspect_component"})
GitTools == Takes({}, {"git_status", "git_diff", "git_log", "git_branch", "summarize_changes"})
  @@ Takes({"name"}, {"create_branch"}) @@ Takes({"message"}, {"commit"})

Schemas == ReadOnlyTools @@ EditingTools @@ RuntimeTools @@ PageTools @@ DesignTools @@ GitTools @@ Takes({"query"}, {"web_search"})
  @@ Takes({"direction"}, {"commit_direction"}) @@ Takes({"plan"}, {"delegate_task"}) @@ Takes({"spec"}, {"delegate_build"})
  @@ Takes({"brief"}, {"generate_with_qwen"})

DISABLED_TOOLS == {"generate_with_qwen"}
Unlisted == {"semantic_search"}
tool_groups == [repo |-> {"commit_direction"} \cup (DOMAIN ReadOnlyTools \ Unlisted), code |-> DOMAIN EditingTools, runtime |-> DOMAIN RuntimeTools,
                browser |-> DOMAIN PageTools, design |-> DOMAIN DesignTools, git |-> DOMAIN GitTools, external |-> {"web_search"},
                orchestration |-> {"delegate_task", "delegate_build"}]

MUTATING_TOOLS == (DOMAIN EditingTools \ {"create_project"}) \cup (DOMAIN RuntimeTools \ {"get_build_errors"})
                    \cup {"delegate_task", "delegate_build", "commit", "create_branch"}

\* What a delegated worker may use.
EXECUTOR_TOOLS == {"create_directory", "write_file", "edit_file", "delete_file", "move_file", "list_directory", "read_file", "read_files",
  "search_code", "run_python", "lookup_symbol", "tree", "list_symbols", "get_dependencies", "run_command", "get_project_metadata",
  "find_references", "get_file_outline", "detect_conventions", "run_tests", "typecheck", "lint", "build", "get_build_errors", "git_status",
  "git_diff", "git_log", "git_branch", "summarize_changes", "get_design_system", "check_design_consistency", "analyze_visual_hierarchy"}

\* What a handler takes without a default.
Reads(tool) == IF tool = "commit_direction" THEN {} ELSE Schemas[tool]

\* Tools that refuse to name a credential file.
Guarded == {"read_file", "read_files", "run_command", "run_python", "start_dev_server"}

\* execute_tool: what answers a call.  An exception is an answer.
AnsweredBy(c) ==
  IF c.tool \in DISABLED_TOOLS \/ (c.tool \in MUTATING_TOOLS /\ c.platform) THEN "refusal"
  ELSE IF c.tool \notin DOMAIN Schemas THEN "unknown"
  ELSE IF ~(Reads(c.tool) \subseteq c.args) \/ c.raises THEN "failure"
  ELSE IF c.tool \in Guarded /\ c.secret THEN "refusal" ELSE "tool"

\* What it leaves in the caller's context, beside the text.
Leaves(c) ==
  IF AnsweredBy(c) # "tool" THEN {}
  ELSE CASE c.tool = "create_project"   -> {"new_repository"}
         [] c.tool = "commit_direction" -> IF c.empty THEN {} ELSE {"commitment"}
         [] c.tool \in {"run_command", "run_tests"} -> {"exit_code"}
         [] c.tool = "screenshot" -> IF c.sees /\ ~c.empty THEN {"screenshot_b64"} ELSE {}
         [] c.tool \in {"web_search", "browser_navigate", "browser_console", "browser_network", "inspect_element", "analyze_visual_hierarchy"} ->
              IF c.tainted THEN {"tainted_findings"} ELSE {}
         [] OTHER -> {}

-----------------------------------------------------------------------------
(* A command (_run_command_structured): the shell and what it started.  A  *)
(* process is [holds, own, lasts]: it has the pipe open, it left the       *)
(* shell's session, it outlives the limit.                                 *)

Limit == 30
Drain == 5

Ended(w) == ~w.hangs /\ \A p \in w.started : ~(p.holds /\ p.lasts)

\* _kill_process_tree: nothing if the shell is gone, otherwise all of its session.
Killed(w) == IF w.hangs THEN { p \in w.started : ~p.own } ELSE {}

StillHeld(w) == \E p \in w.started \ Killed(w) : p.holds /\ p.lasts

\* [says, code, took, left]: left are the processes that go on.
RunCommand(w) ==
  LET lasting == { p \in w.started : p.lasts } IN
  IF ~w.launches THEN [says |-> "failed", code |-> <<>>, took |-> 0, left |-> {}]
  ELSE IF Ended(w) THEN [says |-> "output", code |-> <<w.code>>, took |-> w.time, left |-> lasting]
  ELSE [says |-> "killed", code |-> <<>>, took |-> Limit + (IF StillHeld(w) THEN Drain ELSE 0), left |-> lasting \ Killed(w)]

-----------------------------------------------------------------------------
(* What checks a project: [pkg, test, build, py, cargo, go, tsconfig,      *)
(* makefile]; a script is "none", the "stub" npm writes, or "real".        *)

Language(r) == IF r.pkg # "none" THEN "javascript" ELSE IF r.py THEN "python" ELSE IF r.cargo THEN "rust" ELSE IF r.go THEN "go" ELSE "unknown"

TestCommand(r)  == IF r.pkg = "ok" /\ r.test = "real" THEN "npm test" ELSE "pytest"
BuildCommand(r) == IF r.pkg = "ok" /\ r.build = "real" THEN "npm build" ELSE IF r.makefile THEN "make" ELSE "none"

\* A path is never false: without tsconfig.json it is mypy, and always eslint.
TypecheckCommand(r) == IF r.tsconfig THEN "tsc" ELSE "mypy"
LintCommand(r)      == "eslint"

\* _start_dev_server
DevServer(r, pages, command) ==
  IF command # "" THEN "started"
  ELSE IF r.pkg # "none" THEN "started"
  ELSE IF pages \cap {"index.html", "benchmark.html"} # {} THEN "file" ELSE "none"

-----------------------------------------------------------------------------
(* Pages.                                                                  *)

BLANK_TEXT_CHARS == 120

\* _resolve_repo_file_url: the path after the first folder of the repository's name,
\* or the last name alone, and then the index; if neither is there, what was asked.
RepoFileUrl(repo, files, path) ==
  LET at  == { i \in 1 .. Len(path) - 1 : path[i] = repo }
      rel == IF at = {} THEN <<Last(path)>> ELSE SubSeq(path, (CHOOSE i \in at : \A j \in at : i <= j) + 1, Len(path))
  IN  IF rel \in files THEN rel ELSE IF <<"index.html">> \in files THEN <<"index.html">> ELSE <<>>

\* What is said of a page: [blank, errors]; text is -1 where it could not be measured.
PageReport(text, console) ==
  [blank  |-> text >= 0 /\ text < BLANK_TEXT_CHARS,
   errors |-> SelectSeq(console, LAMBDA e : e.type \in {"error", "pageerror"})]

\* The consoles: the session's own page and what the last picture or operation saw.
NoConsole == [url |-> "none", said |-> <<>>, lastUrl |-> "none", last |-> <<>>]

\* _browser_op after _browser_navigate, and _screenshot_structured on a page of its own.
Navigated(s, url, says)  == [url |-> url, said |-> says, lastUrl |-> url, last |-> says]
Pictured(s, url, says)   == [s EXCEPT !.lastUrl = url, !.last = says]

\* _browser_console: asked for errors, one of the page's own lets everything through.
Console(s, level) ==
  LET all   == IF s.said # <<>> THEN s.said ELSE s.last
      threw == level = "error" /\ \E i \in DOMAIN all : all[i].type = "pageerror"
  IN  [of |-> IF s.url # "none" THEN s.url ELSE s.lastUrl,
       says |-> IF level = "" \/ threw THEN all ELSE SelectSeq(all, LAMBDA e : e.type = level)]

-----------------------------------------------------------------------------
(* Answers that decide what the model does next: the window read_file      *)
(* shows of a file and how to go on (_read_window), and the design         *)
(* decisions commit_direction carries over from its earlier calls          *)
(* (_merge_design).                                                        *)

\* A file is the sequence of its lines' lengths, each with its newline.
Chars(lines, from, to) == FoldLeft(LAMBDA n, i : n + lines[i], 0, [i \in 1 .. (to + 1 - from) |-> from + i - 1])

\* Wrong: a line longer than the whole budget is not shown
FitsStrictly(lines, start, i, budget) == Chars(lines, start, i) <= budget

\* The first line always fits: one enormous line must not end the reading.
Fits(lines, start, i, budget) == i = start \/ Chars(lines, start, i) <= budget

\* The lines shown from start on: as many as the two budgets let through.
Window(lines, start, maxLines, budget) ==
  LET last == IF start + maxLines - 1 < Len(lines) THEN start + maxLines - 1 ELSE Len(lines)
      shown == { i \in start .. last : \A k \in start .. i : Fits(lines, start, k, budget) }
  IN  [from |-> start, to |-> start + Cardinality(shown) - 1]

\* The start_line of the call the reply asks for; 0 when it asks for none.
Continuation(lines, w) == IF w.to < Len(lines) THEN w.to + 1 ELSE 0

\* A design is [chosen, rejected, structure, planned]; a call may leave each of them
\* out.  What was chosen stays until it is chosen anew, what was rejected stays, and
\* the structure is the last call's alone; planned is the task it was last made for.
MaxRejected == 10

MergeRejected(old, new) ==
  LET all == FoldLeft(LAMBDA rs, r : IF r \in ToSet(rs) THEN rs ELSE Append(rs, r), old, new)
  IN  IF Len(all) > MaxRejected THEN SubSeq(all, 1, MaxRejected) ELSE all

MergeDesign(prior, call) ==
  [chosen    |-> [k \in DOMAIN prior.chosen \cup DOMAIN call.chosen |->
                    IF k \in DOMAIN call.chosen THEN call.chosen[k] ELSE prior.chosen[k]],
   rejected  |-> MergeRejected(prior.rejected, call.rejected),
   structure |-> call.structure,
   planned   |-> prior.planned]

NoDesign == [chosen |-> <<>>, rejected |-> <<>>, structure |-> "none", planned |-> 0]
Designed(commitment) == IF commitment = <<>> \/ commitment[1].design = <<>> THEN NoDesign ELSE commitment[1].design[1]

\* What a job is committed to after a call made for a task, 0 for none: <<>> or its
\* record.  A call without a direction records nothing, and a design that says
\* nothing is left out (_commit_direction; the round stamps the task).
Committed(commitment, call, task) ==
  LET d == MergeDesign(Designed(commitment), call) IN
  IF call.direction = 0 THEN commitment
  ELSE <<[direction |-> call.direction,
          design    |-> IF d.chosen = <<>> /\ d.rejected = <<>> /\ d.structure = "none" THEN <<>>
                        ELSE <<IF d.structure # "none" /\ task # 0 THEN [d EXCEPT !.planned = task] ELSE d>>]>>

-----------------------------------------------------------------------------
(* What a round changed (progress.py).  A repository is the sequence of its *)
(* files in the order of the walk: [dirs, name, stat], stat its size and    *)
(* date, <<>> if it cannot be read.                                         *)

SkippedDirs == {".git", "node_modules", "__pycache__", ".venv", "venv", "dist", "build", ".next", ".pytest_cache", ".cache"}
AgentArtefacts == {".codexa-screenshot.png", ".codexa-repo.json"}

Counts(f) == /\ ToSet(f.dirs) \cap SkippedDirs = {} /\ f.name \notin AgentArtefacts /\ f.stat # <<>>

\* Nothing, of a repository that is not loaded.
Snapshot(repo, loaded, max) ==
  LET counted == SelectSeq(repo, Counts)
  IN  IF loaded THEN ToSet(SubSeq(counted, 1, IF Len(counted) < max THEN Len(counted) ELSE max)) ELSE {}

PathsOf(snap) == { <<f.dirs, f.name>> : f \in snap }

Compare(before, after) ==
  [created  |-> PathsOf(after) \ PathsOf(before),
   modified |-> { p \in PathsOf(after) \cap PathsOf(before) : \E f \in after \ before : <<f.dirs, f.name>> = p },
   deleted  |-> PathsOf(before) \ PathsOf(after)]

\* The kinds of change a line tells, or the first three tools that ran.
Describe(change, ran) ==
  LET kinds == { k \in {"created", "modified", "deleted"} : change[k] # {} }
      named == FoldLeft(LAMBDA ts, t : IF t \in ToSet(ts) THEN ts ELSE Append(ts, t), <<>>, ran)
  IN  [kinds |-> kinds, tools |-> IF kinds # {} THEN <<>> ELSE SubSeq(named, 1, IF Len(named) < 3 THEN Len(named) ELSE 3)]

-----------------------------------------------------------------------------
(* The questions about tool calls, for TLC: every call of every tool with  *)
(* and without its arguments, commands with up to two processes, projects, *)
(* paths of pages, three looks at a console, and what a round changed.     *)

Ask(topic, f) == [topic |-> topic] @@ f

Plain == [args |-> {}, platform |-> FALSE, raises |-> FALSE, secret |-> FALSE, empty |-> FALSE, sees |-> FALSE, tainted |-> FALSE]
CallsOf(t) == { [Plain EXCEPT !.args = a, !.platform = p, !.raises = r, !.secret = s, !.empty = e, !.tainted = s] @@ [tool |-> t] :
                  a \in SUBSET Schemas[t], p, r, s, e \in BOOLEAN }

Process == [holds : BOOLEAN, own : BOOLEAN, lasts : BOOLEAN]
Commands == [launches : BOOLEAN, hangs : BOOLEAN, code : 0 .. 1, time : {0, Limit}, started : { ps \in SUBSET Process : Cardinality(ps) <= 2 }]

Script == {"none", "stub", "real"}
Projects == [pkg : {"none", "broken", "ok"}, test : Script, build : Script, py : BOOLEAN, cargo : BOOLEAN, go : {FALSE}, tsconfig : BOOLEAN, makefile : BOOLEAN]

\* The repository "r" lies under a folder of another name.
Sites == { <<"index.html">>, <<"page.html">>, <<"sub", "page.html">>, <<"r", "page.html">> }
Above == { <<"home">>, <<"home", "r">>, <<"C:", "r">> }

Says == { <<>>, <<[type |-> "error", of |-> "a"]>>, <<[type |-> "pageerror", of |-> "a"], [type |-> "warning", of |-> "a"]>> }
Looks == [how : {"navigate", "picture"}, url : {"a", "b"}, says : Says]
Look(s, l) == LET says == [i \in DOMAIN l.says |-> [l.says[i] EXCEPT !.of = l.url]]
              IN IF l.how = "navigate" THEN Navigated(s, l.url, says) ELSE Pictured(s, l.url, says)

\* What a repository may hold, before and after a round.
Places == << [dirs |-> <<>>, name |-> ".codexa-screenshot.png"], [dirs |-> <<>>, name |-> "a"],
             [dirs |-> <<"src">>, name |-> "a"], [dirs |-> <<"src", "node_modules">>, name |-> "m"] >>
Stat == {"absent", <<>>, <<1>>, <<2>>}
Held(stats) == SelectSeq([i \in DOMAIN Places |-> Places[i] @@ [stat |-> stats[i]]], LAMBDA f : f.stat # "absent")
Trees == { Held(<<a, b, c, d>>) : b, c \in Stat, a, d \in {"absent", <<1>>} }

\* By topic.
Questions == { { Ask("call", [call |-> c]) : c \in CallsOf(t) } : t \in DOMAIN Schemas } \cup {
  { Ask("command", [world |-> w]) : w \in Commands },
  { Ask("project", [repo |-> r]) : r \in Projects },
  { Ask("file", [files |-> fs, path |-> p \o s]) : fs \in SUBSET Sites, p \in Above, s \in Sites },
  { Ask("looks", [looks |-> <<a, b>>]) : a, b \in Looks },
  { Ask("round", [before |-> b, after |-> a, max |-> m, loaded |-> l, ran |-> r]) :
      b, a \in Trees, m \in {1, 2, 20}, l \in BOOLEAN, r \in {<<>>, <<"lint", "lint">>, <<"a", "b", "a", "c", "d">>} },
  { Ask("page", [text |-> t, console |-> c]) : t \in {-1, 0, 119, 120}, c \in Says } }

-----------------------------------------------------------------------------
\* A tool that some group offers, or a worker has, is answered by itself when it is
\* given what its schema requires, unless that is refused; only the tool itself
\* leaves anything in the context; and a worker can neither delegate nor leave its
\* repository (execute_tool; "no recursive delegation").
CallsReachTheirTools(c) ==
  LET offered == UNION { tool_groups[g] : g \in DOMAIN tool_groups } IN
  /\ offered \cup EXECUTOR_TOOLS \subseteq DOMAIN Schemas /\ offered \cap DISABLED_TOOLS = {}
  /\ DOMAIN Schemas = offered \cup DISABLED_TOOLS \cup Unlisted
  /\ EXECUTOR_TOOLS \cap {"delegate_task", "delegate_build", "create_project", "commit", "create_branch"} = {}
  /\ c.tool \in offered /\ Schemas[c.tool] \subseteq c.args =>
       AnsweredBy(c) = "tool" \/ c.raises \/ c.secret \/ c.platform
  /\ ~c.platform => AnsweredBy(c) # "refusal" \/ c.secret \/ c.tool \in DISABLED_TOOLS
  /\ Leaves(c) # {} => AnsweredBy(c) = "tool" /\ ~c.raises

\* A command holds its round for the limit and a drain at most, a code is one it ended
\* with, and when the shell itself hung, nothing of its session goes on.
CommandsEnd(w) ==
  LET a == RunCommand(w) IN
  /\ a.took <= Limit + Drain
  /\ a.code # <<>> <=> a.says = "output"
  /\ a.says = "killed" /\ w.hangs => \A p \in a.left : p.own

\* "process tree killed" (_run_command_structured) is said of a tree that is gone.
KilledIsDead(w) == RunCommand(w).says = "killed" => RunCommand(w).left = {}

\* A project's own scripts are used where it has them, a stub never; a dev server is
\* started or a page pointed to only where there is something to start or open.
ChecksAreTheProjects(r) ==
  /\ r.pkg = "ok" /\ r.test = "real" => TestCommand(r) = "npm test"
  /\ Language(r) = "python" => TestCommand(r) = "pytest"
  /\ TestCommand(r) = "npm test" \/ BuildCommand(r) = "npm build" => Language(r) = "javascript"
  /\ BuildCommand(r) = "none" => ~r.makefile /\ (r.pkg = "ok" => r.build # "real")
  /\ DevServer(r, {}, "") = "started" <=> r.pkg # "none"

\* A linter is of the project's language (_lint: "No linter config found.").
LintersFit(r) == LintCommand(r) = "eslint" => Language(r) = "javascript"

\* A page of the repository is found wherever the path before it comes from, unless a
\* folder on the way has the repository's name; another path leads into the repository
\* or stays as it is.
PagesAreFound(files, path) ==
  LET found == RepoFileUrl("r", files, path)
      under == { i \in 1 .. Len(path) - 1 : path[i] = "r" }
  IN  /\ found # <<>> => found \in files
      /\ <<"index.html">> \in files => found # <<>>
      /\ \A i \in under : SubSeq(path, i + 1, Len(path)) \in files => under # {i} \/ found = SubSeq(path, i + 1, Len(path))

\* What the console is said to be of a page is of that page, unless the session's page
\* said nothing and another was pictured since; no error is kept back.
ConsolesAreOfTheirPage(looks) ==
  LET s == Look(Look(NoConsole, looks[1]), looks[2]) IN
  \A level \in {"", "error", "warning"} :
    LET c == Console(s, level) IN
    /\ \A i \in DOMAIN c.says : c.says[i].of = c.of \/ (s.said = <<>> /\ s.url \notin {"none", s.lastUrl})
    /\ level # "warning" => { e \in ToSet(IF s.said # <<>> THEN s.said ELSE s.last) : e.type \in {"error", "pageerror"} } \subseteq ToSet(c.says)

\* A page that shows nothing is called blank and one that was not measured is not, and
\* every error is told.
PagesAreJudged(text, console) ==
  LET r == PageReport(text, console) IN
  /\ r.blank <=> text \in 0 .. 119
  /\ { e \in ToSet(console) : e.type # "warning" } = ToSet(r.errors)

\* What a round is said to have changed is a change of its work: no picture the agent
\* took and no package it installed counts, and below the limit of the walk nothing
\* that was written, edited or deleted is missed; a round is described by its changes
\* or, when there are none, by its tools (progress.py: "A model can describe a file it
\* did not write; it cannot make st_size change by describing it").
RoundsAreMeasured(before, after, max, loaded, ran) ==
  LET Work(repo) == { f \in ToSet(repo) : Counts(f) }
      change == Compare(Snapshot(before, loaded, max), Snapshot(after, loaded, max))
      told   == change.created \cup change.modified \cup change.deleted
      shown  == Describe(change, ran)
  IN  /\ told # {} => Work(before) # Work(after)
      /\ \A p \in told : p[2] # ".codexa-screenshot.png" /\ "node_modules" \notin ToSet(p[1])
      /\ loaded /\ Len(before) <= max /\ Len(after) <= max =>
           \A p \in PathsOf(ToSet(before) \cup ToSet(after)) :
             LET At(repo) == { f.stat : f \in { g \in Work(repo) : <<g.dirs, g.name>> = p } } IN
             /\ p \in change.created  <=> At(before) = {} /\ At(after) # {}
             /\ p \in change.deleted  <=> At(before) # {} /\ At(after) = {}
             /\ p \in change.modified <=> At(before) # At(after) /\ {} \notin {At(before), At(after)}
      /\ shown.kinds = {} <=> told = {}
      /\ shown.tools # <<>> <=> told = {} /\ ran # <<>>

Holds(q) ==
  CASE q.topic = "call"    -> CallsReachTheirTools(q.call)
    [] q.topic = "command" -> CommandsEnd(q.world)
    [] q.topic = "project" -> ChecksAreTheProjects(q.repo)
    [] q.topic = "file"    -> PagesAreFound(q.files, q.path)
    [] q.topic = "looks"   -> ConsolesAreOfTheirPage(q.looks)
    [] q.topic = "round"   -> RoundsAreMeasured(q.before, q.after, q.max, q.loaded, q.ran)
    [] q.topic = "page"    -> PagesAreJudged(q.text, q.console)
=============================================================================
