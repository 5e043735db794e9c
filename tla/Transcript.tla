----------------------------- MODULE Transcript -----------------------------
(***************************************************************************)
(* What a job's model is shown, round after round (backend/agents/jobs.py  *)
(* and controller.py): the messages a round adds, the blocks the platform  *)
(* keeps replacing at the end, the payloads it shortens once they are      *)
(* stale, the tool it forces, and what the telemetry counts                *)
(* (round_telemetry.py).                                                   *)
(*                                                                         *)
(* A message is [kind, round, calls, big, short]: what it is, the round    *)
(* that added it, its calls (a result has the one it answers), whether its *)
(* own payload is bulky, and which of its payloads were shortened.  A call *)
(* is [tool, path, big].  The list of messages and that of their rounds,   *)
(* which the code edits in lockstep, are one sequence.                     *)
(***************************************************************************)
EXTENDS Integers, TaskGates

StaleAfter  == 3        \* _STALE_AFTER_ROUNDS
Grace       == 3        \* GRACE_MULTIPLIER_IN_RADIUS
RepeatLimit == 4        \* _REPEAT_TOOL_CALL_THRESHOLD
BeforeStart == -100     \* the round of what a job starts with

Message(kind, round) == [kind |-> kind, round |-> round, calls |-> <<>>, big |-> FALSE, short |-> {}]

-----------------------------------------------------------------------------
(* The first message.  Its shape is "text", "blocks" (a list with a text   *)
(* block in it), "images" (a list without one) or "other"; parts is what   *)
(* its text is made of.                                                    *)

\* _attach_preamble: the shape decides where the task prompt and the brief go.
AttachPreamble(first, preamble) ==
  CASE preamble = <<>> -> first
    [] preamble # <<>> /\ first # <<>> /\ first[1].shape \in {"text", "blocks"} ->
         IF "design" \in ToSet(first[1].parts) THEN first
         ELSE [first EXCEPT ![1].parts = @ \o preamble]
    [] preamble # <<>> /\ first # <<>> /\ first[1].shape = "images" -> [first EXCEPT ![1].parts = preamble, ![1].shape = "blocks"]
    [] OTHER -> <<[shape |-> "text", parts |-> preamble]>> \o first

-----------------------------------------------------------------------------
(* Compaction (_compact_stale_payloads).                                   *)

Writing == {"write_file", "edit_file"}
Touching == Writing \cup {"read_file"}

\* _latest_touched_path: the first file call of the last message that has one.
LatestTouched(log) ==
  LET paths(m) == SelectSeq(m.calls, LAMBDA c : c.tool \in Touching)
      touching == SelectSeq(log, LAMBDA m : m.kind = "calls" /\ paths(m) # <<>>)
  IN  IF touching = <<>> THEN <<>> ELSE <<paths(Last(touching))[1].path>>

\* What the current task fetched is pinned, when the loop knows when the task began.
Pinned(m, starts) ==
  /\ m.kind = "result" /\ m.calls[1].tool = "get_design_guidance"
  /\ starts # <<>> /\ \A t \in DOMAIN starts : m.round >= starts[t]

\* How long a payload is kept; near maps a path to the paths in its radius.
Keeps(m, i, log, near) ==
  LET touched == LatestTouched(log) IN
  IF m.kind = "calls" /\ touched # <<>> /\ m.calls[i].path \in near[touched[1]] THEN StaleAfter * Grace ELSE StaleAfter

\* The payloads that may go: of a call, of an answer in prose, of an image, and of
\* the guidance for a design.
Bulky(m) ==
  IF m.kind = "calls" THEN { i \in DOMAIN m.calls : m.calls[i].tool \in Writing /\ m.calls[i].big }
  ELSE IF m.big /\ m.kind \in {"answer", "shot", "result"} THEN {1} ELSE {}

Stale(m, log, round, near) == { i \in Bulky(m) : round - m.round >= Keeps(m, i, log, near) }

\* Wrong: what the current task loaded is shortened like the rest.
CompactAll(log, round, near, starts) ==
  [j \in DOMAIN log |-> [log[j] EXCEPT !.short = @ \cup Stale(log[j], log, round, near)]]

Compact(log, round, near, starts) ==
  [j \in DOMAIN log |-> IF Pinned(log[j], starts) THEN log[j]
                        ELSE [log[j] EXCEPT !.short = @ \cup Stale(log[j], log, round, near)]]

-----------------------------------------------------------------------------
(* The blocks at the end.                                                  *)

Without(log, kind) == SelectSeq(log, LAMBDA m : m.kind # kind)

\* apply_task_context, _replace_directive: one block, the last.
Renewed(log, kind, round) == Append(Without(log, kind), Message(kind, round))

\* What the block of state tells of a plan (task_context_block): the tasks done last,
\* the current one with its last notes and its failed check, and the names of a few
\* to come; and of a commitment whatever is decided once for all tasks.
LastFew(s, n)  == SubSeq(s, IF Len(s) > n THEN Len(s) - n + 1 ELSE 1, Len(s))
FirstFew(s, n) == SubSeq(s, 1, IF Len(s) < n THEN Len(s) ELSE n)

StateBlock(tasks, at, design, hidden) ==
  LET which(statuses) == SelectSeq([i \in DOMAIN tasks |-> i], LAMBDA i : tasks[i].status \in statuses)
      later == SelectSeq(which({"PENDING", "IN_PROGRESS", "BLOCKED"}), LAMBDA i : i # at)
  IN  [done   |-> LastFew(which({"COMPLETED"}), 4),
       task   |-> [tasks[at] EXCEPT !.notes = LastFew(@, 6)],
       later  |-> IF hidden THEN <<>> ELSE FirstFew(later, 6),
       design |-> [k \in DOMAIN design \cap {"palette", "typography", "motion", "rejected"} |-> design[k]]]

\* _execution_directive: what the job is committed to, and one action.
Directive(commitment, forced) ==
  [told   |-> IF commitment = <<>> THEN <<>> ELSE <<[commitment[1] EXCEPT !.decisions = FirstFew(@, 8)]>>,
   action |-> IF forced = "none" THEN "implement" ELSE forced]

\* _recent_non_context_messages, the last one.
LastSaid(log) == LET said == Without(log, "state") IN IF said = <<>> THEN "nothing" ELSE Last(said).kind

Nudged(log, round) == IF LastSaid(log) = "nudge" THEN log ELSE Append(log, Message("nudge", round))

\* The top of a round: shorten, begin the task, tell it, intervene.
TopOfRound(s, task, intervenes, near) ==
  LET round  == s.round + 1
      starts == IF task \in s.begun \/ task \in DOMAIN s.starts THEN s.starts
                ELSE [t \in DOMAIN s.starts \cup {task} |-> IF t = task THEN round ELSE s.starts[t]]
      told   == Renewed(Compact(s.log, round, near, s.starts), "state", round)
  IN  [s EXCEPT !.round = round, !.begun = @ \cup {task}, !.starts = starts,
                !.log = IF intervenes THEN Append(told, Message("intervention", round)) ELSE told]

-----------------------------------------------------------------------------
(* What the model's answer adds.                                           *)

\* A tool's result and, for a screenshot, the image right behind it.
Result(c, round) ==
  LET told == [Message("result", round) EXCEPT !.calls = <<c>>, !.big = c.tool = "get_design_guidance"]
  IN  IF c.tool = "screenshot" THEN <<told, [Message("shot", round) EXCEPT !.big = TRUE]>> ELSE <<told>>

\* The streak of identical calls after each call of a round.
Streaks(s, calls) ==
  FoldLeft(LAMBDA acc, c :
             LET n == IF acc.last = <<c.tool, c.path>> THEN acc.streak + 1 ELSE 1
             IN  [last |-> <<c.tool, c.path>>, streak |-> n, hit |-> acc.hit \/ n = RepeatLimit],
           [last |-> s.last, streak |-> s.streak, hit |-> FALSE], calls)

Called(s, calls) ==
  LET r       == s.round
      streaks == Streaks(s, calls)
      asked   == [Message("calls", r) EXCEPT !.calls = calls]
      results == FoldLeft(LAMBDA acc, c : acc \o Result(c, r), <<>>, calls)
  IN  [s EXCEPT !.last = streaks.last, !.streak = streaks.streak,
                !.log = (Append(@, asked) \o results)
                        \o IF streaks.hit THEN <<Message("repeated", r)>> ELSE <<>>]

\* A stall leaves the text that arrived, if any, and the nudge.
Stalled(s, text) ==
  [s EXCEPT !.log = Nudged(IF text = "none" THEN @
                           ELSE Append(@, [Message("answer", s.round) EXCEPT !.big = text = "long"]), s.round)]

\* The loop was left and entered again: it no longer knows when the tasks began.
Reentered(s) == [s EXCEPT !.starts = <<>>]

Answered(s, does) ==
  CASE does.what = "cut"   -> [s EXCEPT !.log = Renewed(@, "directive", s.round)]
    [] does.what = "stall" -> Stalled(s, does.text)
    [] does.what = "calls" -> Called(s, does.calls)
    [] does.what = "claim" -> [s EXCEPT !.log = Append(@, Message("correction", s.round))]

-----------------------------------------------------------------------------
(* The tool that is forced.  A task is [required, artifacts, called, lacks, *)
(* partial]: required in order, and what the controller finds of its       *)
(* artifacts: whether one is missing or unusable, and whether one is       *)
(* there with real content.                                                *)

ReadOnly == {"list_directory", "tree", "git_status", "get_project_metadata", "detect_conventions",
             "get_design_guidance", "search_code"}

FirstOf(s) == IF s = <<>> THEN "none" ELSE s[1]

\* Wrong: a listing that already answered is asked for again.
ForcedAgain(t, available) == FirstOf(SelectSeq(t.required, LAMBDA n : n \in available))

\* forced_tool_for
ForcedTool(t, available) ==
  LET uncalled  == SelectSeq(t.required, LAMBDA n : n \notin t.called /\ n \in available)
      remaining == SelectSeq(t.required, LAMBDA n : n \in available /\ n \notin t.called \cap ReadOnly)
      writing   == SelectSeq(<<"write_file", "edit_file">>, LAMBDA n : n \in available)
  IN  IF uncalled # <<>> THEN uncalled[1]
      ELSE IF t.artifacts /\ t.lacks /\ t.partial /\ "edit_file" \in available THEN "edit_file"
      ELSE IF t.artifacts /\ t.lacks /\ "write_file" \in available THEN "write_file"
      ELSE IF remaining # <<>> THEN remaining[1]
      ELSE IF t.artifacts THEN FirstOf(writing) ELSE "none"

\* The cut handler: decide first, then plan the artifact, then act.  planned says
\* that the structure committed last was this task's.
AfterCut(t, committed, planned, available) ==
  IF "commit_direction" \in available /\ (~committed \/ (t.artifacts /\ ~planned)) THEN "commit_direction"
  ELSE ForcedTool(t, available)

\* stream_round: what the request demands, for one round.
ToolChoice(forced, any, contract, called, available) ==
  LET outstanding == SelectSeq(contract, LAMBDA n : n \notin called /\ n \in available)
  IN  IF forced \in available THEN forced
      ELSE IF forced = "none" /\ ~any THEN "auto"
      ELSE IF outstanding # <<>> THEN outstanding[1] ELSE "required"

-----------------------------------------------------------------------------
(* What the telemetry makes of a request (split_context).                  *)

Unknown == -1           \* no task, or not known when it began

Weight(m) == 1 + 9 * Cardinality(Bulky(m) \ m.short)

\* Wrong: what a job started with is an earlier task's.
BeforeTask(m, started) == m.round < started

OfEarlierTask(m, started) == 0 <= m.round /\ m.round < started

Bucket(m) ==
  CASE m.kind = "state"             -> "task_context"
    [] m.kind = "directive"         -> "directive"
    [] m.kind = "result"            -> "tool"
    [] m.kind \in {"answer", "calls"} -> "assistant"
    [] OTHER                        -> "user"

Weighed(log) == FoldLeft(LAMBDA n, m : n + Weight(m), 0, log)

\* The system message is split at the marks: the brief is what follows its mark, the
\* task prompt what follows its own before that.
PartsFrom(parts, mark) ==
  IF mark \notin ToSet(parts) THEN <<>> ELSE SubSeq(parts, CHOOSE i \in DOMAIN parts : parts[i] = mark /\ mark \notin ToSet(SubSeq(parts, 1, i - 1)), Len(parts))
SystemSplit(parts) ==
  LET brief == PartsFrom(parts, "design")
      rest  == SubSeq(parts, 1, Len(parts) - Len(brief))
      task  == PartsFrom(rest, "task")
  IN  [design_brief |-> Len(brief), task_prompt |-> Len(task), system_base |-> Len(rest) - Len(task)]

SplitContext(parts, log, started) ==
  LET in(b)   == SelectSeq(log, LAMBDA m : Bucket(m) = b)
      history == SelectSeq(log, LAMBDA m : Bucket(m) \in {"assistant", "tool", "user"})
      prior   == SelectSeq(history, LAMBDA m : OfEarlierTask(m, started))
  IN  [system |-> SystemSplit(parts),
       buckets |-> [b \in {"task_context", "directive", "tool", "assistant", "user"} |-> Weighed(in(b))],
       prior |-> Weighed(prior),
       current |-> IF started = Unknown THEN 0 ELSE Weighed(history) - Weighed(prior),
       total |-> Weighed(log) + Len(parts)]

=============================================================================
