----------------------------- MODULE ToolCalls -----------------------------
(***************************************************************************)
(* The tool calls of a job's rounds: the loop over a round's calls         *)
(* (backend/agents/jobs.py, _loop), its receipts (receipts.py), the tools  *)
(* that change files (tools.py, execute_tool) and the file operations      *)
(* below them (files/api.py), beside a person who saves the same file in   *)
(* the editor, and with crashes that take the job back to its checkpoint.  *)
(*                                                                         *)
(* A file's content is one of Contents, told apart by what the guards look *)
(* at: Large ones hold real work, Tiny ones are a twentieth of it or less, *)
(* Broken ones do not parse as JavaScript, Stale ones start with the       *)
(* compaction mark.  A call is a record with its tool, its path and what   *)
(* else that tool takes; the job's repository is not among its arguments.  *)
(***************************************************************************)
EXTENDS Naturals, Sequences, FiniteSets, SequencesExt

CONSTANTS
  Calls,                       \* the calls the model may make
  Paths, Contents, Absent,     \* Absent: there is no such file
  Large, Tiny, Broken, Stale,  \* subsets of Contents
  Linted,                      \* the paths that hold JavaScript
  Platform, Project,           \* Codexa's own source, and the one other repository
  Initial,                     \* what Project's files may be at the start
  Typed,                       \* what the person in the editor types
  MaxRounds, RoundCalls, MaxSaves, MaxCrashes   \* bounds; RoundCalls is the first
                               \* round's, each later one has one call less

NewFile == [tool : {"new"}, path : Paths, content : Contents]
Hunk    == [tool : {"hunk"}, path : Paths, from : Contents, to : Contents]

\* What the model may ask of a tool, as its parameters have it
IsCall(c) ==
  \/ c \in [tool : {"write_file", "run_command"}, path : Paths, content : Contents]
  \/ c \in [tool : {"edit_file"}, path : Paths, from : Contents, to : Contents]
  \/ c \in [tool : {"delete_file"}, path : Paths]
  \/ c \in [tool : {"move_file"}, path : Paths, to : Paths]
  \/ c \in [tool : {"create_files"}, parts : Seq(NewFile) \ {<<>>}]
  \/ c \in [tool : {"apply_patch"}, parts : Seq(Hunk) \ {<<>>}]
  \/ c = [tool |-> "create_project"]

ASSUME ToolAssumption ==
  /\ \A c \in Calls : IsCall(c)
  /\ Absent \notin Contents
  /\ Large \cup Tiny \cup Broken \cup Stale \subseteq Contents
  /\ Large \cap Tiny = {} /\ Linted \subseteq Paths
  /\ Platform # Project /\ Initial \subseteq [Paths -> Contents \cup {Absent}]
  /\ Typed \subseteq Contents
  /\ MaxRounds \in Nat /\ RoundCalls \in Nat /\ MaxSaves \in Nat /\ MaxCrashes \in Nat

VARIABLES
  files,       \* repository -> path -> content or Absent
  exists,      \* Project's folder is there
  job,         \* [repo, receipts, round]: what a checkpoint saves
  disk,        \* the job's last checkpoint
  todo,        \* the calls of this round still to run, the running one first
  step,        \* where the running call is; "model" between rounds
  at,          \* the part of a call with several files it has come to
  previous,    \* the content captured before the write
  answer,      \* the last call's result
  saves, saver,   \* saves begun in the editor; the one past its check, if any
  crashes,
  before, touched,   \* ghosts: the files at the call's start; paths saved since
  times, lost, ran,  \* ghosts: receipted runs of a call, those a crash undid the
                     \* record of, and the ones of this round
  worked             \* ghost: the calls that have succeeded at least once

vars == <<files, exists, job, disk, todo, step, at, previous, answer,
          saves, saver, crashes, before, touched, times, lost, ran, worked>>

GRAPH_DIRTYING_TOOLS == {"write_file", "edit_file", "delete_file", "move_file", "create_files", "apply_patch"}
MUTATING_TOOLS == GRAPH_DIRTYING_TOOLS \cup {"run_command"}

MaybeContents == Contents \cup {Absent}
Steps == {"model", "next", "guard", "capture", "match", "write", "lint", "revert", "answered"}
Answers == {"none", "skipped", "refused", "failed", "done", "broken", "reverted"}
NoSave == [path |-> Absent, content |-> Absent]

Call == Head(todo)
File(p) == files[job.repo][p]

\* A call on several files is worked off part by part.
HasParts == Call.tool \in {"create_files", "apply_patch"}
Part == IF HasParts THEN Call.parts[at] ELSE Call
IsLast == ~HasParts \/ at = Len(Call.parts)

Files == [{Platform, Project} -> [Paths -> MaybeContents]]
Job   == [repo : {Platform, Project}, receipts : Seq(Calls), round : 0 .. MaxRounds]

TypeOK ==
  /\ files \in Files /\ exists \in BOOLEAN
  /\ job \in Job /\ disk \in Job
  /\ todo \in Seq(Calls) /\ Len(todo) <= RoundCalls
  /\ step \in Steps /\ answer \in Answers /\ at \in Nat \ {0}
  /\ previous \in MaybeContents
  /\ saves \in 0 .. MaxSaves /\ crashes \in 0 .. MaxCrashes
  /\ saver \in [path : Paths, content : Typed] \cup {NoSave}
  /\ before \in Files /\ touched \subseteq Paths
  /\ times \in [Calls -> Nat] /\ lost \in [Calls -> Nat]
  /\ ran \subseteq Calls /\ worked \subseteq Calls

Init ==
  /\ exists \in BOOLEAN
  /\ \E f \in Initial :
       files = [r \in {Platform, Project} |->
                  IF r = Project /\ exists THEN f ELSE [p \in Paths |-> Absent]]
  /\ job = [repo |-> IF exists THEN Project ELSE Platform, receipts |-> <<>>, round |-> 0]
  /\ disk = job
  /\ todo = <<>> /\ step = "model" /\ at = 1
  /\ previous = Absent /\ answer = "none"
  /\ saves = 0 /\ saver = NoSave /\ crashes = 0
  /\ before = files /\ touched = {}
  /\ times = [c \in Calls |-> 0] /\ lost = times /\ ran = {} /\ worked = {}

callVars == <<at, previous>>
ghosts   == <<before, touched, times, lost, ran, worked>>
human    == <<saves, saver, crashes>>

-----------------------------------------------------------------------------
(* The guards (tools.py).                                                  *)

\* Wrong: compares the replacement with itself
DestroysNothing(old, new) == new \in Large /\ new \in Tiny

\* _reject_if_destroys_existing_work
Destroys(old, new) == old \in Large /\ new \in Tiny

\* _lint_javascript_regressions: only an error the write introduced counts, and
\* none does where node is missing or too slow.
Introduces(old, new, p) == p \in Linted /\ new \in Broken /\ old \notin Broken

-----------------------------------------------------------------------------
(* One call.                                                               *)

Goto(s) == step' = s
Say(a) == Goto("answered") /\ answer' = a

Put(p, c) == files' = [files EXCEPT ![job.repo][p] = c]

\* The next round: the model's reply holds some calls.
StartRound ==
  /\ step = "model" /\ job.round < MaxRounds
  /\ \E n \in 1 .. (RoundCalls - job.round) : todo' \in [1 .. n -> Calls]
  /\ job' = [job EXCEPT !.round = @ + 1]
  /\ ran' = {}
  /\ Goto("next")
  /\ UNCHANGED <<files, exists, disk, callVars, answer, human, before, touched, times, lost, worked>>

AlreadyPerformed(c) == c.tool \in GRAPH_DIRTYING_TOOLS /\ c \in ToSet(job.receipts)

\* The head of the loop's body and of execute_tool: a call with a receipt is
\* answered without running, and on Codexa's own source nothing is changed.
Begin ==
  /\ step = "next" /\ todo # <<>>
  /\ before' = files /\ touched' = {}
  /\ IF AlreadyPerformed(Call) THEN Say("skipped")
     ELSE IF Call.tool \in MUTATING_TOOLS /\ job.repo = Platform THEN Say("refused")
     ELSE Goto("guard") /\ UNCHANGED answer
  /\ UNCHANGED <<files, exists, job, disk, todo, callVars, human, times, lost, ran, worked>>

Quiet == UNCHANGED <<exists, job, disk, todo, human, ghosts>>

\* What a tool that is done with this file or hunk does next: a call on several
\* goes on to the next one and reports at the end, whatever became of each.
Done(a) ==
  IF IsLast THEN Say(IF Call = Part THEN a ELSE "done") /\ UNCHANGED at
            ELSE Goto("guard") /\ at' = at + 1 /\ UNCHANGED answer

\* write_file: the guards on the new content and on the size of the old one.
\* create_files has the first alone.
GuardWrite ==
  /\ step = "guard" /\ Call.tool \in {"write_file", "create_files"}
  /\ IF Part.content \in Stale \/ (Call.tool = "write_file" /\ Destroys(File(Part.path), Part.content))
     THEN Done("refused")
     ELSE Goto(IF Call.tool = "write_file" THEN "capture" ELSE "write") /\ UNCHANGED <<at, answer>>
  /\ UNCHANGED <<files, previous>> /\ Quiet

GuardEdit ==
  /\ step = "guard" /\ Call.tool \in {"edit_file", "apply_patch"}
  /\ IF Call.tool = "edit_file" /\ Part.to \in Stale
     THEN Done("refused")
     ELSE Goto(IF Call.tool = "edit_file" THEN "capture" ELSE "match") /\ UNCHANGED <<at, answer>>
  /\ UNCHANGED <<files, previous>> /\ Quiet

\* The only moment a revert target is available.
Capture ==
  /\ step = "capture"
  /\ previous' = File(Call.path)
  /\ Goto(IF Call.tool = "write_file" THEN "write" ELSE "match")
  /\ UNCHANGED <<files, at, answer>> /\ Quiet

\* edit_file reads the file: the old text must be there, once.
Match ==
  /\ step = "match"
  /\ IF File(Part.path) = Part.from THEN Goto("write") /\ UNCHANGED <<at, answer>>
                                    ELSE Done("failed")
  /\ UNCHANGED <<files, previous>> /\ Quiet

\* ... and the write, in either tool; the calls on several files are not linted.
WriteOut ==
  /\ step = "write"
  /\ Put(Part.path, IF Part.tool \in {"edit_file", "hunk"} THEN Part.to ELSE Part.content)
  /\ IF Call = Part THEN Goto("lint") /\ UNCHANGED <<at, answer>> ELSE Done("done")
  /\ UNCHANGED previous /\ Quiet

\* write_file lints what it was given, edit_file what it reads back.
After == IF Call.tool = "write_file" THEN Call.content ELSE File(Call.path)

Lint ==
  /\ step = "lint"
  /\ \/ Introduces(previous, After, Call.path)
        /\ IF previous = Absent THEN Say("broken") ELSE Goto("revert") /\ UNCHANGED answer
     \/ Say("done")
  /\ UNCHANGED <<files, callVars>> /\ Quiet

\* Wrong: the answer says reverted, the file is left as written
LeftAsWritten(p) == File(p)

RevertTarget(p) == previous

Revert ==
  /\ step = "revert"
  /\ Put(Call.path, RevertTarget(Call.path))
  /\ Say("reverted")
  /\ UNCHANGED callVars /\ Quiet

DeleteFile ==
  /\ step = "guard" /\ Call.tool = "delete_file"
  /\ IF File(Call.path) = Absent THEN Say("failed") /\ UNCHANGED files
                                 ELSE Put(Call.path, Absent) /\ Say("done")
  /\ UNCHANGED callVars /\ Quiet

\* Path.rename replaces a file that is there, or raises, as the platform has it.
MoveFile ==
  /\ step = "guard" /\ Call.tool = "move_file"
  /\ \/ /\ File(Call.path) # Absent
        /\ files' = [files EXCEPT ![job.repo] = [@ EXCEPT ![Call.path] = Absent, ![Call.to] = File(Call.path)]]
        /\ Say("done")
     \/ /\ File(Call.path) = Absent \/ File(Call.to) # Absent
        /\ Say("failed") /\ UNCHANGED files
  /\ UNCHANGED callVars /\ Quiet

\* A shell command may change a file too; it never gets a receipt.
RunCommand ==
  /\ step = "guard" /\ Call.tool = "run_command"
  /\ Put(Call.path, Call.content) /\ Say("done")
  /\ UNCHANGED callVars /\ Quiet

\* create_project makes a folder of its own and the job goes on in it.
CreateProject ==
  /\ step = "guard" /\ Call.tool = "create_project"
  /\ IF exists THEN Say("refused") /\ UNCHANGED <<exists, job>>
     ELSE exists' = TRUE /\ job' = [job EXCEPT !.repo = Project] /\ Say("done")
  /\ files' = [files EXCEPT ![Project] = IF exists THEN @ ELSE [p \in Paths |-> Absent]]
  /\ before' = files' /\ touched' = {}
  /\ UNCHANGED <<disk, todo, callVars, human, times, lost, ran, worked>>

\* Only the text of an exception counts as a failure.
EarnsReceipt(c, a) == c.tool \in GRAPH_DIRTYING_TOOLS /\ a \notin {"skipped", "failed"}

\* The end of the loop's body: the receipt.
Receipt ==
  /\ step = "answered"
  /\ IF EarnsReceipt(Call, answer)
     THEN /\ job' = [job EXCEPT !.receipts = Append(@, Call)]
          /\ times' = [times EXCEPT ![Call] = @ + 1] /\ ran' = ran \cup {Call}
     ELSE UNCHANGED <<job, times, ran>>
  /\ worked' = IF answer \in {"done", "broken"} THEN worked \cup {Call} ELSE worked
  /\ todo' = Tail(todo) /\ Goto("next")
  /\ at' = 1 /\ previous' = Absent /\ answer' = "none"
  /\ before' = files /\ touched' = {}
  /\ UNCHANGED <<files, exists, disk, human, lost>>

\* Wrong: the file keeps the receipts of the checkpoint before
SavedWithOldReceipts(j) == [j EXCEPT !.receipts = disk.receipts]

Saved(j) == j

\* The round's one checkpoint, when the last call is answered.
EndRound ==
  /\ step = "next" /\ todo = <<>>
  /\ disk' = Saved(job) /\ ran' = {}
  /\ Goto("model")
  /\ UNCHANGED <<files, exists, job, todo, callVars, answer, human, before, touched, times, lost, worked>>

\* The process dies; resume() enters the loop at the round after the checkpoint's.
CrashAndRestart ==
  /\ crashes < MaxCrashes /\ crashes' = crashes + 1
  /\ job' = disk /\ todo' = <<>> /\ step' = "model" /\ answer' = "none"
  /\ at' = 1 /\ previous' = Absent
  /\ saver' = NoSave
  /\ lost' = [c \in Calls |-> IF c \in ran THEN lost[c] + 1 ELSE lost[c]] /\ ran' = {}
  /\ UNCHANGED <<files, exists, disk, saves, before, touched, times, worked>>

-----------------------------------------------------------------------------
(* The editor's save: the file must be as it was opened; the write is a    *)
(* step of its own.  Saving over a conflict needs the person's consent.    *)

SaveChecks ==
  /\ saves < MaxSaves /\ saves' = saves + 1 /\ exists
  /\ \E p \in Paths, c \in Typed : saver' = [path |-> p, content |-> c]
  /\ UNCHANGED <<files, exists, job, disk, todo, step, callVars, answer, crashes, ghosts>>

SaveWrites ==
  /\ saver # NoSave
  /\ files' = [files EXCEPT ![Project][saver.path] = saver.content]
  /\ touched' = touched \cup {saver.path}
  /\ saver' = NoSave
  /\ UNCHANGED <<exists, job, disk, todo, step, callVars, answer, saves, crashes, before, times, lost, ran, worked>>

Next ==
  \/ StartRound \/ Begin \/ GuardWrite \/ GuardEdit \/ Capture \/ Match \/ WriteOut
  \/ Lint \/ Revert \/ DeleteFile \/ MoveFile \/ RunCommand \/ CreateProject
  \/ Receipt \/ EndRound \/ CrashAndRestart \/ SaveChecks \/ SaveWrites

Spec == Init /\ [][Next]_vars

-----------------------------------------------------------------------------
(* Properties.                                                             *)

PathsOf(c) ==
  IF c.tool = "create_project" THEN {}
  ELSE IF c.tool \in {"create_files", "apply_patch"} THEN { c.parts[i].path : i \in DOMAIN c.parts }
  ELSE IF c.tool = "move_file" THEN {c.path, c.to} ELSE {c.path}

Same(c) == \A p \in PathsOf(c) : File(p) = before[job.repo][p]

\* What the model is told is what happened: a call that says it was skipped,
\* refused, reverted ("unchanged from before this call") or failed left its files
\* as they were, and one that says it wrote, edited, deleted or moved did; unless
\* the editor saved one of them meanwhile (execute_tool).
AnswersAreTrue ==
  step = "answered" /\ PathsOf(Call) \cap touched = {} =>
    /\ answer \in {"skipped", "refused", "failed", "reverted"} => Same(Call)
    /\ answer \in {"done", "broken"} =>
         CASE Call.tool = "write_file"  -> File(Call.path) = Call.content
           [] Call.tool = "edit_file"   -> before[job.repo][Call.path] = Call.from /\ File(Call.path) = Call.to
           [] Call.tool = "delete_file" -> File(Call.path) = Absent
           [] Call.tool = "move_file"   -> /\ File(Call.to) = before[job.repo][Call.path]
                                          /\ Call.to # Call.path => File(Call.path) = Absent
           [] OTHER                     -> TRUE

\* The receipts make a change once: it is made again only when a crash took the
\* round it was made in back, and never once a checkpoint has it (already_performed,
\* the checkpoint at the end of a round, resume).
OnlyALostRoundIsRepeated == \A c \in Calls : times[c] <= 1 + lost[c]

\* A whole-file write never leaves a stub where there was real work, at any of its
\* steps, unless the editor saved the file while the call ran (the "PLACEHOLDER"
\* incident, _reject_if_destroys_existing_work).
WholeFileWritesKeepWork ==
  step \notin {"model", "next"} /\ Call.tool = "write_file" =>
    \A p \in Paths \ touched :
      before[job.repo][p] \in Large => File(p) \notin Tiny

\* "Only successful calls are ever recorded", so a call that is skipped as already
\* made has succeeded before (the comment above already_performed in _loop).
SkippedWasDone == step = "answered" /\ answer = "skipped" => Call \in worked

=============================================================================
