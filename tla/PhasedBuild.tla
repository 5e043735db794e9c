----------------------------- MODULE PhasedBuild -----------------------------
(***************************************************************************)
(* A phased build (backend/agents/phased_build.py): one thread runs the    *)
(* phases of a large spec in order, each as a job of its own, and polls    *)
(* for its end; a request may cancel the build, and a restart resumes it   *)
(* from its file.  What a job does meanwhile is JobLife, the contract that *)
(* JobManager keeps.                                                       *)
(*                                                                         *)
(* The build object is shared by the thread and the request without a      *)
(* lock, and both write its file: a checkpoint takes a snapshot first and  *)
(* puts it in place later.                                                 *)
(***************************************************************************)
EXTENDS Naturals, FiniteSets, JobLife

CONSTANTS
  NPhases,          \* phases of the decomposition
  MaxRecoveries,    \* bound: automatic continuations of all jobs (Terminates bounds them)
  MaxClicks,        \* bound: cancels of the build and requests for its jobs together
  MaxCrashes, MaxLost

ASSUME PhasedAssumption ==
  /\ NPhases \in Nat \ {0}
  /\ \A bound \in {MaxRecoveries, MaxClicks, MaxCrashes, MaxLost} : bound \in Nat

Phases == 1 .. NPhases

VARIABLES
  build,      \* the PhasedBuild in memory, or what get() reads when it is not there
  known,      \* whether it is in PhasedBuildManager._builds
  file,       \* its checkpoint
  runner,     \* the thread in _run_phases
  canceller,  \* the request in cancel()
  jobs,       \* each phase's job, as JobLife sees it
  begun,      \* history: jobs started for each phase
  outcome,    \* history: how the phase's job ended
  spent       \* the bounds: how often each of the counted things happened

vars == <<build, known, file, runner, canceller, jobs, begun, outcome, spent>>

PhaseStatus == {"pending", "running", "done", "error", "cancelled"}
BuildStatus == {"planning", "running", "done", "error", "cancelled"}
Unfinished  == {"planning", "running"}
Outcome     == {"open", "stopped", "finished"}

Build == [ phases    : [Phases -> [status : PhaseStatus, job : BOOLEAN]],
           current   : 0 .. NPhases,             \* 0: none yet
           status    : BuildStatus,
           cancelled : BOOLEAN ]

Counted == {"recoveries", "requests", "cancels", "crashes", "lost"}

NewBuild ==
  [ phases    |-> [p \in Phases |-> [status |-> "pending", job |-> FALSE]],
    current   |-> 0,
    status    |-> "planning",
    cancelled |-> FALSE ]

AtFirstPhase == [pc |-> "top", phase |-> 1, next |-> "idle", snapshot |-> NewBuild]
NoThread     == [AtFirstPhase EXCEPT !.pc = "idle"]
NoCanceller  == [pc |-> "idle", snapshot |-> NewBuild, reached |-> 0]

Thread ==
  [ pc       : {"idle", "top", "select", "snapshot", "write", "job", "start", "poll", "ended"},
    next     : {"idle", "top", "job", "start"},
    phase    : 1 .. NPhases + 1,
    snapshot : Build ]

Request == [ pc       : {"idle", "job", "status", "write"},
             snapshot : Build,
             reached  : 0 .. NPhases ]

TypeOK ==
  /\ build \in Build /\ file \in Build /\ known \in BOOLEAN
  /\ runner \in Thread /\ canceller \in Request
  /\ jobs \in [Phases -> Job]
  /\ begun \in [Phases -> Nat] /\ outcome \in [Phases -> Outcome]
  /\ spent \in [Counted -> Nat]

\* start(): the build is registered and checkpointed, the thread begins.
Init ==
  /\ build = NewBuild /\ known = TRUE /\ file = NewBuild
  /\ runner = AtFirstPhase /\ canceller = NoCanceller
  /\ jobs = [p \in Phases |-> Absent]
  /\ begun = [p \in Phases |-> 0] /\ outcome = [p \in Phases |-> "open"]
  /\ spent = [c \in Counted |-> 0]

Spend(c, max) == spent[c] < max /\ spent' = [spent EXCEPT ![c] = @ + 1]
Click(c)      == Spend(c, MaxClicks - spent["requests"] - spent["cancels"] + spent[c])

-----------------------------------------------------------------------------
(* The thread that runs the phases.                                        *)

Goto(pc) == runner' = [runner EXCEPT !.pc = pc]

\* A checkpoint, and where the thread goes from there ("idle": it returns).
SaveThen(next) == runner' = [runner EXCEPT !.pc = "snapshot", !.next = next]

PhaseBecomes(b, p, status) == [b EXCEPT !.phases[p].status = status]

SkipsBegun(phase) == phase.status # "pending"

\* Finished before a restart.
Skipped(phase) == phase.status = "done"

SeesCancelNever(b) == FALSE

SeesCancel(b) == b.cancelled

\* The top of the for loop.
Top ==
  /\ runner.pc = "top" /\ runner.phase \in Phases
  /\ \/ /\ Skipped(build.phases[runner.phase])
        /\ runner' = [runner EXCEPT !.phase = @ + 1]
        /\ UNCHANGED build
     \/ /\ ~Skipped(build.phases[runner.phase]) /\ SeesCancel(build)
        /\ build' = [build EXCEPT !.status = "cancelled"]
        /\ SaveThen("idle")
     \/ /\ ~Skipped(build.phases[runner.phase]) /\ ~SeesCancel(build)
        /\ Goto("select")
        /\ UNCHANGED build
  /\ UNCHANGED <<known, file, canceller, jobs, begun, outcome, spent>>

\* After the last phase.
AllDone ==
  /\ runner.pc = "top" /\ runner.phase > NPhases
  /\ build' = [build EXCEPT !.status = "done"]
  /\ SaveThen("idle")
  /\ UNCHANGED <<known, file, canceller, jobs, begun, outcome, spent>>

Select ==
  /\ runner.pc = "select"
  /\ build' = [PhaseBecomes(build, runner.phase, "running")
                 EXCEPT !.current = runner.phase, !.status = "running"]
  /\ SaveThen("job")
  /\ UNCHANGED <<known, file, canceller, jobs, begun, outcome, spent>>

Snapshot ==
  /\ runner.pc = "snapshot"
  /\ runner' = [runner EXCEPT !.pc = "write", !.snapshot = build]
  /\ UNCHANGED <<build, known, file, canceller, jobs, begun, outcome, spent>>

\* The file is replaced, or stays as it is when every attempt fails.  (The
\* snapshot is of no more use.)
Write ==
  /\ runner.pc = "write"
  /\ runner' = [runner EXCEPT !.pc = runner.next, !.next = "idle", !.snapshot = NewBuild]
  /\ \/ file' = runner.snapshot /\ UNCHANGED spent
     \/ Spend("lost", MaxLost) /\ UNCHANGED file
  /\ UNCHANGED <<build, known, canceller, jobs, begun, outcome>>

HasJobForgets(phase) == FALSE

\* "Resumed after a restart: this phase's job already exists."
HasJob(phase) == phase.job

LeftAsItIs(j) == {j}

\* JobManager.resume, which may have nothing to do.
AfterResume(j) == IF Resumed(j) = {} THEN {j} ELSE Resumed(j)

ResumeJob ==
  /\ runner.pc = "job" /\ HasJob(build.phases[runner.phase])
  /\ \E j \in AfterResume(jobs[runner.phase]) : jobs' = [jobs EXCEPT ![runner.phase] = j]
  /\ Goto("poll")
  /\ UNCHANGED <<build, known, file, canceller, begun, outcome, spent>>

\* The job's id is checkpointed before the job starts.
CreateJob ==
  /\ runner.pc = "job" /\ ~HasJob(build.phases[runner.phase])
  /\ jobs' = [jobs EXCEPT ![runner.phase] = Created]
  /\ build' = [build EXCEPT !.phases[runner.phase].job = TRUE]
  /\ outcome' = [outcome EXCEPT ![runner.phase] = "open"]
  /\ SaveThen("start")
  /\ UNCHANGED <<known, file, canceller, begun, spent>>

StartJob ==
  /\ runner.pc = "start"
  /\ jobs' = [jobs EXCEPT ![runner.phase] = Started(@)]
  /\ begun' = [begun EXCEPT ![runner.phase] = @ + 1]
  /\ Goto("poll")
  /\ UNCHANGED <<build, known, file, canceller, outcome, spent>>

\* The loop around JobManager.get: left when the job is gone or has stopped.
Poll ==
  /\ runner.pc = "poll"
  /\ Reported(jobs[runner.phase]) \in Stopped \cup {"none"}
  /\ Goto("ended")
  /\ UNCHANGED <<build, known, file, canceller, jobs, begun, outcome, spent>>

SucceededUnlessError(j) == Reported(j) # "error"

\* The status is read again: the job's own thread may have changed it since.
Succeeded(j) == Reported(j) = "done"

\* What the end of the job means for the phase and for the build.
Judge ==
  /\ runner.pc = "ended"
  /\ \/ /\ SeesCancel(build)
        /\ build' = [PhaseBecomes(build, runner.phase, "cancelled") EXCEPT !.status = "cancelled"]
        /\ SaveThen("idle")
     \/ /\ ~SeesCancel(build) /\ ~Succeeded(jobs[runner.phase])
        /\ build' = [PhaseBecomes(build, runner.phase, "error") EXCEPT !.status = "error"]
        /\ SaveThen("idle")
     \/ /\ ~SeesCancel(build) /\ Succeeded(jobs[runner.phase])
        /\ build' = PhaseBecomes(build, runner.phase, "done")
        /\ runner' = [runner EXCEPT !.pc = "snapshot", !.next = "top", !.phase = @ + 1]
  /\ UNCHANGED <<known, file, canceller, jobs, begun, outcome, spent>>

-----------------------------------------------------------------------------
(* cancel().                                                               *)

CancelFlag ==
  /\ canceller.pc = "idle" /\ Click("cancels")
  /\ build' = [build EXCEPT !.cancelled = TRUE]
  /\ canceller' = [canceller EXCEPT !.pc = "job", !.reached = build.current]
  /\ UNCHANGED <<known, file, runner, jobs, begun, outcome>>

CancelJob ==
  /\ canceller.pc = "job"
  /\ IF build.current \in Phases /\ build.phases[build.current].job
       /\ Cancelled(jobs[build.current]) # {}
     THEN \E j \in Cancelled(jobs[build.current]) : jobs' = [jobs EXCEPT ![build.current] = j]
     ELSE UNCHANGED jobs
  /\ canceller' = [canceller EXCEPT !.pc = "status"]
  /\ UNCHANGED <<build, known, file, runner, begun, outcome, spent>>

CancelStatus ==
  /\ canceller.pc = "status"
  /\ build' = [build EXCEPT !.status = IF @ \in Unfinished THEN "cancelled" ELSE @]
  /\ canceller' = [canceller EXCEPT !.pc = "write", !.snapshot = build']
  /\ UNCHANGED <<known, file, runner, jobs, begun, outcome, spent>>

\* A build that was only on disk is forgotten with the request.
CancelWrite ==
  /\ canceller.pc = "write"
  /\ canceller' = [canceller EXCEPT !.pc = "idle", !.snapshot = NewBuild]
  /\ \/ file' = canceller.snapshot /\ UNCHANGED <<build, spent>>
     \/ /\ Spend("lost", MaxLost)
        /\ build' = IF known THEN build ELSE file
        /\ UNCHANGED file
  /\ UNCHANGED <<known, runner, jobs, begun, outcome>>

-----------------------------------------------------------------------------
(* The jobs, between the steps of the build: their threads, and requests   *)
(* for a job rather than for the build.                                    *)

NotTheBuild == UNCHANGED <<build, known, file, runner, canceller, begun>>

\* A job that ends as done has finished, or was cancelled on the way there.
JobEnds(p) ==
  /\ \E j \in Ended(jobs[p]) :
       /\ jobs' = [jobs EXCEPT ![p] = j]
       /\ \/ j.status = "done" /\ outcome' = [outcome EXCEPT ![p] = "finished"]
          \/ j.status = "done" /\ j.cancelled /\ outcome' = [outcome EXCEPT ![p] = "stopped"]
          \/ j.status = "error" /\ UNCHANGED outcome
  /\ NotTheBuild /\ UNCHANGED spent

JobRecovers(p) ==
  /\ \E j \in Recovered(jobs[p]) : jobs' = [jobs EXCEPT ![p] = j]
  /\ Spend("recoveries", MaxRecoveries)
  /\ NotTheBuild /\ UNCHANGED outcome

JobSaves(p) ==
  /\ \E j \in Saved(jobs[p]) : jobs' = [jobs EXCEPT ![p] = j]
  /\ NotTheBuild /\ UNCHANGED <<outcome, spent>>

JobLeaves(p) ==
  /\ \E j \in Left(jobs[p]) : jobs' = [jobs EXCEPT ![p] = j]
  /\ NotTheBuild /\ UNCHANGED <<outcome, spent>>

JobThread(p) == JobEnds(p) \/ JobRecovers(p) \/ JobSaves(p) \/ JobLeaves(p)

\* Continue, a reconnecting stream, and Stop on a job the build knows of.
JobRequest(p) ==
  /\ build.phases[p].job /\ Click("requests")
  /\ \E j \in Continued(jobs[p]) \cup Resumed(jobs[p]) \cup Cancelled(jobs[p]) :
       jobs' = [jobs EXCEPT ![p] = j]
  /\ NotTheBuild /\ UNCHANGED outcome

-----------------------------------------------------------------------------
(* A crash, and the start of the next process: load_interrupted_ids, then  *)
(* resume_unfinished.                                                      *)

Resumable(b) == b.status \in Unfinished /\ ~b.cancelled

CrashAndRestart ==
  /\ Spend("crashes", MaxCrashes)
  /\ jobs' = [p \in Phases |-> Died(jobs[p])]
  /\ build' = file /\ known' = Resumable(file)
  /\ runner' = IF Resumable(file) THEN AtFirstPhase ELSE NoThread
  /\ canceller' = NoCanceller
  /\ UNCHANGED <<file, begun, outcome>>

-----------------------------------------------------------------------------

RunPhases ==
  \/ Top \/ AllDone \/ Select \/ Snapshot \/ Write
  \/ ResumeJob \/ CreateJob \/ StartJob \/ Poll \/ Judge

CancelActs == CancelJob \/ CancelStatus \/ CancelWrite

Next ==
  \/ RunPhases
  \/ CancelFlag \/ CancelActs
  \/ \E p \in Phases : JobThread(p) \/ JobRequest(p)
  \/ CrashAndRestart

\* The build's thread and a request that has begun run on, a job ends and its
\* thread leaves (Terminates of JobManager); nothing is assumed of users.
Fairness ==
  /\ WF_vars(RunPhases) /\ WF_vars(CancelActs)
  /\ \A p \in Phases : WF_vars(JobEnds(p)) /\ WF_vars(JobLeaves(p))

Spec == Init /\ [][Next]_vars /\ Fairness

-----------------------------------------------------------------------------
(* Properties.                                                             *)

Reached(b, p) == b.phases[p].status # "pending"

\* "Never build the next phase on top of a phase that didn't actually finish", as
\* far as the status of a job tells: a phase is begun only when the job of every
\* phase before it has come to done - in memory and in the file a restart starts
\* from, whatever a job's transient errors, lost checkpoints and crashes do.
PhasesFollowDoneJobs ==
  \A b \in {build, file} : \A p \in Phases : Reached(b, p) =>
    \A q \in 1 .. p - 1 : b.phases[q].status = "done" /\ outcome[q] # "open"

\* The same, taken by its words: the job before it finished its work, it was not
\* stopped on the way.
NoPhaseOnUnfinished ==
  \A p \in Phases : Reached(build, p) => \A q \in 1 .. p - 1 : outcome[q] = "finished"

Working(p) == jobs[p].alive /\ jobs[p].status = "running"

\* The phases share a repository and never work on it at the same time, although
\* the poller may take a job for failed that goes on.  (A finished job whose last
\* checkpoint the crash prevented runs again if a client reconnects to it or clicks
\* Continue on it after the restart; such requests are left out.)
OneJobAtATime ==
  spent["requests"] = 0 \/ spent["crashes"] = 0 =>
    Cardinality({p \in Phases : Working(p)}) <= 1

\* A restart continues the job of a phase "rather than starting a second job that
\* would redo the same work on top of it", as long as no checkpoint was lost:
\* neither a crash between two steps nor racing checkpoints make it forget the job.
OneJobPerPhase == spent["lost"] = 0 => \A p \in Phases : begun[p] <= 1

\* No work of a build is done twice or side by side (_run_phases, resume).
OneJobForTheWork == OneJobAtATime /\ OneJobPerPhase

\* A cancelled build does not go on with the chain: at most the phase that was
\* past its check when the flag was set is still begun.
CancelStopsChain == build.cancelled /\ known => build.current <= canceller.reached + 1

\* The thread of a build always ends: whatever its jobs end with, and also after a
\* restart, it never polls a job for ever that nobody runs.
BuildEnds == <>[](runner.pc = "idle")

=============================================================================
