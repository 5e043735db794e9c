------------------------ MODULE ExecutionController ------------------------
(***************************************************************************)
(* One job's plan being executed: the round loop of JobManager._loop       *)
(* (backend/agents/jobs.py) with the controller's policy                   *)
(* (backend/agents/controller.py), continue_job's second chance and a      *)
(* crash of the process.                                                   *)
(*                                                                         *)
(* The plan exists three times: `plan` is the live ExecutionPlan that the  *)
(* controller changes, `jobPlan` is job.plan, the dictionary sync() copies *)
(* it to, and `disk` is the last checkpoint, which carries job.plan and    *)
(* never the live plan.  A round is two steps, Select... and an outcome    *)
(* of the stream, so that a crash or a cancel can fall between them.       *)
(* How many rounds, automatic continuations and stalls a job may use is    *)
(* the subject of JobManager; here a loop may run out at any round.        *)
(***************************************************************************)
EXTENDS TaskPlan

CONSTANTS
  RoundChars,      \* reasoning one round may add: 0 .. RoundChars
  MaxContinues     \* bound: clicks on Continue

ASSUME ControllerAssumption == RoundChars \in Nat /\ MaxContinues \in Nat

VARIABLES
  plan, jobPlan, disk,
  recent,          \* the controller's window of signals; dies with the controller
  phase,           \* "top" of a round, "stream" while the model answers, or
                   \* "unattended": read from disk, no thread is in its loop
  active,          \* active_task of the round under way
  job,             \* "running", or how the job ended
  continues

vars == <<plan, jobPlan, disk, recent, phase, active, job, continues>>

Continuable == {"max_rounds", "stall_exhausted", "plan_blocked", "tasks_failed"}
JobState    == {"running", "done", "cancelled"} \cup Continuable

TypeOK ==
  /\ plan \in Plan
  /\ jobPlan \in Plan
  /\ disk \in [plan : Plan, job : JobState]
  /\ recent \in Seq(Signal) /\ Len(recent) <= Window
  /\ phase \in {"top", "stream", "unattended"}
  /\ active \in Slots \cup {NoTask}
  /\ job \in JobState
  /\ continues \in 0 .. MaxContinues

Init ==
  /\ \E chained \in SUBSET (Originals \ {1}) : plan = BuiltPlan(chained)
  /\ jobPlan = plan
  /\ disk = [plan |-> plan, job |-> "running"]
  /\ recent = <<>>
  /\ phase = "top" /\ active = NoTask
  /\ job = "running" /\ continues = 0

-----------------------------------------------------------------------------
(* How a round ends: the live plan becomes p, job.plan becomes j, and the  *)
(* checkpoint writes job.plan with the job's state.                        *)

EndRound(p, j, state) ==
  /\ plan' = p /\ jobPlan' = j
  /\ job' = state
  /\ disk' = [plan |-> j, job |-> state]
  /\ phase' = "top" /\ active' = NoTask
  /\ UNCHANGED continues

EndRoundUnsynced(p, state) == EndRound(p, jobPlan, state)

\* sync() and the round's checkpoint together.
EndRoundSynced(p, state) == EndRound(p, p, state)

AtTop     == job = "running" /\ phase = "top"
Streaming == job = "running" /\ phase = "stream"

-----------------------------------------------------------------------------
(* The top of a round.                                                     *)

\* begin_task, then intervention_reason and intervene, for the current task.
SelectTask ==
  /\ AtTop
  /\ Current(plan) # NoTask
  /\ LET s        == Current(plan)
         starting == plan.tasks[s].status # "IN_PROGRESS"
         begun    == Begin(plan, s)
         window   == IF starting THEN <<>> ELSE recent
         stuck    == NeedsIntervention(begun, s, window)
         next     == IF stuck THEN Intervene(begun, s) ELSE begun
     IN  /\ plan' = next
         /\ jobPlan' = IF starting \/ stuck THEN next ELSE jobPlan
         /\ recent' = IF stuck THEN <<>> ELSE window
         /\ active' = s
  /\ phase' = "stream"
  /\ UNCHANGED <<disk, job, continues>>

\* The plan has run to its end with nothing failed: a round without a task.
SelectNothing ==
  /\ AtTop
  /\ Current(plan) = NoTask /\ ~Blocked(plan) /\ InStatus(plan, "FAILED") = {}
  /\ phase' = "stream" /\ active' = NoTask
  /\ UNCHANGED <<plan, jobPlan, disk, recent, job, continues>>

PlanBlocked ==
  /\ AtTop
  /\ Current(plan) = NoTask /\ Blocked(plan)
  /\ EndRound(plan, jobPlan, "plan_blocked")
  /\ UNCHANGED recent

TasksFailed ==
  /\ AtTop
  /\ Current(plan) = NoTask /\ ~Blocked(plan) /\ InStatus(plan, "FAILED") # {}
  /\ EndRound(plan, jobPlan, "tasks_failed")
  /\ UNCHANGED recent

\* range(start_round, round_budget) is exhausted.
OutOfRounds ==
  /\ AtTop
  /\ EndRound(plan, jobPlan, "max_rounds")
  /\ UNCHANGED recent

\* Seen at the top of a round, or as soon as the stream has ended.
Cancelled ==
  /\ AtTop \/ Streaming
  /\ EndRound(plan, jobPlan, "cancelled")
  /\ UNCHANGED recent

-----------------------------------------------------------------------------
(* The stream does not deliver: the round is cut or the connection stalls. *)

\* The charge goes on the live task; job.plan is not synced before the
\* checkpoint, so it reaches the disk with the next sync.
Cut ==
  /\ Streaming
  /\ \E chars \in 0 .. RoundChars :
       EndRound(IF active = NoTask THEN plan
                ELSE [plan EXCEPT !.tasks[active].reasoning_chars = @ + chars],
                jobPlan, "running")
  /\ UNCHANGED recent

Stall ==
  /\ Streaming
  /\ \E state \in {"running", "stall_exhausted"} : EndRound(plan, jobPlan, state)
  /\ UNCHANGED recent

-----------------------------------------------------------------------------
(* The stream delivers tool calls.                                         *)

TryAdvanceAnyStatus(p, s, passed) ==
  IF CheckOf[OriginOf(s)] = "cheap" /\ passed THEN RecordValidation(p, s, TRUE) ELSE p

\* try_advance: only a task still in progress, and only on cheap checks.
TryAdvance(p, s, passed) ==
  IF /\ p.tasks[s].status = "IN_PROGRESS"
     /\ CheckOf[OriginOf(s)] = "cheap"
     /\ passed
  THEN RecordValidation(p, s, TRUE) ELSE p

\* record_round, sync, try_advance (which syncs again) and the checkpoint.
ToolsRound ==
  /\ Streaming
  /\ \E moved, passed \in BOOLEAN, tools \in SUBSET Tools \ {{}}, chars \in 0 .. RoundChars :
       LET sig == [moved |-> moved, tools |-> tools]
       IN  IF active = NoTask
           THEN /\ EndRound(plan, jobPlan, "running")
                /\ UNCHANGED recent
           ELSE /\ EndRoundSynced(
                     TryAdvance(RecordRound(plan, active, MadeProgress(sig), chars), active, passed),
                     "running")
                /\ recent' = Remember(recent, sig)

-----------------------------------------------------------------------------
(* The stream delivers no tool call: a claim that the task is finished.    *)

\* A task with no validators passes; otherwise the repository decides.
Verdicts(s) == IF CheckOf[OriginOf(s)] = "none" THEN {TRUE} ELSE BOOLEAN

\* on_completion_claim
Claimed(p, s, passed) ==
  LET q == RecordValidation(p, s, passed)
  IN  IF q.tasks[s].status = "FAILED" THEN Recover(q, s) ELSE q

\* The job-level gates (contract, claims) either send the round back or end
\* the job; what they look at is not in the plan.
Gates == {"running", "done"}

ClaimIsHeardAlways == active # NoTask

ClaimIsHeard == active # NoTask /\ ~Terminal(plan, active)

\* The outcomes of a claim: back to the loop while it is rejected or the
\* plan is not finished, else whatever the gates say.
AfterClaim(p, s) ==
  IF p.tasks[s].status = "COMPLETED" /\ ~Blocked(p) THEN Gates ELSE {"running"}

ClaimRound ==
  /\ Streaming /\ ClaimIsHeard
  /\ \E moved \in BOOLEAN, passed \in Verdicts(active), chars \in 0 .. RoundChars :
       LET sig == [moved |-> moved, tools |-> {}]
           p   == Claimed(RecordRound(plan, active, MadeProgress(sig), chars), active, passed)
       IN  /\ recent' = Remember(recent, sig)
           /\ \E state \in AfterClaim(p, active) : EndRoundSynced(p, state)

\* No task, or the round's task was abandoned by its own intervention: the
\* answer goes straight to the gates.
UnheardRound ==
  /\ Streaming /\ ~ClaimIsHeard
  /\ \E state \in Gates : EndRound(plan, jobPlan, state)
  /\ UNCHANGED recent

-----------------------------------------------------------------------------
(* Entering the loop again.                                                *)

Enter(p) ==
  /\ plan' = p /\ jobPlan' = p
  /\ recent' = <<>>
  /\ phase' = "top" /\ active' = NoTask
  /\ job' = "running"

\* _run, in the same thread, after the round budget or the stall budget.
AutoContinue ==
  /\ phase = "top"
  /\ job \in {"max_rounds", "stall_exhausted"}
  /\ Enter(jobPlan)
  /\ disk' = [plan |-> jobPlan, job |-> "running"]
  /\ UNCHANGED continues

\* continue_job; the file still says "error" until the first checkpoint.
Continue ==
  /\ job \in Continuable
  /\ continues < MaxContinues /\ continues' = continues + 1
  /\ Enter(IF job \in {"plan_blocked", "tasks_failed"} THEN Reopen(jobPlan) ELSE jobPlan)
  /\ UNCHANGED disk

\* The process dies and a new one finds the checkpoint; resume() enters the
\* loop only if it was left mid-flight.
CrashAndRestart ==
  /\ plan' = disk.plan /\ jobPlan' = disk.plan
  /\ recent' = <<>>
  /\ phase' = IF disk.job = "running" THEN "top" ELSE "unattended"
  /\ active' = NoTask
  /\ job' = disk.job
  /\ UNCHANGED <<disk, continues>>

-----------------------------------------------------------------------------

RoundNext ==
  \/ SelectTask \/ SelectNothing \/ PlanBlocked \/ TasksFailed
  \/ ToolsRound \/ ClaimRound \/ UnheardRound

Next ==
  \/ RoundNext
  \/ OutOfRounds \/ Cancelled \/ Cut \/ Stall
  \/ AutoContinue \/ Continue \/ CrashAndRestart

Spec == Init /\ [][Next]_vars

\* The behaviours in which the stream always delivers and nobody interferes;
\* the job's own thread keeps running.
RoundSpec == Init /\ [][RoundNext]_vars /\ WF_vars(RoundNext)

-----------------------------------------------------------------------------
(* Properties.                                                             *)

\* Exactly one task is worked on at a time: the rule plan.py is built around
\* (current(): an already started task wins).  True of every copy of the plan.
Copies == {plan, jobPlan, disk.plan}

OneActive ==
  \A p \in Copies : \A s, t \in InStatus(p, "IN_PROGRESS") : s = t

\* Tasks are worked on in plan order, whatever happened to the ones before: a
\* task in progress has only finished tasks in front of it, the repair of an
\* abandoned task included, and nothing it depends on is open - also after
\* recover() re-pointed its dependencies and after Continue reopened failed tasks.
WorkedInOrder ==
  \A p \in Copies : \A s \in InStatus(p, "IN_PROGRESS") :
    /\ \A r \in Slots : Present(p, r) /\ Position(r) < Position(s) => Terminal(p, r)
    /\ \A d \in p.tasks[s].depends_on : Terminal(p, d)

\* While work remains some task can be worked on: a failure never deadlocks the
\* tasks behind it (plan.fail, is_ready), whatever was repaired or refused a
\* repair.  So "plan_blocked" can only mean that every task failed.
NeverStuck == \A p \in Copies : ~IsStuck(p)

\* A task gives up exactly when a budget is spent: a task that may still be
\* worked on has both an attempt and an intervention left, and a failed task
\* has used up one of the two.
BudgetsDecideFailure ==
  \A p \in Copies : \A s \in Slots :
    LET spent == \/ p.tasks[s].attempts >= MAX_ATTEMPTS_PER_TASK
                 \/ p.tasks[s].interventions >= MAX_INTERVENTIONS_PER_TASK
    IN  /\ s \in Remaining(p) => ~spent
        /\ p.tasks[s].status = "FAILED" => spent

\* Replanning never becomes the work (MAX_PLAN_REVISIONS): between two clicks on
\* Continue a plan grows by at most that many repairs.
RepairsWithinRevisions ==
  Cardinality({k \in Originals : Present(plan, RepairOf(k))})
    <= MAX_PLAN_REVISIONS * (1 + continues)

\* "One repair per task is the whole allowance" (recover): one failure that
\* reaches recover() twice, a failure after Continue, and two tasks with one
\* objective leave a single repair.
OneRepairPerObjective ==
  \A k, j \in Originals :
    Present(plan, RepairOf(k)) /\ Present(plan, RepairOf(j)) /\ Objective[k] = Objective[j]
      => k = j

\* What a controller decided is in job.plan by the time anyone else can look:
\* the live plan and job.plan differ in the reasoning charged by a cut, and in
\* nothing else (sync is "called after every transition").
SameDecisions(p, q) ==
  /\ p.revisions = q.revisions
  /\ \A s \in Slots : [p.tasks[s] EXCEPT !.reasoning_chars = 0]
                     = [q.tasks[s] EXCEPT !.reasoning_chars = 0]

PlanIsSynced == SameDecisions(plan, jobPlan)

\* Between rounds the checkpoint on disk is the plan being executed: a crash
\* there resumes the same task with the same history.  (Not yet after Continue,
\* which writes no checkpoint of its own.)
CheckpointIsCurrent == phase # "stream" /\ disk.job = job => SameDecisions(plan, disk.plan)

\* A COMPLETED or FAILED task is never worked on again, except that Continue
\* reopens the failed ones and a crash goes back to the checkpoint.  (The round
\* that abandons a task used to be able to complete it too: jobs.py, the claim
\* branch.)
TerminalIsFinal ==
  [][ Continue \/ CrashAndRestart
        \/ \A s \in Slots : Terminal(plan, s) => plan'.tasks[s].status = plan.tasks[s].status ]_vars

\* A job is not reported done while its plan has work left: blocking_reason is
\* "why the job must not report success yet".
DoneLeavesNothingOutstanding == job = "done" => Remaining(plan) = {}

\* A job whose plan ran to its end is not reported done with a task it gave up on
\* (failed_tasks: "reported rather than absorbed"), unless a repair did that task.
DoneLeavesNothingFailed ==
  job = "done" /\ Remaining(plan) = {} =>
    \A k \in Originals : plan.tasks[k].status = "FAILED"
                           => plan.tasks[RepairOf(k)].status = "COMPLETED"

\* While its rounds complete, every job either works its plan off or ends: each
\* task's attempts, rounds and interventions are bounded, so is the number of
\* repairs, and nothing reopens a task.
PlanFinishes == <>(job # "running" \/ Remaining(plan) = {})

=============================================================================
