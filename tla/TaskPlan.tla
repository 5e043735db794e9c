------------------------------ MODULE TaskPlan ------------------------------
(***************************************************************************)
(* The execution plan of a job as a value, and what plan.py and            *)
(* controller.py compute from it (backend/agents).  Nothing here is a      *)
(* step: the modules that run a plan apply these operators.                *)
(*                                                                         *)
(* A plan starts with the tasks 1 .. NTasks in list order.  The only way   *)
(* it grows is ExecutionController.recover, which puts one repair task     *)
(* directly behind a failed task; the repair of task k has the id          *)
(* RepairOf(k), ABSENT until it is inserted.  Position gives the order of  *)
(* the task list.                                                          *)
(***************************************************************************)
EXTENDS Naturals, Sequences, FiniteSets

CONSTANTS
  NTasks,                        \* tasks of the plan as it was built
  Objective,                     \* objective text of each original task
  CheckOf,                       \* its validators: "none", "cheap" or "expensive"
  MAX_ATTEMPTS_PER_TASK,
  MAX_PLAN_REVISIONS,
  MAX_INTERVENTIONS_PER_TASK,
  MAX_ROUNDS_WITHOUT_PROGRESS,
  MAX_ROUNDS_PER_TASK,
  MAX_REASONING_CHARS_PER_TASK,
  Window,                        \* quiet rounds that make is_thrashing fire
  Tools, Informative             \* tool names; those whose run is progress in itself

Checks == {"none", "cheap", "expensive"}

ASSUME PlanAssumption ==
  /\ NTasks \in Nat \ {0}
  /\ DOMAIN Objective = 1 .. NTasks
  /\ CheckOf \in [1 .. NTasks -> Checks]
  /\ MAX_ATTEMPTS_PER_TASK \in Nat \ {0}
  /\ MAX_PLAN_REVISIONS \in Nat
  /\ MAX_INTERVENTIONS_PER_TASK \in Nat \ {0}
  /\ MAX_ROUNDS_WITHOUT_PROGRESS \in Nat \ {0}
  /\ MAX_ROUNDS_PER_TASK \in Nat \ {0}
  /\ MAX_REASONING_CHARS_PER_TASK \in Nat
  /\ Window \in Nat \ {0}
  /\ Informative \subseteq Tools

-----------------------------------------------------------------------------
(* Tasks and their place in the list.                                      *)

Originals == 1 .. NTasks
Slots     == 1 .. 2 * NTasks
NoTask    == 0

RepairOf(k)   == NTasks + k
IsRecovery(s) == s > NTasks
OriginOf(s)   == IF IsRecovery(s) THEN s - NTasks ELSE s
Position(s)   == IF IsRecovery(s) THEN 2 * (s - NTasks) + 1 ELSE 2 * s

Status == {"ABSENT", "PENDING", "IN_PROGRESS", "COMPLETED", "FAILED"}

TERMINAL_STATUSES == {"COMPLETED", "FAILED"}

Task ==
  [ status                  : Status,
    depends_on              : SUBSET Slots,
    attempts                : Nat,      \* completion claims that validation rejected
    interventions           : Nat,      \* times the controller forced the task
    rounds_spent            : Nat,
    rounds_without_progress : Nat,
    reasoning_chars         : Nat ]

Plan == [ tasks : [Slots -> Task], revisions : Nat ]

NewTask(st, deps) ==
  [ status |-> st, depends_on |-> deps, attempts |-> 0, interventions |-> 0,
    rounds_spent |-> 0, rounds_without_progress |-> 0, reasoning_chars |-> 0 ]

\* What plan_builder returns: each task depends on the task before it, or on
\* nothing (depends_on_previous); `chained` are the tasks of the first kind.
BuiltPlan(chained) ==
  [ tasks     |-> [s \in Slots |->
                     IF s \in Originals
                     THEN NewTask("PENDING", IF s \in chained THEN {s - 1} ELSE {})
                     ELSE NewTask("ABSENT", {})],
    revisions |-> 0 ]

-----------------------------------------------------------------------------
(* Lookup.                                                                 *)

Present(p, s)  == p.tasks[s].status # "ABSENT"
Terminal(p, s) == p.tasks[s].status \in TERMINAL_STATUSES

\* A dependency that is not in the plan blocks; one that FAILED does not.
IsReady(p, s) == \A d \in p.tasks[s].depends_on : Terminal(p, d)

InStatus(p, st) == {s \in Slots : p.tasks[s].status = st}

Startable(p) == {s \in InStatus(p, "PENDING") : IsReady(p, s)}

Latest(S) == CHOOSE s \in S : \A r \in S : Position(s) >= Position(r)

Earliest(S) == CHOOSE s \in S : \A r \in S : Position(s) <= Position(r)

\* A started task wins over any that could be started.
Current(p) ==
  IF InStatus(p, "IN_PROGRESS") # {} THEN Earliest(InStatus(p, "IN_PROGRESS"))
  ELSE IF Startable(p) # {} THEN Earliest(Startable(p))
  ELSE NoTask

Remaining(p) == InStatus(p, "PENDING") \cup InStatus(p, "IN_PROGRESS")

IsStuck(p) == Remaining(p) # {} /\ Current(p) = NoTask

IsComplete(p) == Remaining(p) = {} /\ InStatus(p, "COMPLETED") # {}

\* ExecutionController.blocking_reason is not None.
Blocked(p) == IsStuck(p) \/ ~IsComplete(p)

-----------------------------------------------------------------------------
(* Transitions of one task.                                                *)

Begin(p, s) == [p EXCEPT !.tasks[s].status = "IN_PROGRESS"]

Complete(p, s) == [p EXCEPT !.tasks[s].status = "COMPLETED",
                            !.tasks[s].rounds_without_progress = 0]

Fail(p, s) == [p EXCEPT !.tasks[s].status = "FAILED"]

RecordValidationForever(p, s, passed) ==
  IF passed THEN Complete(p, s) ELSE [p EXCEPT !.tasks[s].attempts = @ + 1]

RecordValidation(p, s, passed) ==
  IF passed THEN Complete(p, s)
  ELSE LET q == [p EXCEPT !.tasks[s].attempts = @ + 1]
       IN  IF q.tasks[s].attempts >= MAX_ATTEMPTS_PER_TASK THEN Fail(q, s) ELSE q

RecordRound(p, s, progress, chars) ==
  [p EXCEPT !.tasks[s] =
     [p.tasks[s] EXCEPT !.rounds_spent = @ + 1,
                        !.reasoning_chars = @ + chars,
                        !.rounds_without_progress = IF progress THEN 0 ELSE @ + 1]]

-----------------------------------------------------------------------------
(* Recovery: one repair per failed objective, never of a repair, and only  *)
(* while the plan may still be revised.  It starts with all but one        *)
(* intervention spent and takes the failed task's place as a dependency.   *)

CanRevise(p) == p.revisions < MAX_PLAN_REVISIONS

Repaired(p, s) ==
  \E k \in Originals : Objective[k] = Objective[s] /\ Present(p, RepairOf(k))

RepairTask ==
  [NewTask("PENDING", {}) EXCEPT !.interventions = MAX_INTERVENTIONS_PER_TASK - 1]

Repoint(deps, s) == IF s \in deps THEN (deps \ {s}) \cup {RepairOf(s)} ELSE deps

InsertRepair(p, s) ==
  [ tasks     |-> [t \in Slots |->
                     IF t = RepairOf(s) THEN RepairTask
                     ELSE [p.tasks[t] EXCEPT !.depends_on = Repoint(@, s)]],
    revisions |-> p.revisions + 1 ]

RecoverAgain(p, s) ==
  IF IsRecovery(s) \/ ~CanRevise(p) THEN p ELSE InsertRepair(p, s)

RecoverUnbounded(p, s) ==
  IF IsRecovery(s) \/ Repaired(p, s) THEN p ELSE InsertRepair(p, s)

RecoverRepointsFirst(p, s) ==
  IF IsRecovery(s) \/ Repaired(p, s) THEN p
  ELSE LET q == InsertRepair(p, s)
       IN  IF CanRevise(p) THEN q
           ELSE [q EXCEPT !.tasks[RepairOf(s)] = p.tasks[RepairOf(s)], !.revisions = @ - 1]

Recover(p, s) ==
  IF IsRecovery(s) \/ Repaired(p, s) \/ ~CanRevise(p) THEN p ELSE InsertRepair(p, s)

-----------------------------------------------------------------------------
(* Interventions.  A signal is what compare() saw of one round: whether    *)
(* the repository changed, and which tools ran.                            *)

Signal == [ moved : BOOLEAN, tools : SUBSET Tools ]

MadeProgress(sig) == sig.moved \/ sig.tools \cap Informative # {}

RememberAll(recent, sig) == Append(recent, sig)

\* The deque holds six signals and only its last Window are ever read.
Remember(recent, sig) ==
  Append(IF Len(recent) = Window THEN Tail(recent) ELSE recent, sig)

IsThrashing(recent) ==
  /\ Len(recent) = Window
  /\ \A i \in 1 .. Window : ~recent[i].moved /\ recent[i].tools \subseteq recent[1].tools

NeedsIntervention(p, s, recent) ==
  \/ p.tasks[s].rounds_without_progress >= MAX_ROUNDS_WITHOUT_PROGRESS
  \/ IsThrashing(recent)
  \/ p.tasks[s].reasoning_chars > MAX_REASONING_CHARS_PER_TASK
  \/ p.tasks[s].rounds_spent >= MAX_ROUNDS_PER_TASK

ForcedUncounted(p, s) ==
  [p EXCEPT !.tasks[s] =
     [p.tasks[s] EXCEPT !.rounds_without_progress = 0,
                        !.reasoning_chars = 0,
                        !.rounds_spent = 0]]

Forced(p, s) ==
  [p EXCEPT !.tasks[s] =
     [p.tasks[s] EXCEPT !.interventions = @ + 1,
                        !.rounds_without_progress = 0,
                        !.reasoning_chars = 0,
                        !.rounds_spent = 0]]

Intervene(p, s) ==
  LET q == Forced(p, s)
  IN  IF q.tasks[s].interventions >= MAX_INTERVENTIONS_PER_TASK
      THEN Recover(Fail(q, s), s)
      ELSE q

-----------------------------------------------------------------------------
(* continue_job on a plan that ended blocked or with failed tasks: every   *)
(* failed task gets another go, and the plan may be revised afresh.        *)

Reopened(t) ==
  [t EXCEPT !.status = "PENDING", !.interventions = 0, !.attempts = 0,
            !.rounds_spent = 0, !.rounds_without_progress = 0]

ReopenKeepsBudgets(p) ==
  [ tasks     |-> [s \in Slots |-> IF p.tasks[s].status = "FAILED"
                                   THEN [p.tasks[s] EXCEPT !.status = "PENDING"]
                                   ELSE p.tasks[s]],
    revisions |-> 0 ]

Reopen(p) ==
  [ tasks     |-> [s \in Slots |-> IF p.tasks[s].status = "FAILED"
                                   THEN Reopened(p.tasks[s]) ELSE p.tasks[s]],
    revisions |-> 0 ]

=============================================================================
