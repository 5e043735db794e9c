--------------------- MODULE ExecutionController_proofs ---------------------
(***************************************************************************)
(* What TLAPS proves of ExecutionController for every plan length, every   *)
(* budget and every number of crashes and clicks on Continue.              *)
(*                                                                         *)
(* The argument is about one plan at a time.  Sound(p) is what the three   *)
(* copies of the plan have in common, and the lemmas of the first half     *)
(* show that each operator of TaskPlan keeps it.  The second half carries  *)
(* it through the steps of the round loop.                                 *)
(***************************************************************************)
EXTENDS ExecutionController, TLAPS, FiniteSetTheorems, WellFoundedInduction

-----------------------------------------------------------------------------
(* The list order.                                                         *)

\* Position is a natural number and tells any two slots apart.
LEMMA PositionType ==
  /\ \A s \in Slots : s \in Nat /\ s # NoTask /\ Position(s) \in Nat
  /\ \A s, t \in Slots : Position(s) = Position(t) => s = t
  /\ \A k \in Originals : /\ k \in Slots /\ RepairOf(k) \in Slots
                          /\ RepairOf(k) \notin Originals
                          /\ IsRecovery(RepairOf(k)) /\ ~IsRecovery(k)
                          /\ Position(RepairOf(k)) = Position(k) + 1
  /\ \A s \in Slots : ~IsRecovery(s) => s \in Originals
BY PlanAssumption DEF Slots, Originals, NoTask, Position, IsRecovery, RepairOf

\* Any nonempty set of slots has an earliest one, and Earliest returns it.
LEMMA EarliestIsFirst ==
  ASSUME NEW S \in SUBSET Slots, S # {}
  PROVE  Earliest(S) \in S /\ \A r \in S : Position(Earliest(S)) <= Position(r)
<1> DEFINE T == {Position(s) : s \in S}
           R == OpToRel(<, Nat)
<1>1. T \subseteq Nat /\ T # {}
  BY PositionType
<1>2. \E x \in T : \A y \in T : ~ (<<y, x>> \in R)
  <2>1. IsWellFoundedOn(R, Nat)
    BY NatLessThanWellFounded
  <2> HIDE DEF T, R
  <2> QED
    BY <1>1, <2>1, WFMin
<1>3. PICK s \in S : \A y \in T : ~ (<<y, Position(s)>> \in R)
  BY <1>2
<1>4. \A r \in S : Position(s) <= Position(r)
  <2> SUFFICES ASSUME NEW r \in S PROVE Position(s) <= Position(r)
    OBVIOUS
  <2>1. Position(r) \in Nat /\ Position(s) \in Nat
    BY PositionType
  <2>2. ~ (Position(r) < Position(s))
    BY <1>3, <2>1 DEF OpToRel
  <2> QED
    BY <2>1, <2>2
<1> QED
  BY <1>4 DEF Earliest

-----------------------------------------------------------------------------
(* What every copy of the plan satisfies.                                  *)

StatusOf(p, s) == p.tasks[s].status

\* Dependencies are in the plan and in front of the task they hold back.
WellFormed(p) ==
  /\ p \in Plan
  /\ \A s \in Originals : Present(p, s)
  /\ \A s \in Slots : \A d \in p.tasks[s].depends_on : Present(p, d) /\ Position(d) < Position(s)

Idle(p) == \A s \in Slots : StatusOf(p, s) # "IN_PROGRESS"

\* Everything in front of s is finished.
Cleared(p, s) == \A r \in Slots : Present(p, r) /\ Position(r) < Position(s) => Terminal(p, r)

Ordered(p) ==
  \A s \in Slots : StatusOf(p, s) = "IN_PROGRESS" =>
    /\ Cleared(p, s)
    /\ \A t \in Slots : StatusOf(p, t) = "IN_PROGRESS" => t = s

Spent(task) == \/ task.attempts >= MAX_ATTEMPTS_PER_TASK
               \/ task.interventions >= MAX_INTERVENTIONS_PER_TASK

WithinBudget(task) ==
  /\ task.status \in {"PENDING", "IN_PROGRESS"} => ~Spent(task)
  /\ task.status = "FAILED" => Spent(task)

Sound(p) ==
  /\ WellFormed(p)
  /\ Ordered(p)
  /\ \A s \in Slots : WithinBudget(p.tasks[s])

\* A plan and a task of it have the fields their types promise.
LEMMA TaskFields ==
  ASSUME NEW p \in Plan, NEW s \in Slots
  PROVE  /\ p.tasks[s] \in Task
         /\ StatusOf(p, s) \in Status
         /\ p.tasks[s].depends_on \subseteq Slots
         /\ p.tasks[s].attempts \in Nat
         /\ p.tasks[s].interventions \in Nat
         /\ p.revisions \in Nat
BY DEF Plan, Task, StatusOf

\* The first unfinished task can always be worked on: what it depends on is in
\* front of it, hence finished.  So Current finds a task whenever work is left,
\* and the one it finds has only finished tasks in front of it.
LEMMA CurrentIsNext ==
  ASSUME NEW p, Sound(p), Remaining(p) # {}
  PROVE  /\ Current(p) \in Remaining(p)
         /\ Cleared(p, Current(p))
         /\ StatusOf(p, Current(p)) = "IN_PROGRESS" \/ Idle(p)
<1> DEFINE f == Earliest(Remaining(p))
<1>1. p \in Plan
  BY DEF Sound, WellFormed
<1>2. Remaining(p) \in SUBSET Slots
  BY DEF Remaining, InStatus
<1>3. /\ f \in Remaining(p)
      /\ \A r \in Remaining(p) : Position(f) <= Position(r)
  BY <1>2, EarliestIsFirst
<1>4. Cleared(p, f)
  <2> SUFFICES ASSUME NEW r \in Slots, Present(p, r), Position(r) < Position(f)
               PROVE  Terminal(p, r)
    BY DEF Cleared
  <2>1. r \notin Remaining(p)
    BY <1>2, <1>3, PositionType
  <2> QED
    BY <2>1, <1>1, TaskFields DEF Remaining, InStatus, Present, Terminal, StatusOf, Status, TERMINAL_STATUSES
<1>5. CASE InStatus(p, "IN_PROGRESS") # {}
  <2>1. Current(p) = Earliest(InStatus(p, "IN_PROGRESS"))
    BY <1>5 DEF Current
  <2>2. Current(p) \in InStatus(p, "IN_PROGRESS")
    BY <1>5, <2>1, EarliestIsFirst DEF InStatus
  <2> QED
    BY <2>2 DEF InStatus, Remaining, StatusOf, Sound, Ordered
<1>6. CASE InStatus(p, "IN_PROGRESS") = {}
  <2>1. f \in Startable(p)
    <3>1. f \in InStatus(p, "PENDING")
      BY <1>3, <1>6 DEF Remaining
    <3>2. IsReady(p, f)
      BY <1>1, <1>2, <1>3, <1>4, TaskFields DEF IsReady, Cleared, Sound, WellFormed
    <3> QED
      BY <3>1, <3>2 DEF Startable
  <2>2. Startable(p) \in SUBSET Slots /\ Startable(p) \subseteq Remaining(p)
    BY DEF Startable, InStatus, Remaining
  <2>3. Current(p) = Earliest(Startable(p))
    BY <1>6, <2>1 DEF Current
  <2>4. /\ Current(p) \in Startable(p)
        /\ Position(Current(p)) <= Position(f)
    BY <2>1, <2>2, <2>3, EarliestIsFirst
  <2>5. Position(Current(p)) = Position(f)
    BY <1>2, <1>3, <2>2, <2>4, PositionType
  <2>6. Cleared(p, Current(p))
    BY <1>4, <2>5 DEF Cleared
  <2> QED
    BY <1>6, <2>2, <2>4, <2>6 DEF Idle, InStatus, StatusOf
<1> QED
  BY <1>5, <1>6

\* Current is NoTask exactly when nothing is left.
LEMMA CurrentFindsWork ==
  ASSUME NEW p, Sound(p)
  PROVE  /\ Current(p) = NoTask <=> Remaining(p) = {}
         /\ Current(p) # NoTask => /\ Current(p) \in Slots
                                   /\ StatusOf(p, Current(p)) \in {"PENDING", "IN_PROGRESS"}
<1>1. CASE Remaining(p) # {}
  <2>1. Current(p) \in Remaining(p)
    BY <1>1, CurrentIsNext
  <2> QED
    BY <1>1, <2>1, PositionType DEF Remaining, InStatus, StatusOf
<1>2. CASE Remaining(p) = {}
  BY <1>2 DEF Remaining, Current, Startable
<1> QED
  BY <1>1, <1>2

-----------------------------------------------------------------------------
(* What the operators of TaskPlan do to a sound plan.                      *)

\* A task may count, complete or fail within its budgets without disturbing the
\* rest of the plan: finished tasks only make more of the others ready.
LEMMA OneTaskChanges ==
  ASSUME NEW p, NEW q, NEW s \in Slots, Sound(p), q \in Plan,
         q.revisions = p.revisions,
         \A t \in Slots : t # s => q.tasks[t] = p.tasks[t],
         StatusOf(p, s) # "ABSENT",
         q.tasks[s].depends_on = p.tasks[s].depends_on,
         StatusOf(q, s) \in {StatusOf(p, s), "COMPLETED", "FAILED"},
         WithinBudget(q.tasks[s])
  PROVE  /\ Sound(q)
         /\ StatusOf(p, s) = "IN_PROGRESS" /\ StatusOf(q, s) # "IN_PROGRESS" => Idle(q)
<1>1. \A t \in Slots : /\ q.tasks[t].depends_on = p.tasks[t].depends_on
                       /\ Present(q, t) <=> Present(p, t)
                       /\ Terminal(p, t) => Terminal(q, t)
                       /\ StatusOf(q, t) = "IN_PROGRESS" => StatusOf(p, t) = "IN_PROGRESS"
  BY DEF StatusOf, Present, Terminal, TERMINAL_STATUSES
<1>2. WellFormed(q)
  <2>1. p \in Plan /\ \A t \in Slots : p.tasks[t].depends_on \subseteq Slots
    BY TaskFields DEF Sound, WellFormed
  <2>2. \A t \in Originals : Present(q, t)
    BY <1>1, PositionType DEF Sound, WellFormed
  <2>3. \A t \in Slots : \A d \in q.tasks[t].depends_on : Present(q, d) /\ Position(d) < Position(t)
    BY <1>1, <2>1 DEF Sound, WellFormed
  <2> QED
    BY <2>2, <2>3 DEF WellFormed
<1>3. Ordered(q)
  <2>1. \A t \in Slots : Cleared(p, t) => Cleared(q, t)
    BY <1>1 DEF Cleared
  <2> QED
    BY <1>1, <2>1 DEF Sound, Ordered
<1>4. \A t \in Slots : WithinBudget(q.tasks[t])
  BY DEF Sound
<1>5. Sound(q)
  BY <1>2, <1>3, <1>4 DEF Sound
<1>6. StatusOf(p, s) = "IN_PROGRESS" /\ StatusOf(q, s) # "IN_PROGRESS" => Idle(q)
  BY <1>1 DEF Idle, Sound, Ordered
<1> QED
  BY <1>5, <1>6

\* begin_task on the current task.
LEMMA BeginKeepsSound ==
  ASSUME NEW p, Sound(p), Current(p) # NoTask
  PROVE  /\ Sound(Begin(p, Current(p)))
         /\ StatusOf(Begin(p, Current(p)), Current(p)) = "IN_PROGRESS"
<1> DEFINE s == Current(p)
           q == Begin(p, s)
<1>1. /\ s \in Slots /\ p \in Plan
      /\ StatusOf(p, s) \in {"PENDING", "IN_PROGRESS"}
      /\ Remaining(p) # {}
  BY CurrentFindsWork DEF Sound, WellFormed
<1>2. Cleared(p, s) /\ (StatusOf(p, s) = "IN_PROGRESS" \/ Idle(p))
  BY <1>1, CurrentIsNext
<1>3. /\ q \in Plan
      /\ StatusOf(q, s) = "IN_PROGRESS"
      /\ \A t \in Slots : t # s => q.tasks[t] = p.tasks[t]
      /\ q.tasks[s].depends_on = p.tasks[s].depends_on
      /\ q.tasks[s].attempts = p.tasks[s].attempts
      /\ q.tasks[s].interventions = p.tasks[s].interventions
  BY <1>1, SMTT(30) DEF Begin, Plan, Task, Status, StatusOf
<1> HIDE DEF q, s
<1>4. \A t \in Slots : /\ Present(q, t) <=> Present(p, t)
                       /\ Terminal(q, t) <=> Terminal(p, t)
                       /\ q.tasks[t].depends_on = p.tasks[t].depends_on
  BY <1>1, <1>3 DEF StatusOf, Present, Terminal, TERMINAL_STATUSES
<1>5. WellFormed(q)
  <2>1. \A t \in Slots : p.tasks[t].depends_on \subseteq Slots
    BY <1>1, TaskFields
  <2> QED
    BY <1>3, <1>4, <2>1, PositionType DEF Sound, WellFormed
<1>6. Ordered(q)
  <2>1. \A t \in Slots : Cleared(p, t) => Cleared(q, t)
    BY <1>4 DEF Cleared
  <2>2. \A t \in Slots : t # s => StatusOf(q, t) # "IN_PROGRESS"
    BY <1>1, <1>2, <1>3 DEF StatusOf, Idle, Sound, Ordered
  <2> QED
    BY <1>2, <2>1, <2>2 DEF Ordered
<1>7. \A t \in Slots : WithinBudget(q.tasks[t])
  <2>1. WithinBudget(q.tasks[s])
    BY <1>1, <1>3 DEF Sound, WithinBudget, Spent, StatusOf
  <2> QED
    BY <1>3, <2>1 DEF Sound
<1>8. Sound(q) /\ StatusOf(q, s) = "IN_PROGRESS"
  BY <1>3, <1>5, <1>6, <1>7 DEF Sound
<1> QED
  BY <1>8 DEF q, s

\* record_round, and what a cut adds: counters that no budget of Sound reads.
LEMMA RecordRoundKeepsSound ==
  ASSUME NEW p, Sound(p), NEW s \in Slots, StatusOf(p, s) # "ABSENT",
         NEW progress \in BOOLEAN, NEW chars \in Nat
  PROVE  /\ Sound(RecordRound(p, s, progress, chars))
         /\ StatusOf(RecordRound(p, s, progress, chars), s) = StatusOf(p, s)
<1> DEFINE q == RecordRound(p, s, progress, chars)
<1>1. p \in Plan
  BY DEF Sound, WellFormed
<1>2. /\ q \in Plan
      /\ q.revisions = p.revisions
      /\ \A t \in Slots : t # s => q.tasks[t] = p.tasks[t]
      /\ q.tasks[s].status = p.tasks[s].status
      /\ q.tasks[s].depends_on = p.tasks[s].depends_on
      /\ q.tasks[s].attempts = p.tasks[s].attempts
      /\ q.tasks[s].interventions = p.tasks[s].interventions
  <2> DEFINE t0 == p.tasks[s]
             n  == IF progress THEN 0 ELSE t0.rounds_without_progress + 1
             u  == [t0 EXCEPT !.rounds_spent = t0.rounds_spent + 1,
                              !.reasoning_chars = t0.reasoning_chars + chars,
                              !.rounds_without_progress = n]
  <2>1. /\ t0 \in Task
        /\ t0.rounds_spent + 1 \in Nat
        /\ t0.reasoning_chars + chars \in Nat
        /\ n \in Nat
    <3>1. t0 \in Task
      BY <1>1, TaskFields
    <3> QED
      BY <3>1 DEF Task
  <2>2. /\ u \in Task
        /\ u.status = t0.status
        /\ u.depends_on = t0.depends_on
        /\ u.attempts = t0.attempts
        /\ u.interventions = t0.interventions
    <3> HIDE DEF t0, n
    <3> QED
      BY <2>1 DEF Task
  <2>3. q = [p EXCEPT !.tasks[s] = u]
    BY DEF RecordRound
  <2> HIDE DEF q, u
  <2>4. /\ q \in Plan
        /\ q.revisions = p.revisions
        /\ \A t \in Slots : t # s => q.tasks[t] = p.tasks[t]
        /\ q.tasks[s] = u
    BY <1>1, <2>2, <2>3 DEF Plan
  <2> QED
    BY <2>2, <2>4
<1>3. WithinBudget(q.tasks[s]) /\ StatusOf(q, s) = StatusOf(p, s)
  BY <1>2 DEF Sound, WithinBudget, Spent, StatusOf
<1> HIDE DEF q
<1>4. Sound(q)
  BY <1>2, <1>3, OneTaskChanges
<1> QED
  BY <1>3, <1>4 DEF q

LEMMA ChargeKeepsSound ==
  ASSUME NEW p, Sound(p), NEW s \in Slots, StatusOf(p, s) # "ABSENT", NEW chars \in Nat
  PROVE  Sound([p EXCEPT !.tasks[s].reasoning_chars = @ + chars])
<1> DEFINE q == [p EXCEPT !.tasks[s].reasoning_chars = @ + chars]
<1>1. p \in Plan
  BY DEF Sound, WellFormed
<1>2. /\ q \in Plan
      /\ q.revisions = p.revisions
      /\ \A t \in Slots : t # s => q.tasks[t] = p.tasks[t]
      /\ q.tasks[s].status = p.tasks[s].status
      /\ q.tasks[s].depends_on = p.tasks[s].depends_on
      /\ q.tasks[s].attempts = p.tasks[s].attempts
      /\ q.tasks[s].interventions = p.tasks[s].interventions
  BY <1>1, SMTT(30) DEF Plan, Task
<1>3. WithinBudget(q.tasks[s]) /\ StatusOf(q, s) = StatusOf(p, s)
  BY <1>2 DEF Sound, WithinBudget, Spent, StatusOf
<1> HIDE DEF q
<1>4. Sound(q)
  BY <1>2, <1>3, OneTaskChanges
<1> QED
  BY <1>4 DEF q

\* record_validation on a task in progress: it completes, stays or fails.
LEMMA RecordValidationKeepsSound ==
  ASSUME NEW p, Sound(p), NEW s \in Slots, StatusOf(p, s) = "IN_PROGRESS", NEW passed \in BOOLEAN
  PROVE  LET q == RecordValidation(p, s, passed)
         IN  /\ Sound(q)
             /\ StatusOf(q, s) \in {"IN_PROGRESS", "COMPLETED", "FAILED"}
             /\ StatusOf(q, s) # "IN_PROGRESS" => Idle(q)
<1> DEFINE q == RecordValidation(p, s, passed)
           t0 == p.tasks[s]
           st == IF passed THEN "COMPLETED"
                 ELSE IF t0.attempts + 1 >= MAX_ATTEMPTS_PER_TASK THEN "FAILED" ELSE "IN_PROGRESS"
           u  == IF passed THEN [t0 EXCEPT !.status = st, !.rounds_without_progress = 0]
                 ELSE [t0 EXCEPT !.status = st, !.attempts = t0.attempts + 1]
<1>1. p \in Plan /\ t0 \in Task /\ t0.status = "IN_PROGRESS"
  BY TaskFields DEF Sound, WellFormed, StatusOf
<1>2. t0.attempts \in Nat /\ t0.interventions \in Nat /\ ~Spent(t0)
  BY <1>1 DEF Task, Sound, WithinBudget
<1>3. /\ u \in Task
      /\ u.depends_on = t0.depends_on
      /\ u.status = st
      /\ WithinBudget(u)
  <2>1. CASE passed
    <3>1. u = [t0 EXCEPT !.status = "COMPLETED", !.rounds_without_progress = 0]
      BY <2>1
    <3> QED
      BY <1>1, <2>1, <3>1 DEF Task, Status, WithinBudget
  <2>2. CASE ~passed
    <3>1. u = [t0 EXCEPT !.status = st, !.attempts = t0.attempts + 1]
      BY <2>2
    <3>2. st \in Status /\ t0.attempts + 1 \in Nat
      BY <1>2, <2>2 DEF Status
    <3>3. /\ u \in Task
          /\ u.depends_on = t0.depends_on
          /\ u.status = st
          /\ u.attempts = t0.attempts + 1
          /\ u.interventions = t0.interventions
      <4> HIDE DEF st, u, t0
      <4> QED
        BY <1>1, <3>1, <3>2 DEF Task
    <3>4. st = IF t0.attempts + 1 >= MAX_ATTEMPTS_PER_TASK THEN "FAILED" ELSE "IN_PROGRESS"
      BY <2>2
    <3>5. WithinBudget(u)
      <4> HIDE DEF st, u, t0
      <4> QED
        BY <1>2, <3>3, <3>4, PlanAssumption DEF WithinBudget, Spent
    <3> QED
      BY <3>3, <3>5
  <2> QED
    BY <2>1, <2>2
<1>4. q = [p EXCEPT !.tasks[s] = u]
  <2>1. CASE passed
    BY <1>1, <2>1 DEF RecordValidation, Complete, Plan, Task
  <2>2. CASE ~passed
    <3> DEFINE r == [p EXCEPT !.tasks[s].attempts = @ + 1]
    <3>1. r.tasks[s].attempts = t0.attempts + 1
      BY <1>1 DEF Plan, Task
    <3>2. q = IF t0.attempts + 1 >= MAX_ATTEMPTS_PER_TASK THEN Fail(r, s) ELSE r
      BY <2>2, <3>1 DEF RecordValidation
    <3>3. CASE t0.attempts + 1 >= MAX_ATTEMPTS_PER_TASK
      <4>1. u = [t0 EXCEPT !.status = "FAILED", !.attempts = t0.attempts + 1]
        BY <2>2, <3>3
      <4>2. q = Fail(r, s)
        BY <3>2, <3>3
      <4>3. /\ r = [p EXCEPT !.tasks[s] = [t0 EXCEPT !.attempts = t0.attempts + 1]]
            /\ r.tasks[s] = [t0 EXCEPT !.attempts = t0.attempts + 1]
        BY <1>1 DEF Plan
      <4>4. Fail(r, s) = [p EXCEPT !.tasks[s] =
                            [[t0 EXCEPT !.attempts = t0.attempts + 1] EXCEPT !.status = "FAILED"]]
        BY <1>1, <4>3 DEF Fail, Plan
      <4>5. [[t0 EXCEPT !.attempts = t0.attempts + 1] EXCEPT !.status = "FAILED"] = u
        BY <1>1, <4>1 DEF Task
      <4> QED
        BY <4>2, <4>4, <4>5
    <3>4. CASE ~(t0.attempts + 1 >= MAX_ATTEMPTS_PER_TASK)
      BY <1>1, <2>2, <3>2, <3>4 DEF Plan, Task
    <3> QED
      BY <3>3, <3>4
  <2> QED
    BY <2>1, <2>2
<1>5. st \in {"IN_PROGRESS", "COMPLETED", "FAILED"}
  OBVIOUS
<1> HIDE DEF q, u, st
<1>6. /\ q \in Plan
      /\ q.revisions = p.revisions
      /\ \A t \in Slots : t # s => q.tasks[t] = p.tasks[t]
      /\ q.tasks[s] = u
  BY <1>1, <1>3, <1>4 DEF Plan
<1>7. /\ Sound(q)
      /\ StatusOf(q, s) = st
      /\ StatusOf(q, s) # "IN_PROGRESS" => Idle(q)
  BY <1>1, <1>3, <1>5, <1>6, OneTaskChanges DEF StatusOf
<1> QED
  BY <1>5, <1>7 DEF q

\* recover on a task that has just failed, with nothing else in progress: the
\* repair lands in an empty slot, directly behind the task it repairs, so what
\* now depends on it comes later.
LEMMA RecoverKeepsSound ==
  ASSUME NEW p, Sound(p), NEW s \in Slots, StatusOf(p, s) = "FAILED", Idle(p)
  PROVE  /\ Sound(Recover(p, s))
         /\ StatusOf(Recover(p, s), s) = "FAILED"
         /\ Idle(Recover(p, s))
<1>1. CASE IsRecovery(s) \/ Repaired(p, s) \/ ~CanRevise(p)
  BY <1>1 DEF Recover
<1>2. CASE ~(IsRecovery(s) \/ Repaired(p, s) \/ ~CanRevise(p))
  <2> DEFINE q == InsertRepair(p, s)
             r == RepairOf(s)
  <2>1. p \in Plan /\ p.revisions \in Nat
    BY TaskFields DEF Sound, WellFormed
  <2>2. /\ s \in Originals /\ r \in Slots /\ r # s
        /\ Position(r) = Position(s) + 1
        /\ r \notin Originals
    BY <1>2, PositionType
  <2>3. ~Present(p, r)
    BY <1>2, <2>2 DEF Repaired
  <2>4. RepairTask \in Task /\ RepairTask.status = "PENDING" /\ RepairTask.depends_on = {}
        /\ WithinBudget(RepairTask)
    BY PlanAssumption DEF RepairTask, NewTask, Task, Status, WithinBudget, Spent
  <2>5. q.tasks[r] = RepairTask /\ q.revisions = p.revisions + 1
    BY <2>2 DEF InsertRepair
  <2>6. \A t \in Slots : t # r =>
          q.tasks[t] = [p.tasks[t] EXCEPT !.depends_on = Repoint(p.tasks[t].depends_on, s)]
    BY DEF InsertRepair
  <2>7. \A t \in Slots : Repoint(p.tasks[t].depends_on, s) \subseteq Slots
    BY <2>1, <2>2, TaskFields DEF Repoint
  <2>8. \A t \in Slots : t # r =>
          /\ q.tasks[t] \in Task
          /\ q.tasks[t].depends_on = Repoint(p.tasks[t].depends_on, s)
          /\ q.tasks[t].status = p.tasks[t].status
          /\ q.tasks[t].attempts = p.tasks[t].attempts
          /\ q.tasks[t].interventions = p.tasks[t].interventions
    <3> SUFFICES ASSUME NEW t \in Slots, t # r
                 PROVE  /\ q.tasks[t] \in Task
                        /\ q.tasks[t].depends_on = Repoint(p.tasks[t].depends_on, s)
                        /\ q.tasks[t].status = p.tasks[t].status
                        /\ q.tasks[t].attempts = p.tasks[t].attempts
                        /\ q.tasks[t].interventions = p.tasks[t].interventions
      OBVIOUS
    <3> DEFINE t0   == p.tasks[t]
               deps == Repoint(t0.depends_on, s)
    <3>1. t0 \in Task /\ deps \subseteq Slots
      BY <2>1, <2>7, TaskFields
    <3>2. q.tasks[t] = [t0 EXCEPT !.depends_on = deps]
      BY <2>6
    <3> HIDE DEF q, t0, deps
    <3>3. /\ q.tasks[t] \in Task
          /\ q.tasks[t].depends_on = deps
          /\ q.tasks[t].status = t0.status
          /\ q.tasks[t].attempts = t0.attempts
          /\ q.tasks[t].interventions = t0.interventions
      BY <3>1, <3>2 DEF Task
    <3> QED
      BY <3>3 DEF t0, deps
  <2>9. q \in Plan
    <3>1. q = [tasks |-> q.tasks, revisions |-> q.revisions]
      BY DEF InsertRepair
    <3>2. q.tasks \in [Slots -> Task]
      <4>1. q.tasks = [t \in Slots |-> q.tasks[t]]
        BY DEF InsertRepair
      <4>2. \A t \in Slots : q.tasks[t] \in Task
        BY <2>4, <2>5, <2>8
      <4> HIDE DEF q
      <4> QED
        BY <4>1, <4>2
    <3> HIDE DEF q
    <3> QED
      BY <2>1, <2>5, <3>1, <3>2 DEF Plan
  <2> HIDE DEF q
  <2>10. WellFormed(q)
    <3>1. \A t \in Originals : Present(q, t)
      BY <2>2, <2>8, PositionType DEF Sound, WellFormed, Present
    <3>2. ASSUME NEW t \in Slots, NEW d \in q.tasks[t].depends_on
          PROVE  Present(q, d) /\ Position(d) < Position(t)
      <4>1. t # r /\ d \in Repoint(p.tasks[t].depends_on, s)
        BY <2>4, <2>5, <2>8, <3>2
      <4>2. CASE d \in p.tasks[t].depends_on
        <5>1. d \in Slots /\ Present(p, d) /\ Position(d) < Position(t)
          BY <2>1, <4>2, TaskFields DEF Sound, WellFormed
        <5> QED
          BY <2>3, <2>8, <5>1 DEF Present
      <4>3. CASE d \notin p.tasks[t].depends_on
        <5>1. d = r /\ s \in p.tasks[t].depends_on
          BY <4>1, <4>3 DEF Repoint
        <5>2. Position(s) < Position(t)
          BY <5>1 DEF Sound, WellFormed
        <5>3. Position(r) < Position(t)
          BY <2>2, <4>1, <5>2, PositionType
        <5> QED
          BY <2>4, <2>5, <5>1, <5>3 DEF Present
      <4> QED
        BY <4>2, <4>3
    <3> QED
      BY <2>9, <3>1, <3>2 DEF WellFormed
  <2>11. Idle(q)
    BY <2>4, <2>5, <2>8 DEF Idle, StatusOf
  <2>12. Ordered(q)
    BY <2>11 DEF Ordered, Idle
  <2>13. \A t \in Slots : WithinBudget(q.tasks[t])
    BY <2>4, <2>5, <2>8 DEF Sound, WithinBudget, Spent
  <2>14. StatusOf(q, s) = "FAILED"
    BY <2>2, <2>8 DEF StatusOf
  <2>15. Recover(p, s) = q
    BY <1>2 DEF Recover, q
  <2> QED
    BY <2>10, <2>11, <2>12, <2>13, <2>14, <2>15 DEF Sound
<1> QED
  BY <1>1, <1>2

\* intervene on the task in progress: it is forced once more, or it has spent its
\* interventions, fails and is handed to recover.
LEMMA InterveneKeepsSound ==
  ASSUME NEW p, Sound(p), NEW s \in Slots, StatusOf(p, s) = "IN_PROGRESS"
  PROVE  /\ Sound(Intervene(p, s))
         /\ StatusOf(Intervene(p, s), s) \in {"IN_PROGRESS", "FAILED"}
<1> DEFINE t0 == p.tasks[s]
           f0 == [t0 EXCEPT !.interventions = t0.interventions + 1,
                            !.rounds_without_progress = 0,
                            !.reasoning_chars = 0,
                            !.rounds_spent = 0]
           q  == Forced(p, s)
<1>1. p \in Plan /\ t0 \in Task /\ t0.status = "IN_PROGRESS"
  BY TaskFields DEF Sound, WellFormed, StatusOf
<1>2. t0.attempts \in Nat /\ t0.interventions \in Nat /\ ~Spent(t0)
  BY <1>1 DEF Task, Sound, WithinBudget
<1>3. /\ f0 \in Task
      /\ f0.status = "IN_PROGRESS"
      /\ f0.depends_on = t0.depends_on
      /\ f0.attempts = t0.attempts
      /\ f0.interventions = t0.interventions + 1
  <2>1. t0.interventions + 1 \in Nat
    BY <1>2
  <2> HIDE DEF t0
  <2> QED
    BY <1>1, <2>1 DEF Task
<1>4. q = [p EXCEPT !.tasks[s] = f0]
  BY DEF Forced
<1> HIDE DEF t0, f0, q
<1>5. /\ q \in Plan
      /\ q.revisions = p.revisions
      /\ \A t \in Slots : t # s => q.tasks[t] = p.tasks[t]
      /\ q.tasks[s] = f0
  BY <1>1, <1>3, <1>4 DEF Plan
<1>6. CASE q.tasks[s].interventions >= MAX_INTERVENTIONS_PER_TASK
  <2> DEFINE u == [f0 EXCEPT !.status = "FAILED"]
             g == Fail(q, s)
  <2>1. /\ u \in Task
        /\ u.status = "FAILED"
        /\ u.depends_on = t0.depends_on
        /\ u.interventions = t0.interventions + 1
    BY <1>3 DEF Task, Status
  <2>2. g = [q EXCEPT !.tasks[s] = u]
    BY <1>5 DEF Fail, Plan
  <2> HIDE DEF u, g
  <2>3. /\ g \in Plan
        /\ g.revisions = p.revisions
        /\ \A t \in Slots : t # s => g.tasks[t] = p.tasks[t]
        /\ g.tasks[s] = u
    BY <1>5, <2>1, <2>2 DEF Plan
  <2>4. WithinBudget(u)
    BY <1>3, <1>5, <1>6, <2>1 DEF WithinBudget, Spent
  <2>5. Sound(g) /\ StatusOf(g, s) = "FAILED" /\ Idle(g)
    BY <1>1, <2>1, <2>3, <2>4, OneTaskChanges DEF StatusOf, t0
  <2>6. Intervene(p, s) = Recover(g, s)
    BY <1>6 DEF Intervene, q, g
  <2> QED
    BY <2>5, <2>6, RecoverKeepsSound
<1>7. CASE ~(q.tasks[s].interventions >= MAX_INTERVENTIONS_PER_TASK)
  <2>1. WithinBudget(f0)
    BY <1>2, <1>3, <1>5, <1>7, PlanAssumption DEF WithinBudget, Spent
  <2>2. Sound(q) /\ StatusOf(q, s) = "IN_PROGRESS"
    BY <1>1, <1>3, <1>5, <2>1, OneTaskChanges DEF StatusOf, t0
  <2>3. Intervene(p, s) = q
    BY <1>7 DEF Intervene, q
  <2> QED
    BY <2>2, <2>3
<1> QED
  BY <1>6, <1>7

\* on_completion_claim: validation, and recover when it failed the task.
LEMMA ClaimedKeepsSound ==
  ASSUME NEW p, Sound(p), NEW s \in Slots, StatusOf(p, s) = "IN_PROGRESS", NEW passed \in BOOLEAN
  PROVE  Sound(Claimed(p, s, passed))
<1> DEFINE q == RecordValidation(p, s, passed)
<1>1. /\ Sound(q)
      /\ StatusOf(q, s) # "IN_PROGRESS" => Idle(q)
  BY RecordValidationKeepsSound
<1> HIDE DEF q
<1>2. CASE q.tasks[s].status = "FAILED"
  <2>1. Idle(q) /\ StatusOf(q, s) = "FAILED"
    BY <1>1, <1>2 DEF StatusOf
  <2>2. Claimed(p, s, passed) = Recover(q, s)
    BY <1>2 DEF Claimed, q
  <2> QED
    BY <1>1, <2>1, <2>2, RecoverKeepsSound
<1>3. CASE q.tasks[s].status # "FAILED"
  <2>1. Claimed(p, s, passed) = q
    BY <1>3 DEF Claimed, q
  <2> QED
    BY <1>1, <2>1
<1> QED
  BY <1>2, <1>3

\* try_advance after a tools round.
LEMMA TryAdvanceKeepsSound ==
  ASSUME NEW p, Sound(p), NEW s \in Slots, NEW passed \in BOOLEAN
  PROVE  Sound(TryAdvance(p, s, passed))
<1>1. CASE p.tasks[s].status = "IN_PROGRESS" /\ CheckOf[OriginOf(s)] = "cheap" /\ passed
  <2>1. TryAdvance(p, s, passed) = RecordValidation(p, s, TRUE)
    BY <1>1 DEF TryAdvance
  <2>2. StatusOf(p, s) = "IN_PROGRESS"
    BY <1>1 DEF StatusOf
  <2> QED
    BY <2>1, <2>2, RecordValidationKeepsSound
<1>2. CASE ~(p.tasks[s].status = "IN_PROGRESS" /\ CheckOf[OriginOf(s)] = "cheap" /\ passed)
  BY <1>2 DEF TryAdvance
<1> QED
  BY <1>1, <1>2

\* Continue's second chance for a plan that is not being worked on.
LEMMA ReopenKeepsSound ==
  ASSUME NEW p, Sound(p), Idle(p)
  PROVE  Sound(Reopen(p))
<1> DEFINE q == Reopen(p)
<1>1. p \in Plan
  BY DEF Sound, WellFormed
<1>2. ASSUME NEW t \in Slots
      PROVE  /\ q.tasks[t] \in Task
             /\ q.tasks[t].depends_on = p.tasks[t].depends_on
             /\ q.tasks[t].status # "IN_PROGRESS"
             /\ Present(q, t) <=> Present(p, t)
             /\ WithinBudget(q.tasks[t])
  <2> DEFINE t0 == p.tasks[t]
  <2>1. t0 \in Task
    BY <1>1, TaskFields
  <2>2. t0.status # "IN_PROGRESS" /\ WithinBudget(t0)
    BY DEF Idle, StatusOf, Sound
  <2>3. CASE t0.status = "FAILED"
    <3>1. q.tasks[t] = Reopened(t0)
      BY <2>3 DEF Reopen
    <3>2. /\ Reopened(t0) \in Task
          /\ Reopened(t0).depends_on = t0.depends_on
          /\ Reopened(t0).status = "PENDING"
          /\ Reopened(t0).attempts = 0
          /\ Reopened(t0).interventions = 0
      <4> HIDE DEF t0
      <4> QED
        BY <2>1 DEF Reopened, Task, Status
    <3> HIDE DEF q
    <3> QED
      BY <2>3, <3>1, <3>2, PlanAssumption DEF Present, WithinBudget, Spent
  <2>4. CASE t0.status # "FAILED"
    <3>1. q.tasks[t] = t0
      BY <2>4 DEF Reopen
    <3> HIDE DEF q
    <3> QED
      BY <2>1, <2>2, <3>1 DEF Present
  <2> QED
    BY <2>3, <2>4
<1>3. q \in Plan
  <2>1. q = [tasks |-> [t \in Slots |-> q.tasks[t]], revisions |-> 0]
    BY DEF Reopen
  <2> HIDE DEF q
  <2>2. [t \in Slots |-> q.tasks[t]] \in [Slots -> Task]
    BY <1>2
  <2> QED
    BY <2>1, <2>2 DEF Plan
<1> HIDE DEF q
<1>4. WellFormed(q)
  <2>1. \A t \in Slots : p.tasks[t].depends_on \subseteq Slots
    BY <1>1, TaskFields
  <2> QED
    BY <1>2, <1>3, <2>1, PositionType DEF Sound, WellFormed
<1>5. Ordered(q)
  BY <1>2 DEF Ordered, StatusOf
<1>6. Sound(q)
  BY <1>2, <1>4, <1>5 DEF Sound
<1> QED
  BY <1>6 DEF q

\* What plan_builder hands over.
LEMMA BuiltPlanIsSound ==
  ASSUME NEW chained \in SUBSET (Originals \ {1})
  PROVE  Sound(BuiltPlan(chained)) /\ Idle(BuiltPlan(chained))
<1> DEFINE q == BuiltPlan(chained)
<1>1. \A t \in chained : t \in Originals /\ t - 1 \in Originals /\ t - 1 \in Slots
  BY PlanAssumption DEF Originals, Slots
<1>2. ASSUME NEW st \in Status, NEW deps \in SUBSET Slots
      PROVE  /\ NewTask(st, deps) \in Task
             /\ NewTask(st, deps).status = st
             /\ NewTask(st, deps).depends_on = deps
             /\ NewTask(st, deps).attempts = 0
             /\ NewTask(st, deps).interventions = 0
  BY DEF NewTask, Task
<1>3. ASSUME NEW t \in Slots
      PROVE  /\ q.tasks[t] \in Task
             /\ q.tasks[t].depends_on = IF t \in chained THEN {t - 1} ELSE {}
             /\ q.tasks[t].status = IF t \in Originals THEN "PENDING" ELSE "ABSENT"
             /\ WithinBudget(q.tasks[t])
  <2> DEFINE st   == IF t \in Originals THEN "PENDING" ELSE "ABSENT"
             deps == IF t \in chained THEN {t - 1} ELSE {}
  <2>1. st \in Status /\ deps \in SUBSET Slots /\ st \notin {"IN_PROGRESS", "FAILED"}
    BY <1>1 DEF Status
  <2>2. q.tasks[t] = NewTask(st, deps)
    BY <1>1 DEF BuiltPlan
  <2> HIDE DEF q, st, deps
  <2>3. WithinBudget(q.tasks[t])
    BY <1>2, <2>1, <2>2, PlanAssumption DEF WithinBudget, Spent
  <2> QED
    BY <1>2, <2>1, <2>2, <2>3 DEF st, deps
<1>4. q \in Plan
  <2>1. q = [tasks |-> [t \in Slots |-> q.tasks[t]], revisions |-> 0]
    BY DEF BuiltPlan
  <2> HIDE DEF q
  <2>2. [t \in Slots |-> q.tasks[t]] \in [Slots -> Task]
    BY <1>3
  <2> QED
    BY <2>1, <2>2 DEF Plan
<1> HIDE DEF q
<1>5. WellFormed(q)
  <2>1. \A t \in Originals : Present(q, t)
    BY <1>3, PositionType DEF Present
  <2>2. ASSUME NEW t \in Slots, NEW d \in q.tasks[t].depends_on
        PROVE  Present(q, d) /\ Position(d) < Position(t)
    <3>1. t \in chained /\ d = t - 1
      <4>1. CASE t \in chained
        <5>1. q.tasks[t].depends_on = {t - 1}
          BY <1>3, <4>1
        <5> QED
          BY <2>2, <4>1, <5>1
      <4>2. CASE t \notin chained
        <5>1. q.tasks[t].depends_on = {}
          BY <1>3, <4>2
        <5> QED
          BY <2>2, <5>1
      <4> QED
        BY <4>1, <4>2
    <3>2. d \in Originals /\ t \in Originals
      BY <1>1, <3>1
    <3>3. Position(d) < Position(t)
      BY <3>1, <3>2, PlanAssumption DEF Position, IsRecovery, Originals
    <3> QED
      BY <2>1, <3>2, <3>3
  <2> QED
    BY <1>4, <2>1, <2>2 DEF WellFormed
<1>6. Idle(q) /\ Ordered(q)
  BY <1>3 DEF Idle, Ordered, StatusOf
<1>7. Sound(q)
  BY <1>3, <1>5, <1>6 DEF Sound
<1> QED
  BY <1>6, <1>7 DEF q

-----------------------------------------------------------------------------
(* Copies of a plan that agree.                                            *)

\* Agreeing plans have the same statuses.
LEMMA SameStatus ==
  ASSUME NEW p \in Plan, NEW q \in Plan, SameDecisions(p, q)
  PROVE  \A s \in Slots : StatusOf(p, s) = StatusOf(q, s)
<1> SUFFICES ASSUME NEW s \in Slots PROVE StatusOf(p, s) = StatusOf(q, s)
  OBVIOUS
<1>1. /\ p.tasks[s] \in Task /\ q.tasks[s] \in Task
      /\ [p.tasks[s] EXCEPT !.reasoning_chars = 0] = [q.tasks[s] EXCEPT !.reasoning_chars = 0]
  BY TaskFields DEF SameDecisions
<1> QED
  BY <1>1 DEF Task, StatusOf

\* The charge of a cut does not count as a decision.
LEMMA ChargeIsNoDecision ==
  ASSUME NEW p \in Plan, NEW q \in Plan, SameDecisions(p, q), NEW s \in Slots, NEW chars \in Nat
  PROVE  SameDecisions([p EXCEPT !.tasks[s].reasoning_chars = @ + chars], q)
<1> DEFINE r == [p EXCEPT !.tasks[s].reasoning_chars = @ + chars]
<1>1. /\ r.revisions = p.revisions
      /\ \A t \in Slots : t # s => r.tasks[t] = p.tasks[t]
      /\ r.tasks[s] = [p.tasks[s] EXCEPT !.reasoning_chars = @ + chars]
  BY DEF Plan
<1>2. [r.tasks[s] EXCEPT !.reasoning_chars = 0] = [p.tasks[s] EXCEPT !.reasoning_chars = 0]
  BY <1>1, TaskFields DEF Task
<1> HIDE DEF r
<1>3. SameDecisions(r, q)
  <2>1. r.revisions = q.revisions
    BY <1>1 DEF SameDecisions
  <2>2. \A t \in Slots : [r.tasks[t] EXCEPT !.reasoning_chars = 0]
                         = [q.tasks[t] EXCEPT !.reasoning_chars = 0]
    BY <1>1, <1>2 DEF SameDecisions
  <2> QED
    BY <2>1, <2>2 DEF SameDecisions
<1> QED
  BY <1>3 DEF r

-----------------------------------------------------------------------------
(* The inductive invariant of the round loop.                              *)

\* The task of a round was started before the stream; intervene() may have
\* abandoned it since.
ActiveIsStarted ==
  phase = "stream" /\ active # NoTask => StatusOf(plan, active) \in {"IN_PROGRESS", "FAILED"}

Reopenable == {"plan_blocked", "tasks_failed"}

\* A job that Continue would reopen the plan of has nothing in progress.
ReopenableIsIdle ==
  /\ job \in Reopenable => Idle(plan)
  /\ disk.job \in Reopenable => Idle(disk.plan)

IInv ==
  /\ TypeOK
  /\ Sound(plan) /\ Sound(jobPlan) /\ Sound(disk.plan)
  /\ SameDecisions(plan, jobPlan)
  /\ ActiveIsStarted
  /\ ReopenableIsIdle

LEMMA InitIInv == Init => IInv
<1> SUFFICES ASSUME Init PROVE IInv
  OBVIOUS
<1>1. PICK chained \in SUBSET (Originals \ {1}) : plan = BuiltPlan(chained)
  BY DEF Init
<1>2. Sound(plan)
  BY <1>1, BuiltPlanIsSound
<1>3. plan \in Plan
  BY <1>2 DEF Sound, WellFormed
<1>4. TypeOK
  BY <1>3, ControllerAssumption, PlanAssumption DEF Init, TypeOK, JobState
<1>5. SameDecisions(plan, jobPlan)
  BY DEF Init, SameDecisions
<1>6. ActiveIsStarted /\ ReopenableIsIdle
  BY DEF Init, ActiveIsStarted, ReopenableIsIdle, Reopenable
<1> QED
  BY <1>2, <1>4, <1>5, <1>6 DEF Init, IInv

\* The end of any round: it is enough that the plan it leaves is sound, agrees
\* with what is checkpointed, and is idle if the job ends for Continue to reopen.
LEMMA EndRoundKeepsIInv ==
  ASSUME IInv, NEW p, NEW j, NEW state \in JobState,
         Sound(p), Sound(j), SameDecisions(p, j),
         state \in Reopenable => Idle(p),
         EndRound(p, j, state),
         recent' \in Seq(Signal) /\ Len(recent') <= Window
  PROVE  IInv'
<1>1. p \in Plan /\ j \in Plan
  BY DEF Sound, WellFormed
<1>2. TypeOK'
  BY <1>1 DEF IInv, TypeOK, EndRound
<1>3. Idle(p) => Idle(j)
  BY <1>1, SameStatus DEF Idle
<1>4. ActiveIsStarted' /\ ReopenableIsIdle'
  BY <1>3 DEF EndRound, ActiveIsStarted, ReopenableIsIdle
<1> QED
  BY <1>2, <1>4 DEF IInv, EndRound

\* Entering the loop with a sound plan.
LEMMA EnterKeepsIInv ==
  ASSUME IInv, NEW p, Sound(p), Enter(p), continues' \in 0 .. MaxContinues,
         disk' = disk \/ disk' = [plan |-> p, job |-> "running"]
  PROVE  IInv'
<1>1. p \in Plan
  BY DEF Sound, WellFormed
<1>2. disk' \in [plan : Plan, job : JobState] /\ Sound(disk'.plan)
  BY <1>1 DEF IInv, TypeOK, JobState
<1>3. TypeOK'
  BY <1>1, <1>2, PlanAssumption DEF TypeOK, Enter, JobState
<1>4. SameDecisions(p, p)
  BY DEF SameDecisions
<1>5. ActiveIsStarted' /\ ReopenableIsIdle'
  BY DEF IInv, Enter, ActiveIsStarted, ReopenableIsIdle, Reopenable
<1> QED
  BY <1>2, <1>3, <1>4, <1>5 DEF IInv, Enter

LEMMA RememberType ==
  ASSUME NEW rec \in Seq(Signal), Len(rec) <= Window, NEW sig \in Signal
  PROVE  Remember(rec, sig) \in Seq(Signal) /\ Len(Remember(rec, sig)) <= Window
<1>1. CASE Len(rec) = Window
  <2>1. rec # <<>> /\ Tail(rec) \in Seq(Signal) /\ Len(Tail(rec)) = Len(rec) - 1
    BY <1>1, PlanAssumption
  <2> QED
    BY <1>1, <2>1, PlanAssumption DEF Remember
<1>2. CASE Len(rec) # Window
  BY <1>2, PlanAssumption DEF Remember
<1> QED
  BY <1>1, <1>2

-----------------------------------------------------------------------------
(* Every step keeps the invariant.                                         *)

LEMMA SelectTaskKeepsIInv ==
  ASSUME IInv, SelectTask
  PROVE  IInv'
<1> DEFINE s        == Current(plan)
           starting == plan.tasks[s].status # "IN_PROGRESS"
           begun    == Begin(plan, s)
           window   == IF starting THEN <<>> ELSE recent
           stuck    == NeedsIntervention(begun, s, window)
           next     == IF stuck THEN Intervene(begun, s) ELSE begun
<1>1. /\ s # NoTask
      /\ plan' = next
      /\ jobPlan' = IF starting \/ stuck THEN next ELSE jobPlan
      /\ recent' = IF stuck THEN <<>> ELSE window
      /\ active' = s /\ phase' = "stream"
      /\ UNCHANGED <<disk, job, continues>>
      /\ job = "running"
  BY DEF SelectTask, AtTop
<1>2. s \in Slots /\ plan \in Plan
  BY <1>1, CurrentFindsWork DEF IInv, Sound, WellFormed
<1>3. Sound(begun) /\ StatusOf(begun, s) = "IN_PROGRESS"
  BY <1>1, BeginKeepsSound DEF IInv
<1>4. Sound(next) /\ StatusOf(next, s) \in {"IN_PROGRESS", "FAILED"}
  <2> HIDE DEF begun, s, stuck
  <2>1. Sound(Intervene(begun, s)) /\ StatusOf(Intervene(begun, s), s) \in {"IN_PROGRESS", "FAILED"}
    BY <1>2, <1>3, InterveneKeepsSound
  <2> QED
    BY <1>3, <2>1
<1>5. Sound(jobPlan') /\ SameDecisions(plan', jobPlan')
  <2>1. CASE starting \/ stuck
    <3>1. jobPlan' = next
      BY <1>1, <2>1
    <3> QED
      BY <1>1, <1>4, <3>1 DEF SameDecisions
  <2>2. CASE ~(starting \/ stuck)
    <3>1. begun = plan
      BY <1>2, <2>2 DEF Begin, Plan, Task
    <3>2. plan' = plan /\ jobPlan' = jobPlan
      BY <1>1, <2>2, <3>1
    <3> QED
      BY <3>2 DEF IInv
  <2> QED
    BY <2>1, <2>2
<1>6. recent' \in Seq(Signal) /\ Len(recent') <= Window
  BY <1>1, PlanAssumption DEF IInv, TypeOK
<1> HIDE DEF s, next, starting, begun, window, stuck
<1>7. plan' \in Plan /\ jobPlan' \in Plan
  BY <1>1, <1>4, <1>5 DEF Sound, WellFormed
<1>8. TypeOK'
  BY <1>1, <1>2, <1>6, <1>7 DEF IInv, TypeOK
<1>9. ActiveIsStarted'
  BY <1>1, <1>4 DEF ActiveIsStarted
<1>10. ReopenableIsIdle'
  BY <1>1 DEF IInv, ReopenableIsIdle, Reopenable
<1> QED
  BY <1>1, <1>4, <1>5, <1>8, <1>9, <1>10 DEF IInv

LEMMA NextKeepsIInv == IInv /\ [Next]_vars => IInv'
<1> SUFFICES ASSUME IInv, [Next]_vars PROVE IInv'
  OBVIOUS
<1> USE DEF JobState, Continuable
<1>1. /\ plan \in Plan /\ jobPlan \in Plan
      /\ Sound(plan) /\ Sound(jobPlan) /\ SameDecisions(plan, jobPlan) /\ SameDecisions(plan, plan)
      /\ recent \in Seq(Signal) /\ Len(recent) <= Window
      /\ job \in JobState
      /\ active \in Slots \cup {NoTask}
  BY DEF IInv, TypeOK, SameDecisions
<1>2. Streaming /\ active # NoTask =>
        active \in Slots /\ StatusOf(plan, active) \in {"IN_PROGRESS", "FAILED"}
  BY <1>1 DEF Streaming, IInv, ActiveIsStarted
<1>3. ASSUME Current(plan) = NoTask PROVE Idle(plan)
  <2>1. Remaining(plan) = {}
    BY <1>1, <1>3, CurrentFindsWork
  <2> QED
    BY <2>1 DEF Remaining, InStatus, Idle, StatusOf
<1>4. CASE SelectTask
  BY <1>4, SelectTaskKeepsIInv
<1>5. CASE SelectNothing
  BY <1>1, <1>5 DEF SelectNothing, AtTop, IInv, TypeOK, ActiveIsStarted, ReopenableIsIdle, Reopenable
<1>6. CASE PlanBlocked
  <2>1. Idle(plan)
    BY <1>3, <1>6 DEF PlanBlocked
  <2> QED
    BY <1>1, <1>6, <2>1, EndRoundKeepsIInv DEF PlanBlocked
<1>7. CASE TasksFailed
  <2>1. Idle(plan)
    BY <1>3, <1>7 DEF TasksFailed
  <2> QED
    BY <1>1, <1>7, <2>1, EndRoundKeepsIInv DEF TasksFailed
<1>8. CASE OutOfRounds
  BY <1>1, <1>8, EndRoundKeepsIInv DEF OutOfRounds, Reopenable
<1>9. CASE Cancelled
  BY <1>1, <1>9, EndRoundKeepsIInv DEF Cancelled, Reopenable
<1>10. CASE Cut
  <2>1. PICK chars \in 0 .. RoundChars :
          EndRound(IF active = NoTask THEN plan
                   ELSE [plan EXCEPT !.tasks[active].reasoning_chars = @ + chars],
                   jobPlan, "running")
    BY <1>10 DEF Cut
  <2> DEFINE p == [plan EXCEPT !.tasks[active].reasoning_chars = @ + chars]
  <2>2. chars \in Nat
    BY ControllerAssumption
  <2>3. recent' = recent /\ Streaming
    BY <1>10 DEF Cut
  <2>4. CASE active = NoTask
    <3>1. EndRound(plan, jobPlan, "running")
      BY <2>1, <2>4
    <3> QED
      BY <1>1, <2>3, <3>1, EndRoundKeepsIInv DEF Reopenable
  <2>5. CASE active # NoTask
    <3>1. EndRound(p, jobPlan, "running")
      BY <2>1, <2>5
    <3>2. Sound(p)
      BY <1>1, <1>2, <2>2, <2>3, <2>5, ChargeKeepsSound
    <3>3. SameDecisions(p, jobPlan)
      BY <1>1, <1>2, <2>2, <2>3, <2>5, ChargeIsNoDecision
    <3> HIDE DEF p
    <3> QED
      BY <1>1, <2>3, <3>1, <3>2, <3>3, EndRoundKeepsIInv DEF Reopenable
  <2> QED
    BY <2>4, <2>5
<1>11. CASE Stall
  BY <1>1, <1>11, EndRoundKeepsIInv DEF Stall, Reopenable
<1>12. CASE ToolsRound
  <2>1. PICK moved \in BOOLEAN, passed \in BOOLEAN, tools \in SUBSET Tools \ {{}},
             chars \in 0 .. RoundChars :
          LET sig == [moved |-> moved, tools |-> tools]
          IN  IF active = NoTask
              THEN /\ EndRound(plan, jobPlan, "running")
                   /\ UNCHANGED recent
              ELSE /\ EndRoundSynced(
                        TryAdvance(RecordRound(plan, active, MadeProgress(sig), chars), active, passed),
                        "running")
                   /\ recent' = Remember(recent, sig)
    BY <1>12 DEF ToolsRound
  <2> DEFINE sig == [moved |-> moved, tools |-> tools]
             q   == RecordRound(plan, active, MadeProgress(sig), chars)
             p   == TryAdvance(q, active, passed)
  <2>2. chars \in Nat /\ sig \in Signal /\ MadeProgress(sig) \in BOOLEAN
    <3>1. chars \in Nat
      BY ControllerAssumption
    <3>2. sig \in Signal
      BY DEF Signal
    <3>3. MadeProgress(sig) \in BOOLEAN
      BY DEF MadeProgress
    <3> QED
      BY <3>1, <3>2, <3>3
  <2>3. CASE active = NoTask
    BY <1>1, <2>1, <2>3, EndRoundKeepsIInv DEF Reopenable
  <2>4. CASE active # NoTask
    <3>1. active \in Slots /\ StatusOf(plan, active) # "ABSENT"
      BY <1>2, <1>12, <2>4 DEF ToolsRound
    <3>2. EndRound(p, p, "running") /\ recent' = Remember(recent, sig)
      BY <2>1, <2>4 DEF EndRoundSynced
    <3> HIDE DEF sig
    <3>3. Sound(q)
      BY <1>1, <2>2, <3>1, RecordRoundKeepsSound
    <3> HIDE DEF q
    <3>4. Sound(p)
      BY <3>1, <3>3, TryAdvanceKeepsSound
    <3>5. recent' \in Seq(Signal) /\ Len(recent') <= Window
      BY <1>1, <2>2, <3>2, RememberType
    <3> HIDE DEF p
    <3>6. SameDecisions(p, p)
      BY DEF SameDecisions
    <3> QED
      BY <3>2, <3>4, <3>5, <3>6, EndRoundKeepsIInv DEF Reopenable
  <2> QED
    BY <2>3, <2>4
<1>13. CASE ClaimRound
  <2>1. PICK moved \in BOOLEAN, passed \in Verdicts(active), chars \in 0 .. RoundChars :
          LET sig == [moved |-> moved, tools |-> {}]
              p   == Claimed(RecordRound(plan, active, MadeProgress(sig), chars), active, passed)
          IN  /\ recent' = Remember(recent, sig)
              /\ \E state \in AfterClaim(p, active) : EndRoundSynced(p, state)
    BY <1>13 DEF ClaimRound
  <2> DEFINE sig == [moved |-> moved, tools |-> {}]
             q   == RecordRound(plan, active, MadeProgress(sig), chars)
             p   == Claimed(q, active, passed)
  <2>2. chars \in Nat /\ sig \in Signal /\ MadeProgress(sig) \in BOOLEAN /\ passed \in BOOLEAN
    <3>1. chars \in Nat
      BY ControllerAssumption
    <3>2. sig \in Signal
      BY DEF Signal
    <3>3. MadeProgress(sig) \in BOOLEAN
      BY DEF MadeProgress
    <3>4. passed \in BOOLEAN
      BY DEF Verdicts
    <3> QED
      BY <3>1, <3>2, <3>3, <3>4
  <2>3. PICK state \in AfterClaim(p, active) : EndRound(p, p, state) /\ recent' = Remember(recent, sig)
    BY <2>1 DEF EndRoundSynced
  <2>4. state \in {"running", "done"}
    BY <2>3 DEF AfterClaim, Gates
  <2>5. active \in Slots /\ StatusOf(plan, active) = "IN_PROGRESS"
    BY <1>2, <1>13 DEF ClaimRound, ClaimIsHeard, Terminal, TERMINAL_STATUSES, StatusOf
  <2> HIDE DEF sig
  <2>6. Sound(q) /\ StatusOf(q, active) = "IN_PROGRESS"
    BY <1>1, <2>2, <2>5, RecordRoundKeepsSound
  <2> HIDE DEF q
  <2>7. Sound(p)
    BY <2>2, <2>5, <2>6, ClaimedKeepsSound
  <2>8. recent' \in Seq(Signal) /\ Len(recent') <= Window
    BY <1>1, <2>2, <2>3, RememberType
  <2> HIDE DEF p
  <2>9. SameDecisions(p, p)
    BY DEF SameDecisions
  <2> QED
    BY <2>3, <2>4, <2>7, <2>8, <2>9, EndRoundKeepsIInv DEF Reopenable
<1>14. CASE UnheardRound
  BY <1>1, <1>14, EndRoundKeepsIInv DEF UnheardRound, Gates, Reopenable
<1>15. CASE AutoContinue
  BY <1>1, <1>15, EnterKeepsIInv DEF AutoContinue, IInv, TypeOK
<1>16. CASE Continue
  <2>1. continues' \in 0 .. MaxContinues /\ disk' = disk
    BY <1>16, ControllerAssumption DEF Continue, IInv, TypeOK
  <2>2. CASE job \in {"plan_blocked", "tasks_failed"}
    <3>1. Idle(jobPlan)
      BY <1>1, <2>2, SameStatus DEF IInv, ReopenableIsIdle, Reopenable, Idle
    <3>2. Sound(Reopen(jobPlan)) /\ Enter(Reopen(jobPlan))
      BY <1>1, <1>16, <2>2, <3>1, ReopenKeepsSound DEF Continue
    <3> QED
      BY <2>1, <3>2, EnterKeepsIInv
  <2>3. CASE job \notin {"plan_blocked", "tasks_failed"}
    <3>1. Enter(jobPlan)
      BY <1>16, <2>3 DEF Continue
    <3> QED
      BY <1>1, <2>1, <3>1, EnterKeepsIInv
  <2> QED
    BY <2>2, <2>3
<1>17. CASE CrashAndRestart
  <2>1. SameDecisions(disk.plan, disk.plan)
    BY DEF SameDecisions
  <2> QED
    BY <1>17, <2>1, PlanAssumption
    DEF CrashAndRestart, IInv, TypeOK, ActiveIsStarted, ReopenableIsIdle, Reopenable
<1>18. CASE UNCHANGED vars
  BY <1>18 DEF vars, IInv, TypeOK, ActiveIsStarted, ReopenableIsIdle
<1> QED
  BY <1>4, <1>5, <1>6, <1>7, <1>8, <1>9, <1>10, <1>11, <1>12, <1>13, <1>14, <1>15, <1>16,
     <1>17, <1>18 DEF Next, RoundNext

-----------------------------------------------------------------------------
(* Repairs, and what has come to an end.                                   *)

RepairedTasks(p) == {k \in Originals : Present(p, RepairOf(k))}

\* What has come to an end stays as it is.
EndsStay(p, q) == \A t \in Slots : Terminal(p, t) => StatusOf(q, t) = StatusOf(p, t)

SameTasks(p, q) ==
  q.revisions = p.revisions /\ \A t \in Slots : Present(q, t) <=> Present(p, t)

\* The repair of task k is added, while the plan may be revised and k's objective has none.
Adds(p, q, k) ==
  /\ CanRevise(p) /\ q.revisions = p.revisions + 1
  /\ ~Repaired(p, k) /\ RepairedTasks(q) = RepairedTasks(p) \cup {k}

\* What a step may do to a plan
Evolves(p, q) ==
  EndsStay(p, q) /\ (SameTasks(p, q) \/ \E k \in Originals : Adds(p, q, k))

\* The allowance of a plan after c clicks on Continue
Frugal(p, c) ==
  /\ p.revisions <= MAX_PLAN_REVISIONS
  /\ Cardinality(RepairedTasks(p)) <= p.revisions + MAX_PLAN_REVISIONS * c
  /\ \A k, j \in RepairedTasks(p) : Objective[k] = Objective[j] => k = j

\* Repairs are counted.
LEMMA RepairsAreFinite ==
  ASSUME NEW p
  PROVE  IsFiniteSet(RepairedTasks(p)) /\ Cardinality(RepairedTasks(p)) \in Nat
<1>1. IsFiniteSet(Originals)
  BY PlanAssumption, FS_Interval DEF Originals
<1>2. RepairedTasks(p) \in SUBSET Originals
  BY DEF RepairedTasks
<1> QED
  BY <1>1, <1>2, FS_Subset, FS_CardinalityType

\* A step keeps the allowance; c is a number of clicks.
LEMMA EvolvesKeepsFrugal ==
  ASSUME NEW p \in Plan, NEW q \in Plan, Evolves(p, q), NEW c \in Nat, Frugal(p, c)
  PROVE  Frugal(q, c)
<1> DEFINE S == RepairedTasks(p)
           T == RepairedTasks(q)
           allowance == MAX_PLAN_REVISIONS * c
<1>1. /\ p.revisions \in Nat /\ q.revisions \in Nat /\ MAX_PLAN_REVISIONS \in Nat
      /\ allowance \in Nat
  BY PlanAssumption DEF Plan
<1>2. IsFiniteSet(S) /\ Cardinality(S) \in Nat
  BY RepairsAreFinite
<1>3. CASE SameTasks(p, q)
  <2>1. T = S
    BY <1>3, PositionType DEF SameTasks, RepairedTasks
  <2> QED
    BY <1>3, <2>1 DEF SameTasks, Frugal
<1>4. ASSUME NEW k \in Originals, Adds(p, q, k) PROVE Frugal(q, c)
  <2>1. /\ T = S \cup {k} /\ q.revisions = p.revisions + 1
        /\ p.revisions < MAX_PLAN_REVISIONS /\ ~Repaired(p, k)
    BY <1>4 DEF Adds, CanRevise
  <2>2. \A j \in S : Objective[j] # Objective[k]
    BY <2>1 DEF RepairedTasks, Repaired
  <2>3. k \notin S
    BY <2>2
  <2>4. Cardinality(T) = Cardinality(S) + 1
    BY <1>2, <2>1, <2>3, FS_AddElement
  <2>5. Cardinality(T) <= q.revisions + allowance
    <3> HIDE DEF S, T, allowance
    <3>1. Cardinality(S) <= p.revisions + allowance
      BY DEF Frugal, S, allowance
    <3> QED
      BY <1>1, <1>2, <2>1, <2>4, <3>1
  <2>6. q.revisions <= MAX_PLAN_REVISIONS
    BY <1>1, <2>1
  <2>7. \A i, j \in T : Objective[i] = Objective[j] => i = j
    BY <2>1, <2>2 DEF Frugal
  <2> QED
    BY <2>5, <2>6, <2>7 DEF Frugal
<1> QED
  BY <1>3, <1>4 DEF Evolves

\* Plans that differ in no decision have the same repairs.
LEMMA AgreeingEvolves ==
  ASSUME NEW p \in Plan, NEW q \in Plan, SameDecisions(p, q)
  PROVE  Evolves(p, q)
BY SameStatus DEF SameDecisions, Evolves, EndsStay, SameTasks, Present, StatusOf

\* A change to the task in progress, or to counters of one, ends nothing twice and
\* repairs nothing.
LEMMA ChangeIsQuiet ==
  ASSUME NEW p, NEW q, NEW s \in Slots, q.revisions = p.revisions,
         \A t \in Slots : t # s => q.tasks[t] = p.tasks[t],
         \/ StatusOf(q, s) = StatusOf(p, s)
         \/ StatusOf(p, s) \in {"PENDING", "IN_PROGRESS"} /\ StatusOf(q, s) # "ABSENT"
  PROVE  EndsStay(p, q) /\ SameTasks(p, q)
BY DEF EndsStay, SameTasks, StatusOf, Present, Terminal, TERMINAL_STATUSES

\* Quiet changes come before what else a step does to the plan.
LEMMA QuietFirst ==
  ASSUME NEW p, NEW q, NEW r, EndsStay(p, q), SameTasks(p, q), Evolves(q, r)
  PROVE  Evolves(p, r)
<1>1. EndsStay(p, r)
  BY DEF Evolves, EndsStay, Terminal, StatusOf
<1>2. CASE SameTasks(q, r)
  BY <1>1, <1>2 DEF Evolves, SameTasks
<1>3. ASSUME NEW k \in Originals, Adds(q, r, k) PROVE Adds(p, r, k)
  BY <1>3, PositionType DEF Adds, CanRevise, Repaired, RepairedTasks, SameTasks
<1> QED
  BY <1>1, <1>2, <1>3 DEF Evolves

\* recover() adds one repair at most, behind a task whose objective has none.
LEMMA RecoverEvolves ==
  ASSUME NEW p \in Plan, NEW s \in Slots
  PROVE  Evolves(p, Recover(p, s))
<1>1. CASE IsRecovery(s) \/ Repaired(p, s) \/ ~CanRevise(p)
  <2>1. Recover(p, s) = p
    BY <1>1 DEF Recover
  <2> QED
    BY <2>1 DEF Evolves, EndsStay, SameTasks
<1>2. CASE ~(IsRecovery(s) \/ Repaired(p, s) \/ ~CanRevise(p))
  <2> DEFINE q == InsertRepair(p, s)
             n == RepairOf(s)
  <2>1. Recover(p, s) = q
    BY <1>2 DEF Recover
  <2>2. s \in Originals /\ n \in Slots /\ StatusOf(p, n) = "ABSENT"
    BY <1>2, PositionType DEF Repaired, Present, StatusOf
  <2>3. /\ q.revisions = p.revisions + 1
        /\ StatusOf(q, n) = "PENDING"
        /\ \A t \in Slots : t # n => StatusOf(q, t) = StatusOf(p, t)
    <3>1. \A t \in Slots : t # n => q.tasks[t] = [p.tasks[t] EXCEPT !.depends_on = Repoint(@, s)]
      BY DEF InsertRepair
    <3>2. q.tasks[n] = RepairTask /\ RepairTask.status = "PENDING"
      BY <2>2 DEF InsertRepair, RepairTask, NewTask
    <3>3. \A t \in Slots : [p.tasks[t] EXCEPT !.depends_on = Repoint(@, s)].status = p.tasks[t].status
      BY TaskFields DEF Task
    <3> QED
      BY <3>1, <3>2, <3>3 DEF InsertRepair, StatusOf
  <2> HIDE DEF q
  <2>4. EndsStay(p, q)
    BY <2>2, <2>3 DEF EndsStay, Terminal, TERMINAL_STATUSES, StatusOf
  <2>5. RepairedTasks(q) = RepairedTasks(p) \cup {s}
    <3>1. \A k \in Originals : RepairOf(k) \in Slots
      BY PositionType
    <3>2. \A k \in Originals : RepairOf(k) = n => k = s
      <4>1. NTasks \in Nat /\ \A k \in Originals : k \in Nat
        BY PlanAssumption DEF Originals
      <4> QED
        BY <2>2, <4>1 DEF RepairOf
    <3>3. \A k \in Originals : k # s => (Present(q, RepairOf(k)) <=> Present(p, RepairOf(k)))
      BY <2>3, <3>1, <3>2 DEF Present, StatusOf
    <3>4. Present(q, RepairOf(s))
      BY <2>3 DEF Present, StatusOf
    <3> QED
      BY <2>2, <3>3, <3>4 DEF RepairedTasks
  <2>6. Adds(p, q, s)
    BY <1>2, <2>3, <2>5 DEF Adds
  <2> QED
    BY <2>1, <2>2, <2>4, <2>6 DEF Evolves
<1> QED
  BY <1>1, <1>2

\* begin_task, record_round, the charge of a cut and a forced intervention leave
\* the status of every finished task alone.
LEMMA BeginIsQuiet ==
  ASSUME NEW p \in Plan, NEW s \in Slots, StatusOf(p, s) \in {"PENDING", "IN_PROGRESS"}
  PROVE  EndsStay(p, Begin(p, s)) /\ SameTasks(p, Begin(p, s))
<1> DEFINE q == Begin(p, s)
<1>1. /\ q.revisions = p.revisions
      /\ StatusOf(q, s) = "IN_PROGRESS"
      /\ \A t \in Slots : t # s => q.tasks[t] = p.tasks[t]
  BY DEF Begin, Plan, Task, StatusOf
<1> HIDE DEF q
<1>2. EndsStay(p, q) /\ SameTasks(p, q)
  BY <1>1, ChangeIsQuiet
<1> QED
  BY <1>2 DEF q

LEMMA RecordRoundIsQuiet ==
  ASSUME NEW p \in Plan, NEW s \in Slots, NEW progress, NEW chars
  PROVE  EndsStay(p, RecordRound(p, s, progress, chars)) /\ SameTasks(p, RecordRound(p, s, progress, chars))
<1> DEFINE q == RecordRound(p, s, progress, chars)
<1>1. /\ q.revisions = p.revisions
      /\ StatusOf(q, s) = StatusOf(p, s)
      /\ \A t \in Slots : t # s => q.tasks[t] = p.tasks[t]
  BY DEF RecordRound, Plan, Task, StatusOf
<1> HIDE DEF q
<1>2. EndsStay(p, q) /\ SameTasks(p, q)
  BY <1>1, ChangeIsQuiet
<1> QED
  BY <1>2 DEF q

LEMMA ChargeIsQuiet ==
  ASSUME NEW p \in Plan, NEW s \in Slots, NEW chars
  PROVE  LET q == [p EXCEPT !.tasks[s].reasoning_chars = @ + chars]
         IN  EndsStay(p, q) /\ SameTasks(p, q)
<1> DEFINE q == [p EXCEPT !.tasks[s].reasoning_chars = @ + chars]
<1>1. /\ q.revisions = p.revisions
      /\ StatusOf(q, s) = StatusOf(p, s)
      /\ \A t \in Slots : t # s => q.tasks[t] = p.tasks[t]
  BY DEF Plan, Task, StatusOf
<1> HIDE DEF q
<1>2. EndsStay(p, q) /\ SameTasks(p, q)
  BY <1>1, ChangeIsQuiet
<1> QED
  BY <1>2 DEF q

LEMMA ForcedIsQuiet ==
  ASSUME NEW p \in Plan, NEW s \in Slots
  PROVE  /\ Forced(p, s) \in Plan
         /\ StatusOf(Forced(p, s), s) = StatusOf(p, s)
         /\ EndsStay(p, Forced(p, s)) /\ SameTasks(p, Forced(p, s))
<1> DEFINE q  == Forced(p, s)
           t0 == p.tasks[s]
           f0 == [t0 EXCEPT !.interventions = t0.interventions + 1,
                            !.rounds_without_progress = 0,
                            !.reasoning_chars = 0,
                            !.rounds_spent = 0]
<1>1. t0 \in Task /\ t0.interventions + 1 \in Nat
  BY TaskFields
<1>2. q = [p EXCEPT !.tasks[s] = f0]
  BY DEF Forced
<1>3. f0 \in Task /\ f0.status = t0.status
  <2> HIDE DEF t0
  <2> QED
    BY <1>1 DEF Task
<1> HIDE DEF q, f0
<1>4. /\ q \in Plan
      /\ q.revisions = p.revisions
      /\ StatusOf(q, s) = StatusOf(p, s)
      /\ \A t \in Slots : t # s => q.tasks[t] = p.tasks[t]
  BY <1>2, <1>3 DEF Plan, StatusOf
<1>5. EndsStay(p, q) /\ SameTasks(p, q)
  BY <1>4, ChangeIsQuiet
<1> QED
  BY <1>4, <1>5 DEF q

\* A task may end while it is worked on.
LEMMA FailIsQuiet ==
  ASSUME NEW p \in Plan, NEW s \in Slots, StatusOf(p, s) = "IN_PROGRESS"
  PROVE  Fail(p, s) \in Plan /\ EndsStay(p, Fail(p, s)) /\ SameTasks(p, Fail(p, s))
<1> DEFINE q == Fail(p, s)
<1>1. /\ q \in Plan
      /\ q.revisions = p.revisions
      /\ StatusOf(q, s) = "FAILED"
      /\ \A t \in Slots : t # s => q.tasks[t] = p.tasks[t]
  <2> DEFINE t0 == p.tasks[s]
             u  == [t0 EXCEPT !.status = "FAILED"]
  <2>1. t0 \in Task
    BY TaskFields
  <2>2. u \in Task /\ u.status = "FAILED"
    <3> HIDE DEF t0
    <3> QED
      BY <2>1 DEF Task, Status
  <2>3. q = [p EXCEPT !.tasks[s] = u]
    BY DEF Fail, Plan
  <2> HIDE DEF q, u
  <2> QED
    BY <2>2, <2>3 DEF Plan, StatusOf
<1> HIDE DEF q
<1>2. EndsStay(p, q) /\ SameTasks(p, q)
  BY <1>1, ChangeIsQuiet
<1> QED
  BY <1>1, <1>2 DEF q

LEMMA RecordValidationIsQuiet ==
  ASSUME NEW p \in Plan, NEW s \in Slots, StatusOf(p, s) = "IN_PROGRESS", NEW passed \in BOOLEAN
  PROVE  LET q == RecordValidation(p, s, passed)
         IN  EndsStay(p, q) /\ SameTasks(p, q)
<1> DEFINE q == RecordValidation(p, s, passed)
           c == Complete(p, s)
           r == [p EXCEPT !.tasks[s].attempts = @ + 1]
<1>1. /\ c.revisions = p.revisions
      /\ StatusOf(c, s) = "COMPLETED"
      /\ \A t \in Slots : t # s => c.tasks[t] = p.tasks[t]
  BY DEF Complete, Plan, Task, StatusOf
<1>2. /\ r \in Plan
      /\ r.revisions = p.revisions
      /\ StatusOf(r, s) = "IN_PROGRESS"
      /\ \A t \in Slots : t # s => r.tasks[t] = p.tasks[t]
  BY DEF Plan, Task, StatusOf
<1>3. q = c \/ q = r \/ q = Fail(r, s)
  BY DEF RecordValidation
<1> HIDE DEF q, c, r
<1>4. EndsStay(p, c) /\ SameTasks(p, c)
  BY <1>1, ChangeIsQuiet
<1>5. EndsStay(p, r) /\ SameTasks(p, r)
  BY <1>2, ChangeIsQuiet
<1>6. EndsStay(r, Fail(r, s)) /\ SameTasks(r, Fail(r, s))
  BY <1>2, FailIsQuiet
<1>7. EndsStay(p, Fail(r, s)) /\ SameTasks(p, Fail(r, s))
  <2>1. EndsStay(p, Fail(r, s))
    BY <1>5, <1>6 DEF EndsStay, Terminal, StatusOf
  <2>2. SameTasks(p, Fail(r, s))
    BY <1>5, <1>6 DEF SameTasks
  <2> QED
    BY <2>1, <2>2
<1>8. EndsStay(p, q) /\ SameTasks(p, q)
  BY <1>3, <1>4, <1>5, <1>7
<1> QED
  BY <1>8 DEF q

\* intervene, on_completion_claim and try_advance.
LEMMA InterveneEvolves ==
  ASSUME NEW p \in Plan, NEW s \in Slots, StatusOf(p, s) = "IN_PROGRESS"
  PROVE  Evolves(p, Intervene(p, s))
<1> DEFINE q == Forced(p, s)
           g == Fail(q, s)
<1>1. /\ q \in Plan /\ StatusOf(q, s) = "IN_PROGRESS"
      /\ EndsStay(p, q) /\ SameTasks(p, q)
  BY ForcedIsQuiet
<1>2. Intervene(p, s) = Recover(g, s) \/ Intervene(p, s) = q
  BY DEF Intervene
<1> HIDE DEF q
<1>3. g \in Plan /\ EndsStay(q, g) /\ SameTasks(q, g)
  BY <1>1, FailIsQuiet
<1> HIDE DEF g
<1>4. Evolves(g, Recover(g, s))
  BY <1>3, RecoverEvolves
<1>5. Evolves(q, Recover(g, s))
  BY <1>3, <1>4, QuietFirst
<1>6. Evolves(p, Recover(g, s))
  BY <1>1, <1>5, QuietFirst
<1>7. Evolves(p, q)
  BY <1>1 DEF Evolves
<1> QED
  BY <1>2, <1>6, <1>7

LEMMA ClaimedEvolves ==
  ASSUME NEW p, Sound(p), NEW s \in Slots, StatusOf(p, s) = "IN_PROGRESS", NEW passed \in BOOLEAN
  PROVE  Evolves(p, Claimed(p, s, passed))
<1> DEFINE q == RecordValidation(p, s, passed)
<1>1. p \in Plan /\ q \in Plan
  BY RecordValidationKeepsSound DEF Sound, WellFormed
<1>2. EndsStay(p, q) /\ SameTasks(p, q)
  BY <1>1, RecordValidationIsQuiet
<1>3. Claimed(p, s, passed) = Recover(q, s) \/ Claimed(p, s, passed) = q
  BY DEF Claimed
<1> HIDE DEF q
<1>4. Evolves(q, Recover(q, s))
  BY <1>1, RecoverEvolves
<1>5. Evolves(p, Recover(q, s))
  BY <1>2, <1>4, QuietFirst
<1>6. Evolves(p, q)
  BY <1>2 DEF Evolves
<1> QED
  BY <1>3, <1>5, <1>6

LEMMA TryAdvanceEvolves ==
  ASSUME NEW p \in Plan, NEW s \in Slots, NEW passed \in BOOLEAN
  PROVE  Evolves(p, TryAdvance(p, s, passed))
<1>1. CASE p.tasks[s].status = "IN_PROGRESS" /\ CheckOf[OriginOf(s)] = "cheap" /\ passed
  <2>1. TryAdvance(p, s, passed) = RecordValidation(p, s, TRUE)
    BY <1>1 DEF TryAdvance
  <2>2. StatusOf(p, s) = "IN_PROGRESS"
    BY <1>1 DEF StatusOf
  <2> QED
    BY <2>1, <2>2, RecordValidationIsQuiet DEF Evolves
<1>2. CASE ~(p.tasks[s].status = "IN_PROGRESS" /\ CheckOf[OriginOf(s)] = "cheap" /\ passed)
  BY <1>2 DEF TryAdvance, Evolves, EndsStay, SameTasks
<1> QED
  BY <1>1, <1>2

\* What a step of the loop does to the live plan; job.plan and the disk only ever
\* receive copies.
LEMMA StepEvolves ==
  ASSUME IInv, [Next]_vars, ~Continue, ~CrashAndRestart
  PROVE  /\ Evolves(plan, plan')
         /\ jobPlan' \in {plan', jobPlan} /\ disk'.plan \in {disk.plan, jobPlan'}
         /\ continues' = continues
<1>1. /\ plan \in Plan /\ jobPlan \in Plan /\ Sound(plan) /\ SameDecisions(plan, jobPlan)
      /\ active \in Slots \cup {NoTask}
      /\ Streaming /\ active # NoTask => StatusOf(plan, active) \in {"IN_PROGRESS", "FAILED"}
  BY DEF IInv, TypeOK, Streaming, ActiveIsStarted
<1>2. Evolves(plan, plan)
  BY DEF Evolves, EndsStay, SameTasks
<1>3. ASSUME NEW p, NEW j, NEW state, EndRound(p, j, state), Evolves(plan, p), j \in {p, jobPlan}
      PROVE  /\ Evolves(plan, plan')
             /\ jobPlan' \in {plan', jobPlan} /\ disk'.plan \in {disk.plan, jobPlan'}
             /\ continues' = continues
  BY <1>3 DEF EndRound
<1>4. CASE SelectTask
  <2> DEFINE s        == Current(plan)
             starting == plan.tasks[s].status # "IN_PROGRESS"
             begun    == Begin(plan, s)
             stuck    == NeedsIntervention(begun, s, IF starting THEN <<>> ELSE recent)
             next     == IF stuck THEN Intervene(begun, s) ELSE begun
  <2>1. /\ s # NoTask
        /\ plan' = next
        /\ jobPlan' = IF starting \/ stuck THEN next ELSE jobPlan
        /\ UNCHANGED <<disk, continues>>
    BY <1>4 DEF SelectTask
  <2>2. s \in Slots /\ StatusOf(plan, s) \in {"PENDING", "IN_PROGRESS"}
    BY <1>1, <2>1, CurrentFindsWork
  <2>3. begun \in Plan /\ StatusOf(begun, s) = "IN_PROGRESS"
    BY <1>1, <2>1, BeginKeepsSound DEF Sound, WellFormed
  <2>4. EndsStay(plan, begun) /\ SameTasks(plan, begun)
    BY <1>1, <2>2, BeginIsQuiet
  <2>5. jobPlan' \in {plan', jobPlan} /\ disk'.plan = disk.plan /\ continues' = continues
    BY <2>1
  <2> HIDE DEF begun, s, stuck
  <2>6. Evolves(begun, Intervene(begun, s))
    BY <2>2, <2>3, InterveneEvolves
  <2>7. Evolves(plan, Intervene(begun, s))
    BY <2>4, <2>6, QuietFirst
  <2>8. Evolves(plan, begun)
    BY <2>4 DEF Evolves
  <2> QED
    BY <2>1, <2>5, <2>7, <2>8
<1>5. CASE SelectNothing
  BY <1>2, <1>5 DEF SelectNothing
<1>6. CASE PlanBlocked \/ TasksFailed \/ OutOfRounds \/ Cancelled \/ Stall \/ UnheardRound
  <2>1. \E state : EndRound(plan, jobPlan, state)
    BY <1>6 DEF PlanBlocked, TasksFailed, OutOfRounds, Cancelled, Stall, UnheardRound
  <2> QED
    BY <1>2, <1>3, <2>1
<1>7. CASE Cut
  <2>1. PICK chars \in 0 .. RoundChars :
          EndRound(IF active = NoTask THEN plan
                   ELSE [plan EXCEPT !.tasks[active].reasoning_chars = @ + chars],
                   jobPlan, "running")
    BY <1>7 DEF Cut
  <2>2. CASE active = NoTask
    <3>1. EndRound(plan, jobPlan, "running")
      BY <2>1, <2>2
    <3> QED
      BY <1>2, <1>3, <3>1
  <2>3. CASE active # NoTask
    <3> DEFINE p == [plan EXCEPT !.tasks[active].reasoning_chars = @ + chars]
    <3>1. EndRound(p, jobPlan, "running")
      BY <2>1, <2>3
    <3>2. EndsStay(plan, p) /\ SameTasks(plan, p)
      BY <1>1, <2>3, ChargeIsQuiet
    <3> HIDE DEF p
    <3>3. Evolves(plan, p)
      BY <3>2 DEF Evolves
    <3> QED
      BY <1>3, <3>1, <3>3
  <2> QED
    BY <2>2, <2>3
<1>8. CASE ToolsRound
  <2>1. PICK moved \in BOOLEAN, passed \in BOOLEAN, tools \in SUBSET Tools \ {{}},
             chars \in 0 .. RoundChars :
          LET sig == [moved |-> moved, tools |-> tools]
          IN  IF active = NoTask
              THEN /\ EndRound(plan, jobPlan, "running")
                   /\ UNCHANGED recent
              ELSE /\ EndRoundSynced(
                        TryAdvance(RecordRound(plan, active, MadeProgress(sig), chars), active, passed),
                        "running")
                   /\ recent' = Remember(recent, sig)
    BY <1>8 DEF ToolsRound
  <2>2. CASE active = NoTask
    <3>1. EndRound(plan, jobPlan, "running")
      BY <2>1, <2>2
    <3> QED
      BY <1>2, <1>3, <3>1
  <2>3. CASE active # NoTask
    <3> DEFINE sig == [moved |-> moved, tools |-> tools]
               q   == RecordRound(plan, active, MadeProgress(sig), chars)
               p   == TryAdvance(q, active, passed)
    <3>1. EndRound(p, p, "running")
      BY <2>1, <2>3 DEF EndRoundSynced
    <3>2. /\ active \in Slots /\ StatusOf(plan, active) # "ABSENT"
          /\ chars \in Nat /\ MadeProgress(sig) \in BOOLEAN
      BY <1>1, <1>8, <2>3, ControllerAssumption DEF ToolsRound, MadeProgress
    <3> HIDE DEF sig
    <3>3. q \in Plan
      BY <1>1, <3>2, RecordRoundKeepsSound DEF Sound, WellFormed
    <3>4. EndsStay(plan, q) /\ SameTasks(plan, q)
      BY <1>1, <3>2, RecordRoundIsQuiet
    <3> HIDE DEF q
    <3>5. Evolves(q, p)
      BY <3>2, <3>3, TryAdvanceEvolves
    <3> HIDE DEF p
    <3>6. Evolves(plan, p)
      BY <3>4, <3>5, QuietFirst
    <3> QED
      BY <1>3, <3>1, <3>6
  <2> QED
    BY <2>2, <2>3
<1>9. CASE ClaimRound
  <2>1. PICK moved \in BOOLEAN, passed \in Verdicts(active), chars \in 0 .. RoundChars :
          LET sig == [moved |-> moved, tools |-> {}]
              p   == Claimed(RecordRound(plan, active, MadeProgress(sig), chars), active, passed)
          IN  /\ recent' = Remember(recent, sig)
              /\ \E state \in AfterClaim(p, active) : EndRoundSynced(p, state)
    BY <1>9 DEF ClaimRound
  <2> DEFINE sig == [moved |-> moved, tools |-> {}]
             q   == RecordRound(plan, active, MadeProgress(sig), chars)
             p   == Claimed(q, active, passed)
  <2>2. PICK state \in AfterClaim(p, active) : EndRound(p, p, state)
    BY <2>1 DEF EndRoundSynced
  <2>3. active \in Slots /\ StatusOf(plan, active) = "IN_PROGRESS"
    BY <1>1, <1>9 DEF ClaimRound, ClaimIsHeard, Terminal, TERMINAL_STATUSES, StatusOf
  <2>4. chars \in Nat /\ MadeProgress(sig) \in BOOLEAN /\ passed \in BOOLEAN
    <3>1. chars \in Nat
      BY ControllerAssumption
    <3>2. MadeProgress(sig) \in BOOLEAN
      BY DEF MadeProgress
    <3>3. passed \in BOOLEAN
      BY DEF Verdicts
    <3> QED
      BY <3>1, <3>2, <3>3
  <2> HIDE DEF sig
  <2>5. Sound(q) /\ StatusOf(q, active) = "IN_PROGRESS"
    BY <1>1, <2>3, <2>4, RecordRoundKeepsSound
  <2>6. EndsStay(plan, q) /\ SameTasks(plan, q)
    BY <1>1, <2>3, RecordRoundIsQuiet
  <2> HIDE DEF q
  <2>7. Evolves(q, p)
    BY <2>3, <2>4, <2>5, ClaimedEvolves
  <2> HIDE DEF p
  <2>8. Evolves(plan, p)
    BY <2>6, <2>7, QuietFirst
  <2> QED
    BY <1>3, <2>2, <2>8
<1>10. CASE AutoContinue
  <2>1. Evolves(plan, jobPlan)
    BY <1>1, AgreeingEvolves
  <2> QED
    BY <1>10, <2>1 DEF AutoContinue, Enter
<1>11. CASE UNCHANGED vars
  BY <1>2, <1>11 DEF vars
<1> QED
  BY <1>4, <1>5, <1>6, <1>7, <1>8, <1>9, <1>10, <1>11 DEF Next, RoundNext

\* Every copy of the plan has kept to the allowance of the clicks so far.
HInv == \A p \in Copies : Frugal(p, continues)

\* A click on Continue only adds to the allowance.
LEMMA FrugalGrows ==
  ASSUME NEW p \in Plan, NEW c \in Nat, Frugal(p, c)
  PROVE  Frugal(p, c + 1)
<1>1. MAX_PLAN_REVISIONS * (c + 1) = MAX_PLAN_REVISIONS * c + MAX_PLAN_REVISIONS
  BY PlanAssumption
<1>2. /\ MAX_PLAN_REVISIONS \in Nat /\ MAX_PLAN_REVISIONS * c \in Nat /\ p.revisions \in Nat
      /\ Cardinality(RepairedTasks(p)) \in Nat
  BY PlanAssumption, RepairsAreFinite DEF Plan
<1>3. Cardinality(RepairedTasks(p)) <= p.revisions + MAX_PLAN_REVISIONS * c
  BY DEF Frugal
<1> DEFINE card == Cardinality(RepairedTasks(p))
           old  == MAX_PLAN_REVISIONS * c
           new  == MAX_PLAN_REVISIONS * (c + 1)
           rev  == p.revisions
<1>4. card <= rev + new
  <2>1. /\ card \in Nat /\ rev \in Nat /\ old \in Nat /\ MAX_PLAN_REVISIONS \in Nat
        /\ new = old + MAX_PLAN_REVISIONS /\ card <= rev + old
    BY <1>1, <1>2, <1>3
  <2> HIDE DEF card, old, new, rev
  <2> QED
    BY <2>1
<1> QED
  BY <1>4 DEF Frugal

\* Continue's second chance starts the count of revisions again and keeps the repairs.
LEMMA ReopenIsFrugal ==
  ASSUME NEW p \in Plan, NEW c \in Nat, Frugal(p, c)
  PROVE  Frugal(Reopen(p), c + 1)
<1> DEFINE q    == Reopen(p)
           card == Cardinality(RepairedTasks(p))
           old  == MAX_PLAN_REVISIONS * c
           new  == MAX_PLAN_REVISIONS * (c + 1)
           rev  == p.revisions
<1>1. q.revisions = 0 /\ \A t \in Slots : Present(q, t) <=> Present(p, t)
  <2>1. \A t \in Slots : p.tasks[t].status = "FAILED" => Reopened(p.tasks[t]).status = "PENDING"
    BY TaskFields DEF Reopened, Task
  <2> QED
    BY <2>1 DEF Reopen, Present
<1>2. RepairedTasks(q) = RepairedTasks(p)
  BY <1>1, PositionType DEF RepairedTasks
<1> HIDE DEF q
<1>3. /\ card \in Nat /\ rev \in Nat /\ old \in Nat /\ MAX_PLAN_REVISIONS \in Nat
      /\ new = old + MAX_PLAN_REVISIONS
  BY PlanAssumption, RepairsAreFinite DEF Plan
<1>4. card <= rev + old /\ rev <= MAX_PLAN_REVISIONS
  BY DEF Frugal
<1> HIDE DEF card, old, new, rev
<1>5. card <= 0 + new
  BY <1>3, <1>4
<1>6. 0 <= MAX_PLAN_REVISIONS
  BY <1>3
<1>7. Cardinality(RepairedTasks(q)) <= q.revisions + MAX_PLAN_REVISIONS * (c + 1)
  <2>1. Cardinality(RepairedTasks(q)) = card /\ q.revisions = 0
    BY <1>1, <1>2 DEF card
  <2> HIDE DEF card
  <2>2. card <= q.revisions + new
    BY <1>5, <2>1
  <2> QED
    BY <2>1, <2>2 DEF new
<1>8. \A k, j \in RepairedTasks(q) : Objective[k] = Objective[j] => k = j
  BY <1>2 DEF Frugal
<1>9. Frugal(q, c + 1)
  BY <1>1, <1>6, <1>7, <1>8 DEF Frugal
<1> QED
  BY <1>9 DEF q

LEMMA InitHInv == Init => HInv
<1> SUFFICES ASSUME Init PROVE HInv
  OBVIOUS
<1>1. PICK chained \in SUBSET (Originals \ {1}) : plan = BuiltPlan(chained)
  BY DEF Init
<1>2. plan.revisions = 0 /\ \A k \in Originals : ~Present(plan, RepairOf(k))
  BY <1>1, PositionType DEF BuiltPlan, NewTask, Present
<1>3. RepairedTasks(plan) = {}
  BY <1>2 DEF RepairedTasks
<1>4. MAX_PLAN_REVISIONS \in Nat /\ MAX_PLAN_REVISIONS * continues = 0
  BY PlanAssumption DEF Init
<1>5. Frugal(plan, continues)
  BY <1>2, <1>3, <1>4, FS_EmptySet DEF Frugal
<1> QED
  BY <1>5 DEF Init, HInv, Copies

LEMMA NextKeepsHInv == IInv /\ IInv' /\ HInv /\ [Next]_vars => HInv'
<1> SUFFICES ASSUME IInv, IInv', HInv, [Next]_vars PROVE HInv'
  OBVIOUS
<1>1. /\ plan \in Plan /\ jobPlan \in Plan /\ disk.plan \in Plan /\ continues \in Nat
      /\ plan' \in Plan
      /\ Frugal(plan, continues) /\ Frugal(jobPlan, continues) /\ Frugal(disk.plan, continues)
  BY ControllerAssumption DEF IInv, TypeOK, HInv, Copies
<1>2. CASE Continue
  <2>1. /\ continues' = continues + 1 /\ disk' = disk
        /\ plan' \in {jobPlan, Reopen(jobPlan)} /\ jobPlan' = plan'
    BY <1>2 DEF Continue, Enter
  <2>2. Frugal(plan', continues')
    BY <1>1, <2>1, FrugalGrows, ReopenIsFrugal
  <2>3. Frugal(disk'.plan, continues')
    BY <1>1, <2>1, FrugalGrows
  <2> QED
    BY <2>1, <2>2, <2>3 DEF HInv, Copies
<1>3. CASE CrashAndRestart
  BY <1>1, <1>3 DEF CrashAndRestart, HInv, Copies
<1>4. CASE ~Continue /\ ~CrashAndRestart
  <2>1. /\ Evolves(plan, plan')
        /\ jobPlan' \in {plan', jobPlan} /\ disk'.plan \in {disk.plan, jobPlan'}
        /\ continues' = continues
    BY <1>4, StepEvolves
  <2>2. Frugal(plan', continues)
    BY <1>1, <2>1, EvolvesKeepsFrugal
  <2> QED
    BY <1>1, <2>1, <2>2 DEF HInv, Copies
<1> QED
  BY <1>2, <1>3, <1>4

-----------------------------------------------------------------------------
(* The theorems.                                                           *)

\* The round loop keeps every copy of the plan sound, and the live plan and
\* job.plan in agreement, whatever cancels, cuts, crashes and continues do to it.
THEOREM Invariance == Spec => []IInv
<1>1. Init => IInv
  BY InitIInv
<1>2. IInv /\ [Next]_vars => IInv'
  BY NextKeepsIInv
<1> QED
  BY <1>1, <1>2, PTL DEF Spec

\* Every variable of the loop stays within its type.
THEOREM TypeCorrect == Spec => []TypeOK
<1>1. IInv => TypeOK
  BY DEF IInv
<1> QED
  BY <1>1, Invariance, PTL

\* current() and begin_task never leave two tasks in progress, in the live plan,
\* in job.plan or on disk, for plans of any length.
THEOREM AtMostOneActive == Spec => []OneActive
<1>1. IInv => OneActive
  BY DEF IInv, Sound, Ordered, OneActive, Copies, InStatus, StatusOf
<1> QED
  BY <1>1, Invariance, PTL

\* A task is only worked on once everything in front of it is finished, and with
\* it everything it depends on, through repairs and reopenings.
THEOREM InOrder == Spec => []WorkedInOrder
<1>1. ASSUME IInv, NEW p \in Copies, NEW s \in InStatus(p, "IN_PROGRESS")
      PROVE  /\ \A r \in Slots : Present(p, r) /\ Position(r) < Position(s) => Terminal(p, r)
             /\ \A d \in p.tasks[s].depends_on : Terminal(p, d)
  <2>1. Sound(p)
    BY <1>1 DEF IInv, Copies
  <2>2. s \in Slots /\ StatusOf(p, s) = "IN_PROGRESS"
    BY <1>1 DEF InStatus, StatusOf
  <2>3. Cleared(p, s)
    BY <2>1, <2>2 DEF Sound, Ordered
  <2>4. \A d \in p.tasks[s].depends_on : d \in Slots /\ Present(p, d) /\ Position(d) < Position(s)
    BY <2>1, <2>2, TaskFields DEF Sound, WellFormed
  <2> QED
    BY <2>3, <2>4 DEF Cleared
<1>2. IInv => WorkedInOrder
  BY <1>1 DEF WorkedInOrder
<1> QED
  BY <1>2, Invariance, PTL

\* A plan with work left always has a task that can be worked on: is_stuck() is
\* never true of a plan the loop produces.
THEOREM NoDeadEnd == Spec => []NeverStuck
<1>1. ASSUME IInv, NEW p \in Copies
      PROVE  ~IsStuck(p)
  <2>1. Sound(p)
    BY <1>1 DEF IInv, Copies
  <2> QED
    BY <2>1, CurrentFindsWork DEF IsStuck
<1>2. IInv => NeverStuck
  BY <1>1 DEF NeverStuck
<1> QED
  BY <1>2, Invariance, PTL

\* A task is failed exactly when its attempts or its interventions are spent.
THEOREM FailureMeansSpent == Spec => []BudgetsDecideFailure
<1>1. ASSUME IInv, NEW p \in Copies, NEW s \in Slots
      PROVE  /\ s \in Remaining(p) => ~Spent(p.tasks[s])
             /\ p.tasks[s].status = "FAILED" => Spent(p.tasks[s])
  <2>1. WithinBudget(p.tasks[s])
    BY <1>1 DEF IInv, Copies, Sound
  <2> QED
    BY <2>1 DEF WithinBudget, Remaining, InStatus
<1>2. IInv => BudgetsDecideFailure
  BY <1>1 DEF BudgetsDecideFailure, Spent
<1> QED
  BY <1>2, Invariance, PTL

\* job.plan carries every decision of the live plan, at every instant.
THEOREM Synced == Spec => []PlanIsSynced
<1>1. IInv => PlanIsSynced
  BY DEF IInv, PlanIsSynced
<1> QED
  BY <1>1, Invariance, PTL

\* Replanning never becomes the work: recover() runs out of revisions, and only a
\* click on Continue hands out new ones.
THEOREM RepairsBounded == Spec => []RepairsWithinRevisions
<1>1. ASSUME IInv, HInv
      PROVE  RepairsWithinRevisions
  <2> DEFINE card == Cardinality(RepairedTasks(plan))
             old  == MAX_PLAN_REVISIONS * continues
             all  == MAX_PLAN_REVISIONS * (1 + continues)
             rev  == plan.revisions
  <2>1. /\ MAX_PLAN_REVISIONS \in Nat /\ old \in Nat /\ all = old + MAX_PLAN_REVISIONS
        /\ rev \in Nat /\ card \in Nat
    BY <1>1, PlanAssumption, ControllerAssumption, RepairsAreFinite DEF IInv, TypeOK, Plan
  <2>2. rev <= MAX_PLAN_REVISIONS /\ card <= rev + old
    BY <1>1 DEF HInv, Copies, Frugal
  <2> HIDE DEF card, old, all, rev
  <2>3. card <= all
    BY <2>1, <2>2
  <2> QED
    BY <2>3 DEF RepairsWithinRevisions, card, all, RepairedTasks
<1>2. Init => IInv /\ HInv
  BY InitIInv, InitHInv
<1>3. IInv /\ HInv /\ [Next]_vars => IInv' /\ HInv'
  BY NextKeepsIInv, NextKeepsHInv
<1> QED
  BY <1>1, <1>2, <1>3, PTL DEF Spec

\* One failed objective is repaired once, whichever of its tasks failed, however
\* often, and across Continue and crashes.
THEOREM OneRepair == Spec => []OneRepairPerObjective
<1>1. HInv => OneRepairPerObjective
  BY DEF HInv, Copies, Frugal, RepairedTasks, OneRepairPerObjective
<1>2. Init => IInv /\ HInv
  BY InitIInv, InitHInv
<1>3. IInv /\ HInv /\ [Next]_vars => IInv' /\ HInv'
  BY NextKeepsIInv, NextKeepsHInv
<1> QED
  BY <1>1, <1>2, <1>3, PTL DEF Spec

\* No round, cut, stall or automatic continuation works on a finished task again.
THEOREM EndsAreFinal == Spec => TerminalIsFinal
<1> DEFINE Final == \A s \in Slots : Terminal(plan, s) => plan'.tasks[s].status = plan.tasks[s].status
<1>1. IInv /\ [Next]_vars => [Continue \/ CrashAndRestart \/ Final]_vars
  BY StepEvolves DEF Evolves, EndsStay, StatusOf
<1> QED
  BY <1>1, Invariance, PTL DEF Spec, TerminalIsFinal

=============================================================================
