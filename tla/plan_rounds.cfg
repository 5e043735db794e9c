SPECIFICATION Spec
CONSTANTS
  NTasks = 2
  Objective <- MCSame
  CheckOf <- MCCheckOf
  MAX_ATTEMPTS_PER_TASK = 2
  MAX_PLAN_REVISIONS = 1
  MAX_INTERVENTIONS_PER_TASK = 1
  MAX_ROUNDS_WITHOUT_PROGRESS = 2
  MAX_ROUNDS_PER_TASK = 2
  MAX_REASONING_CHARS_PER_TASK = 0
  Window = 1
  Tools = {look}
  Informative = {look}
  RoundChars = 1
  MaxContinues = 1
INVARIANTS TypeOK BudgetsDecideFailure PlanIsSynced WorkedInOrder OneRepairPerObjective
PROPERTY TerminalIsFinal
