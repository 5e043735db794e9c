SPECIFICATION RoundSpec
CONSTANTS
  NTasks = 3
  Objective <- MCThree
  CheckOf <- MCThreeChecks
  MAX_ATTEMPTS_PER_TASK = 1
  MAX_PLAN_REVISIONS = 1
  MAX_INTERVENTIONS_PER_TASK = 2
  MAX_ROUNDS_WITHOUT_PROGRESS = 2
  MAX_ROUNDS_PER_TASK = 2
  MAX_REASONING_CHARS_PER_TASK = 0
  Window = 1
  Tools = {look}
  Informative = {look}
  RoundChars = 0
  MaxContinues = 0
INVARIANTS NeverStuck RepairsWithinRevisions
PROPERTY PlanFinishes
CHECK_DEADLOCK FALSE
