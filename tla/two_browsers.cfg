SPECIFICATION Spec
CONSTANTS
  Callers = {c1, c2}
  Threads = {b1, b2}
  Nobody = Nobody
  RunsOut = {"join"}
  MaxCalls = 2
INVARIANT RunsOnItsOwnPage
CHECK_DEADLOCK FALSE
