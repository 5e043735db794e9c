SPECIFICATION Spec
CONSTANTS
  Objs = {o1, o2}
  Runners = {t1, t2}
  Requests = {h1}
  MAX_ROUNDS = 1
  MAX_AUTO_CONTINUES = 1
  AutoCap = 1
  MAX_STALL_RECOVERIES = 1
  MaxCalls = 2
  MaxClicks = 1
  MaxCrashes = 1
  MaxLost = 1
  ClicksMayOverlap = FALSE
INVARIANTS TypeOK  
PROPERTIES CancelStopsRounds KeepsContract JobAndStreamsEnd
CHECK_DEADLOCK FALSE
