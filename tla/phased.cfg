SPECIFICATION Spec
CONSTANTS
  NPhases = 2
  MaxRecoveries = 1
  MaxClicks = 1
  MaxCrashes = 1
  MaxLost = 1
INVARIANTS PhasesFollowDoneJobs OneJobForTheWork 
PROPERTIES BuildEnds
CHECK_DEADLOCK FALSE
