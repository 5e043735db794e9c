SPECIFICATION Spec
CONSTANTS
  j1 = j1
  big = big
  small = small
  local = local
  Models = {big, small}
  Jobs = {j1}
  Ring <- MCRing
  LastKey <- MCLastKey
  Favourite <- MCFavourite
  Limited = {big}
  MaxCalls = 1
  MaxAttempts = 3
  Slots = 2
  Workers = {w1}
  WorkerRing <- MCWorkerRing
  MaxWorkerRounds = 2
  MaxWorkerLaps = 2
INVARIANT OneSourcePerRound
 
CHECK_DEADLOCK FALSE
