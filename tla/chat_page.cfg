SPECIFICATION ChatSpec
CONSTANTS
  c1 = c1
  c2 = c2
  None = None
  Convs = {c1, c2}
  Flows = {1, 2}
  MaxTries = 1
  MaxEvents = 2
  MaxSends = 2
  MaxVisits = 3
  MaxDrops = 1
  MaxErrors = 1
  MaxTurmoil = 4
  Careful = TRUE
INVARIANT TurnsTellTheirJobs
PROPERTIES  FollowingEnds
CHECK_DEADLOCK FALSE
