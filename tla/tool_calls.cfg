SPECIFICATION Spec
CONSTANTS
  page = page
  notes = notes
  whole = whole
  bug = bug
  stub = stub
  mark = mark
  Calls <- MCCalls
  Paths <- MCPaths
  Contents <- MCContents
  Absent = Absent
  Large <- MCLarge
  Tiny <- MCTiny
  Broken <- MCBroken
  Stale <- MCStale
  Linted <- MCLinted
  Platform = Platform
  Project = Project
  Initial <- MCInitial
  Typed <- MCTyped
  MaxRounds = 2
  RoundCalls = 2
  MaxSaves = 1
  MaxCrashes = 1
INVARIANTS AnswersAreTrue OnlyALostRoundIsRepeated WholeFileWritesKeepWork
CHECK_DEADLOCK FALSE
