SPECIFICATION Spec
CONSTANTS
  Nothing = Nothing
  Jobs = {"j1"}
  Notes = {{"a note"}}
  Checkouts <- MCCheckouts
  MaxEdits = 1
  MaxRecords = 4
INVARIANT FactsAreCurrent
 
CHECK_DEADLOCK FALSE
