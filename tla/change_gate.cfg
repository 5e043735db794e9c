SPECIFICATION GateSpec
CONSTANTS
  t1 = t1
  t2 = t2
  Threads = {t1, t2}
  Requests <- MCRequests
  Existing <- MCExisting
  Wired <- MCWired
  Tagged <- MCTagged
  Unsafe = 2
  MaxAsked = 3
SYMMETRY Handlers
 
INVARIANT LogTellsTheWrites
CHECK_DEADLOCK FALSE
