SPECIFICATION Spec
CONSTANTS
  u1 = u1
  u2 = u2
  Urls = {u1, u2}
  Folders = {"base"}
  Candidates <- MCCandidates
  Local = Local
  None = None
  Requests = {"load", "create", "activate", "delete", "reindex", "docs"}
  MaxEvents = 3
  MaxBusy = 2
  MaxEdits = 1
PROPERTIES  ReindexRepairs DeleteForgets
CHECK_DEADLOCK FALSE
