SPECIFICATION FairSpec
CONSTANTS
  r1 = r1
  r2 = r2
  o1 = o1
  o2 = o2
  o3 = o3
  p1 = p1
  p2 = p2
  None = None
  Requests <- TwoRequests
  Objects <- MCObjects
  Procs <- MCProcs
  Sends = TRUE
  MaxDeletes = 2
INVARIANTS
  SingleIncarnation
PROPERTIES
  RequestsEnd
  AloneIsClean
CHECK_DEADLOCK FALSE
