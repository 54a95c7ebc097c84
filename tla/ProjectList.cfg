SPECIFICATION PSpec
CONSTANTS
  MaxName = 1
  Tasks = {c1, c2}
  Local = Local
  NoOne = NoOne
  Foreign = {1}
  MaxRequests = 2
  MaxCrashes = 0
  Fetches = {f1}
  MaxDisconnects = 1
VIEW View
INVARIANTS
  ModalEnds
  
CHECK_DEADLOCK FALSE
