SPECIFICATION Spec
CONSTANTS
  MaxName = 2
  Tasks = {c1, c2}
  Local = Local
  NoOne = NoOne
  MaxCrashes = 1
  MaxRequests = 3
  Foreign = {1}

  
PROPERTIES
  
  ClonesEnd
CHECK_DEADLOCK FALSE
