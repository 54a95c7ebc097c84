SPECIFICATION Spec
CONSTANTS
  MaxName = 1
  Tasks = {c1}
  Local = Local
  NoOne = NoOne
  MaxCrashes = 1
  MaxRequests = 2
  Foreign = {1}
PROPERTY BootSparesCompleted
CHECK_DEADLOCK FALSE
