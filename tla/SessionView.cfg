SPECIFICATION Spec
CONSTANTS
  s1 = s1
  Serves <- OneServe
  MaxItems = 3
  Results <- MCResults
  MaxWire = 2
  MaxAsks = 1
INVARIANTS
  PromptReachable
  ViewIsTrue
  
CHECK_DEADLOCK FALSE
