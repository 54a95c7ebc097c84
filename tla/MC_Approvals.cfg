SPECIFICATION FairSpec
CONSTANTS
  write1 = write1
  write2 = write2
  read = read
  question = question
  file1 = file1
  file2 = file2
  Calls <- MCCalls
  Questions <- MCQuestions
  ReadOnly <- MCReadOnly
  Targets <- MCTargets
  Target <- MCTarget
INVARIANTS
  PendingIsParked
  AllowedWasGranted
PROPERTIES
  AbortedReturns
CHECK_DEADLOCK FALSE
