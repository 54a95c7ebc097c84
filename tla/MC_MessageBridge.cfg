SPECIFICATION FairSpec
CONSTANTS
  Prompts <- MCPrompts
  Null = Null
  MaxPush = 4
PROPERTIES
  ImplementsStream
  EveryPromptRead
CHECK_DEADLOCK FALSE
