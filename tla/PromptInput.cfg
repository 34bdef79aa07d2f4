SPECIFICATION PromptSpec
CONSTANTS
  a = a
  File = {a}
  Thread = {x1}
  Lines <- MCLines
  Cuts <- MCCuts
  MaxAsks = 2
  MaxChanges = 2
INVARIANTS
  PromptTypeOK
  ListsAreOfThisPrompt
  SentAsWritten
CHECK_DEADLOCK FALSE
