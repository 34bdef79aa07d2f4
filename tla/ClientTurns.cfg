SPECIFICATION Spec
CONSTANTS
  Call = {k1, k2}
  MaxSends = 3
  MaxParts = 3
  ShowThinking = TRUE
  Breaks = TRUE
INVARIANTS
  TurnsTypeOK
  OutcomeIsTheHubs
  AnswerIsWhole
  ScrollbackInOrder
  OneConversation
  ExitTellsTheOutcome
CHECK_DEADLOCK FALSE
