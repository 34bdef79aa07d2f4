SPECIFICATION TracingSpec
CONSTANTS
  Call = {k1, k2}
  Answers <- MCAnswers
  MaxCommands = 2
  MaxTasks = 3
  MaxNodes = 3
  MaxFaults = 1
SYMMETRY MCSymmetry
INVARIANTS
  TracingTypeOK
  SpansAreAccounted
  SpanTellsTheOutcome
  ResumptionFollowsThePause
CHECK_DEADLOCK FALSE
