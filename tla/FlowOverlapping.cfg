SPECIFICATION FlowSpec
SYMMETRY TaskSymmetry
CONSTANTS
  Task = {t1, t2, t3}
  Context = {c1}
  Call = {k1}
  NoContext = NoContext
  NoTask = NoTask
  MaxChunks = 1
  MaxCrashes = 1
  StoreFaults = TRUE
  Session = {s1, s2}
  ConversationOf <- OneConversation
  ClientTimeouts = TRUE
INVARIANTS
  ExecutedAtMostOnce
CHECK_DEADLOCK FALSE
