SPECIFICATION FlowSpec
CONSTANTS
  Task = {t1, t2, t3}
  Context = {c1}
  Call = {k1}
  NoContext = NoContext
  NoTask = NoTask
  MaxChunks = 0
  MaxCrashes = 0
  StoreFaults = FALSE
  Session = {s1, s2}
  ConversationOf <- OneConversation
  ClientTimeouts = FALSE
INVARIANTS
  NoTurnLost
CHECK_DEADLOCK FALSE
