SPECIFICATION FlowSpec
CONSTANTS
  Task = {t1, t2, t3}
  Context = {c1}
  Call = {k1, k2}
  NoContext = NoContext
  NoTask = NoTask
  MaxChunks = 0
  MaxCrashes = 1
  StoreFaults = TRUE
  Session = {s1}
  ConversationOf <- OneConversation
  ClientTimeouts = FALSE
INVARIANTS
  FlowTypeOK
  NoTurnLost
  AnswersMeetTheirPause
  AnnouncedIsResumable
PROPERTY StreamsEnd
CHECK_DEADLOCK FALSE
