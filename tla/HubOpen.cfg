SPECIFICATION Spec
CONSTANTS
  Task = {t1, t2, t3}
  Context = {c1}
  Call = {k1}
  NoContext = NoContext
  NoTask = NoTask
  MaxChunks = 1
  MaxCrashes = 1
  StoreFaults = TRUE
SYMMETRY Symmetry
INVARIANTS
  TypeOK
  ReportsAreTruthful
  ConversationsAreClosed
  ApprovalsReachTheRun
  OnlyApprovedPendingCallsRun
  ArtifactProtocol
  AnnouncedIsResumable
PROPERTY ImplementsTurns
CHECK_DEADLOCK FALSE
