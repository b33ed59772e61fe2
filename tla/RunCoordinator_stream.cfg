SPECIFICATION FairSpec
CONSTANTS
  Messages = {m1}
  Clients = {c1}
  StoreKind = "memory"
  MaxSessions = 1
  MaxRuns = 1
  MaxEvents = 4
  MaxWorkers = 1
  SessionBound = 1
  RunBound = 1
  EmitBound = 2
  BreakBound = 1
  RestartBound = 1
INVARIANTS
  CompletedCarriesAnswer
  StreamIsFaithful
PROPERTIES
  StreamCloses
CHECK_DEADLOCK FALSE
