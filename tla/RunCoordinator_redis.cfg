SPECIFICATION Spec
CONSTANTS
  Messages = {m1}
  Clients = {}
  StoreKind = "redis"
  MaxSessions = 1
  MaxRuns = 1
  MaxEvents = 2
  MaxWorkers = 2
  SessionBound = 1
  RunBound = 2
  EmitBound = 1
  BreakBound = 0
  RestartBound = 1
INVARIANTS
  OneTurnPerMessage
CHECK_DEADLOCK FALSE
