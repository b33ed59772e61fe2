SPECIFICATION FairSpec
CONSTANTS
  Messages = {m1, m2}
  Clients = {}
  StoreKind = "memory"
  MaxSessions = 1
  MaxRuns = 1
  MaxEvents = 4
  MaxWorkers = 1
  SessionBound = 1
  RunBound = 2
  EmitBound = 2
  BreakBound = 0
  RestartBound = 0
INVARIANTS
  LogWellFormed
  AtMostOneLateEvent
PROPERTIES
  ImplementsLifecycle
  CancelledTurnStops
  TurnFinishes
CHECK_DEADLOCK FALSE
