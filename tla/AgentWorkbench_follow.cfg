SPECIFICATION WbSpec
CONSTANTS
  Conversations = {k1}
  CoordinatorRuns = {}
  Turns = {t1}
  Streams = {s1}
  MaxRounds = 1
  Faults = {"turn"}
  CallBound = 1
  RestartBound = 1
  Run = k1
  Conn = s1
  Retries = 1
  UserActs = {"stop", "reload"}
  BreakBound = 2
INVARIANTS
  NothingWaits
  OutcomeShown
PROPERTIES
  OutcomeKept
  ImplementsReading
CHECK_DEADLOCK FALSE
