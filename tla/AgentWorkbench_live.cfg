SPECIFICATION WbFairSpec
CONSTANTS
  Conversations = {k1}
  CoordinatorRuns = {}
  Turns = {t1}
  Streams = {s1}
  MaxRounds = 1
  Faults = {"turn"}
  CallBound = 1
  RestartBound = 0
  Run = k1
  Conn = s1
  Retries = 1
  UserActs = {}
  BreakBound = 0
PROPERTIES
  TurnsSettle
  UserSeesOutcome
CHECK_DEADLOCK FALSE
