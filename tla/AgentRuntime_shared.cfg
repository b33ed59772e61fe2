SPECIFICATION Spec
CONSTANTS
  Conversations = {k1}
  CoordinatorRuns = {k2}
  Turns = {t1, t2}
  Streams = {}
  MaxRounds = 1
  Faults = {"turn", "store"}
  CallBound = 1
  RestartBound = 1
INVARIANTS
  StartedOnce
  OutcomeAnnounced
PROPERTIES
  OutcomeStays
CHECK_DEADLOCK FALSE
