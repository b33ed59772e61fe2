SPECIFICATION AccSpec
CONSTANTS
  Users = {u1, u2}
  Queries = {q1, q2}
  ChangeBound = 2
  ReloadBound = 2
  FailBound = 1
INVARIANTS
  StaleSessionRecovered
CHECK_DEADLOCK FALSE
