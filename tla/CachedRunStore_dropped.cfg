SPECIFICATION Spec
CONSTANTS
  Runs = {r1}
  Faults = {"drop"}
  WriteBound = 3
PROPERTIES
  CommittedWritesSurvive
CHECK_DEADLOCK FALSE
