SPECIFICATION Spec
CONSTANTS
  Runs = {r1, r2}
  Faults = {"read", "expire", "database", "unknown", "drop", "crash"}
  WriteBound = 4
INVARIANTS
  CacheNeverAhead
  CacheCoherent
PROPERTIES
  ImplementsStore
CHECK_DEADLOCK FALSE
