SPECIFICATION FairSpec
CONSTANTS
  Threads = {t1}
  Jobs = {j1, j2}
  Posted = {m1, m2}
  Facts = {f1, f2}
  Procedures = {p1}
  VersionBound = 3
  CallBound = 2
  MaxAttempts = 2
  CrashBound = 1
INVARIANTS
  OneActiveRecord
  CompletedIsDecided
  LearnedOnce
PROPERTIES
  ReviewStands
  JobsSettle
CHECK_DEADLOCK FALSE
