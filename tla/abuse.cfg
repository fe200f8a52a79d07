SPECIFICATION FairSpec
CONSTANTS
  Ip = {a}
  Tolerances = {1, 2}
  Window = 2
  Rereport = 1
  Sched = 1
  RetryAfter = {1, 2}
  MaxTime = 5
  MaxLogins = 2
  MaxRequests = 2
  MaxWriters = 2
INVARIANTS
  TypeOK
  CleaningGoesOn
PROPERTIES
  ReportsAreDeserved
  SleepEnds
CHECK_DEADLOCK FALSE
