SPECIFICATION FairSpec
CONSTANTS
  SourceIp = {"a", "b"}
  Cookie = {"c"}
  SESSION_TTL = 0
  Event = {"filed", "unfiled"}
  max_queue = 1
  MaxRequests = 2
  MaxFiles = 1
  MaxTime = 1
  MaxSignals = 1
INVARIANTS
  TypeOK
  OneSessionPerId
  LoggedBeforeForwarded
PROPERTIES
  ServedRequestsAreRecorded
  WorkerStops
CHECK_DEADLOCK FALSE
