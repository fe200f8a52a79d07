SPECIFICATION FairSpec
CONSTANTS
  Session = {s1, s2}
  BufferSize = 2
  MaxEvent = 4
INVARIANTS
  TypeOK
  SentOnce
PROPERTIES
  CallsReturn
CHECK_DEADLOCK FALSE
