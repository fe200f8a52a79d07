SPECIFICATION FairSpec
CONSTANTS
  FrontKinds <- AllFront
  BackKinds <- AllBack
  MaxFront = 3
  MaxBack = 2
  MaxAuth = 2
  PoolFaults = {"connect", "drop"}
INVARIANTS
  TypeOK
  PacketsInOrder
PROPERTIES
  LoginOpensTheGuest
  BorrowsAsPromised
  GuestSessionsEnd
  KnownGuestsAreGivenBack
CHECK_DEADLOCK FALSE
