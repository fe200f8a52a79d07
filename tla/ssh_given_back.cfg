SPECIFICATION FairSpec
CONSTANTS
  FrontKinds <- Plain
  BackKinds <- Plain
  MaxFront = 1
  MaxBack = 1
  MaxAuth = 1
  PoolFaults = {}
PROPERTIES
  GuestsAreGivenBack
CHECK_DEADLOCK FALSE
