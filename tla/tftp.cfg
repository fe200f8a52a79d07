SPECIFICATION FairSpec
CONSTANTS
  MaxBlocks = 5
  Wide = 4
  TFTP_MAX_RETRIES = 3
INVARIANTS
  StoresTheFile
PROPERTIES
  SilenceEndsTheDownload
CHECK_DEADLOCK FALSE
