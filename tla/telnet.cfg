SPECIFICATION FairSpec
CONSTANTS
  FrontKinds <- AllFront
  MaxFront = 3
  Spoofing = {TRUE, FALSE}
INVARIANTS
  TypeOK
  StreamsKeepTheirOrder
  AnswersWerePromptedFor
PROPERTIES
  OnlyAcceptedLoginsOpenTheGuest
  BorrowsAsPromised
  TelnetSessionsEnd
CHECK_DEADLOCK FALSE
