SPECIFICATION Spec
CONSTANTS
  FrontKinds = {"line"}
  MaxFront = 3
  Spoofing = {TRUE}
PROPERTIES
  AcceptedLoginsSendThePassword
CHECK_DEADLOCK FALSE
