SPECIFICATION FairSpec
CONSTANTS
  Invocations <- MCInvocations
  Lines <- MCLines
  LaterLines <- MCLaterLines
  ExecLines <- MCExecLines
  MaxInputs = 4
  MaxObjects = 10
INVARIANTS
  TypeOK
  BottomIsShell
  PromptOrBusy
  InterruptFrees
  PasswordsAreHidden
PROPERTIES
  SessionsGoOn
