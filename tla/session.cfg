\* Every operation of every state, up to five in a row.
SPECIFICATION FairSpec
CONSTANTS
  Methods <- SessionMethods
  MaxMessages = 2
  MaxOps = 5
  Advertised <- ByTransport
  PushInGap = FALSE
  CloseRefused = FALSE
  SeveralWorkers = FALSE
  DetainFails = TRUE
INVARIANTS
  SessionTypeOK
  StatesAgree
  ViewCurrent
  GateHonest
PROPERTIES
  LogoutReleases
CHECK_DEADLOCK FALSE
