SPECIFICATION Spec
CONSTANTS
  MaxOps = 1
  MaxInbox = 1
  Kinds = {"literal"}
  Paths = {"callback"}
  Calls = {"cancel", "close"}
  Faults = {}
INVARIANTS
  WithdrawnNeverInvoked
CHECK_DEADLOCK FALSE
