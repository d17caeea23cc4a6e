SPECIFICATION Spec
CONSTANTS
  MaxOps = 1
  MaxInbox = 1
  Kinds = {"simple"}
  Paths = {"callback"}
  Calls = {"abandon"}
  Faults = {}
PROPERTIES
  AbandonSilences
CHECK_DEADLOCK FALSE
