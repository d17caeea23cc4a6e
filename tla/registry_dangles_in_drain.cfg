SPECIFICATION Spec
CONSTANTS
  MaxOps = 1
  MaxInbox = 1
  Kinds = {"simple"}
  Paths = {"sender"}
  Calls = {"close"}
  Faults = {}
INVARIANTS
  RegistryOwned
CHECK_DEADLOCK FALSE
