SPECIFICATION Spec
CONSTANTS
  MaxOps = 1
  MaxInbox = 1
  Kinds = {"idle"}
  Paths = {"sender"}
  Calls = {"cancel"}
  Faults = {}
INVARIANTS
  DoneReachesWire
CHECK_DEADLOCK FALSE
