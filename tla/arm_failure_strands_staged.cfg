SPECIFICATION Spec
CONSTANTS
  MaxOps = 1
  MaxInbox = 1
  Kinds = {"simple"}
  Paths = {"sender"}
  Calls = {}
  Faults = {"memory"}
INVARIANTS
  ClosedLeavesNothing
CHECK_DEADLOCK FALSE
