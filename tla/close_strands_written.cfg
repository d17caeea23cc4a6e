SPECIFICATION Spec
CONSTANTS
  MaxOps = 1
  MaxInbox = 1
  Kinds = {"simple"}
  Paths = {"sender"}
  Calls = {"close"}
  Faults = {"hangup"}
INVARIANTS
  ClosedLeavesNothing
CHECK_DEADLOCK FALSE
