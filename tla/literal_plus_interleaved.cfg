SPECIFICATION Spec
CONSTANTS
  MaxOps = 2
  MaxInbox = 1
  Kinds = {"simple", "litplus"}
  Paths = {"sender"}
  Calls = {}
  Faults = {}
INVARIANTS
  WireOrder
CHECK_DEADLOCK FALSE
