SPECIFICATION Spec
CONSTANTS
  MaxOps = 2
  MaxInbox = 1
  Kinds = {"simple", "barrier"}
  Paths = {"sender"}
  Calls = {}
  Faults = {}
INVARIANTS
  BarrierExclusive
CHECK_DEADLOCK FALSE
