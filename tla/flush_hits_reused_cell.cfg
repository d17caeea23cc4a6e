SPECIFICATION Spec
CONSTANTS
  MaxOps = 2
  MaxInbox = 1
  Kinds = {"simple", "literal"}
  Paths = {"sender"}
  Calls = {}
  Faults = {"reuse"}
INVARIANTS
  FlushHitsStaged
CHECK_DEADLOCK FALSE
