SPECIFICATION Spec
CONSTANTS
  MaxOps = 1
  MaxInbox = 1
  Kinds = {"literal"}
  Paths = {"sender"}
  Calls = {"cancel"}
  Faults = {}
INVARIANTS
  UnsentStaysUnsent
CHECK_DEADLOCK FALSE
