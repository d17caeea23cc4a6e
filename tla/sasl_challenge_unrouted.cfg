SPECIFICATION Spec
CONSTANTS
  MaxOps = 1
  MaxInbox = 1
  Kinds = {"sasl"}
  Paths = {"sender"}
  Calls = {}
  Faults = {"challenge"}
INVARIANTS
  ContinuationRouted
CHECK_DEADLOCK FALSE
