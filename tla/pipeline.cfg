SPECIFICATION FairSpec
CONSTANTS
  MaxOps = 2
  MaxInbox = 1
  Kinds = {"simple", "sasl"}
  Paths = {"sender"}
  Calls = {}
  Faults = {"hangup", "challenge"}
INVARIANTS
  WireOrder
  NoLostWakeup
PROPERTIES
  EveryStartCompletes
CHECK_DEADLOCK FALSE
