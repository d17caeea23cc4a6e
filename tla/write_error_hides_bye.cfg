SPECIFICATION Spec
CONSTANTS
  MaxOps = 1
  MaxInbox = 1
  Kinds = {"simple"}
  Paths = {"sender"}
  Calls = {}
  Faults = {"hangup", "bye"}
PROPERTIES
  ByeWins
CHECK_DEADLOCK FALSE
