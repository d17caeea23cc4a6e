SPECIFICATION FairSpec
CONSTANTS
  MaxOps = 2
  MaxInbox = 1
  Kinds = {"simple", "literal"}
  Paths = {"sender"}
  Calls = {}
  Faults = {"refuse"}
PROPERTIES
  EveryStartCompletes
CHECK_DEADLOCK FALSE
