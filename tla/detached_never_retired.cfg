SPECIFICATION FairSpec
CONSTANTS
  MaxOps = 1
  MaxInbox = 1
  Kinds = {"literal"}
  Paths = {"sender"}
  Calls = {"cancel"}
  Faults = {"refuse"}
PROPERTIES
  DetachedRetired
CHECK_DEADLOCK FALSE
