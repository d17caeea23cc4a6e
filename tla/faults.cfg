SPECIFICATION FairSpec
CONSTANTS
  MaxOps = 1
  MaxInbox = 1
  Kinds = {"literal"}
  Paths = {"callback"}
  Calls = {"close", "abandon"}
  Faults = {"hangup", "bye", "garbage", "refuse", "memory"}
PROPERTIES
  DrainEnds
  ByeWinsOnRead
CHECK_DEADLOCK FALSE
