SPECIFICATION Spec
CONSTANTS
  MaxOps = 2
  MaxInbox = 1
  Kinds = {"simple", "literal"}
  Paths = {"sender"}
  Calls = {"close", "abandon"}
  Faults = {"hangup"}
INVARIANTS
  TypeOK
  DescriptorQuiet
  StagedOutliveTeardown
PROPERTIES
  KeepsPromise
CHECK_DEADLOCK FALSE
