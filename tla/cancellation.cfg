SPECIFICATION Spec
CONSTANTS
  MaxOps = 2
  MaxInbox = 1
  Kinds = {"simple", "literal", "idle"}
  Paths = {"sender"}
  Calls = {"cancel"}
  Faults = {"refuse", "reuse"}
INVARIANTS
  RegistryMatchesCells
  ContinuationRouted
  TargetWaits
  WithdrawnNeverAnswered
PROPERTIES
  KeepsPromise
CHECK_DEADLOCK FALSE
