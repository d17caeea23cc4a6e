\* Every one-line command before another of its kind, the first cancelled or not.
SPECIFICATION Spec
CONSTANTS
  Ops = {1, 2}
  Programs <- Pairs
  MaxRows = 2
  Pushes <- FlagPush
  Cancels = {1}
  MaxEntries = 2
  MaxEvents = 2
  AddsInHandler = FALSE
INVARIANTS
  TypeOK
  NothingLost
  NoCrosstalk
  SnapshotValid
  NoEventMissed
  TokenKeepsEntry
CHECK_DEADLOCK FALSE
