\* The four kinds of Layer-2 operation against a stop request, on one and two workers.
SPECIFICATION FairSpec
CONSTANTS
  Kinds = {"command", "idle", "start_tls", "connect"}
  Workers = {"io1", "io2"}
  Pools = {{"io1"}, {"io1", "io2"}}
  StartsOn = {"io1"}
  BoxFails = FALSE
  LosesConnection = TRUE
  UseTls = TRUE
INVARIANTS
  OperationTypeOK
  OneDelivery
  NeverOnRequester
  NoneInsideAfterDelivery
  DisownedOnEveryExit
  SlotFreeOnDelivery
  FirstGreetingDecides
  SessionOrNothing
PROPERTIES
  StopCompletes
CHECK_DEADLOCK FALSE
