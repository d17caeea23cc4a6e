\* A stop during the re-probe of a STARTTLS upgrade is never honoured.
SPECIFICATION FairSpec
CONSTANTS
  Kinds = {"start_tls"}
  Workers = {"io1", "io2"}
  Pools = {{"io1"}}
  StartsOn = {"io1"}
  BoxFails = FALSE
  LosesConnection = FALSE
  UseTls = TRUE
PROPERTY StopNeverLost
CHECK_DEADLOCK FALSE
