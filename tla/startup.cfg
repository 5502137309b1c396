SPECIFICATION FairSpec
CONSTANTS
  a = a
  b = b
  c = c
  Containers <- MCContainers
  Backend = "postgresql"
  FirstStamps = {0, 1, 2, 3}
  MaxAttempts = 3
  MaxCrashes = 2
CHECK_DEADLOCK FALSE
INVARIANTS
  ServesOnHead
  StampNamesSchema
  RaceCostsOneAttempt
PROPERTIES
  StartsOnceDatabaseIsUp
