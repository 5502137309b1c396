SPECIFICATION Spec
CONSTANTS
  a = a
  b = b
  c = c
  Containers <- MCOne
  Backend = "sqlite"
  FirstStamps = {0, 1, 2, 3}
  MaxAttempts = 3
  MaxCrashes = 1
CHECK_DEADLOCK FALSE
PROPERTIES
  KeepsLinks
