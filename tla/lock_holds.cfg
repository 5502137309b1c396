SPECIFICATION Spec
CONSTANTS
  t1 = t1
  t2 = t2
  t3 = t3
  Threads <- MCTwoThreads
  Accounts = {"ann"}
  MaxFailures = 2
  Lockout = 2
  MaxTime = 6
  MaxAttempts = 5
SYMMETRY MCSymmetry
CHECK_DEADLOCK FALSE
PROPERTIES
  LockHolds
