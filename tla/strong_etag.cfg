SPECIFICATION Spec
CONSTANTS
  c1 = c1
  c2 = c2
  c3 = c3
  Null = Null
  Users = {"ann", "bob"}
  Bodies = {"a", "b", "c"}
  Tags = {"x", "y", "z"}
  Stored <- MCStored
  FirstId = 2
  Clients <- MCTwoClients
  Calls <- MCEdits
  Backend = "postgresql"
  MaxRequests = 3
CHECK_DEADLOCK FALSE
INVARIANTS
  ETagIsStrong
