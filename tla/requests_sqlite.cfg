SPECIFICATION FairSpec
CONSTANTS
  c1 = c1
  c2 = c2
  c3 = c3
  Null = Null
  Users = {"ann", "bob"}
  Bodies = {"a", "b", "c"}
  Tags = {"x", "y", "z"}
  Stored <- MCTwoStored
  FirstId = 3
  Clients <- MCTwoClients
  Calls <- MCPinned
  Backend = "sqlite"
  MaxRequests = 4
CHECK_DEADLOCK FALSE
INVARIANT HeldETagNamesSeenContent
PROPERTIES
  EveryRequestEnds
  NoLostUpdate
  ImplementsVersionedBookmarks
