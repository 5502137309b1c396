SPECIFICATION Spec
CONSTANTS
  c1 = c1
  c2 = c2
  s1 = s1
  s2 = s2
  Clients <- MCClients
  Seeders <- MCSeeders
  Boxes = {"alice", "bob", "cy", "dee"}
  Usernames = {"alice", "bob", "cy", "dee"}
  Passwords = {"p", "q", "sample"}
  Calls <- MCCalls
  MaxRequests = 3
  MaxSeedRuns = 2
SYMMETRY MCSymmetry
CHECK_DEADLOCK FALSE
INVARIANTS
  AccountsInv
  KeysUnique
  TokensNameTheirAccount
  SampleIsOrdered
PROPERTIES
  SeededIsComplete
  ImplementsRegistry
