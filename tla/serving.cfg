SPECIFICATION FairSpec
CONSTANTS
  Slots <- MCSlots
  Threads = 2
  Connections = 1
  Kinds <- MCKinds
INVARIANTS
  ServingInv
  StallNeedsCrowd
  ReadyTellsTruth
PROPERTIES
  TimeoutNeedsCrowd
  EveryRequestIsAnswered
