SPECIFICATION PlanSpec
CONSTANTS
  A = A
  B = B
  C = C
  sA = sA
  sB = sB
  sC = sC
  l1 = l1
  l2 = l2
  l3 = l3
  NULL = NULL
  Modules <- mcModules
  Senders <- mcSenders
  Home <- mcHome
  Dials <- mcDials
  Links <- mcLinks
  Capacity = 1
  Sizes <- mcSizes
  Faults <- mcFaults
INVARIANTS
  LockInv
  CrossedOnly
PROPERTIES
  OnlyLossReleases
  SendEnds
CHECK_DEADLOCK FALSE
