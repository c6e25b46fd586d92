SPECIFICATION FairSpec
CONSTANTS
  x = x
  y = y
  NULL = NULL
  Connections <- mcConnections
  Bodies <- mcBodies
  NUL = 0
  MaxRequests = 2
CHECK_DEADLOCK FALSE
INVARIANTS
  PostWhole
  HeapInv
PROPERTIES
  Answered
