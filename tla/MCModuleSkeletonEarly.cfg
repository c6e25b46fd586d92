SPECIFICATION PartSpec
CONSTANTS
  A = A
  B = B
  c1 = c1
  c2 = c2
  None = None
  Modules <- mcModules
  Children <- mcChildren
  MaxTime = 2
  MaxRand = 2
  MaxSeedings = 2
  P1 = P1
  P2 = P2
  P3 = P3
  NULL = NULL
  Ports <- mcPorts
  Files <- mcFiles
  ConfigOf <- mcConfigOf
  Argvs <- mcArgvs
  BusyPorts <- mcBusyPorts
CHECK_DEADLOCK FALSE
INVARIANTS
  ReadyWhenWaiting
