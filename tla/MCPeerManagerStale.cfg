SPECIFICATION Spec
CONSTANTS
  A = A
  B = B
  a = a
  b = b
  l1 = l1
  l2 = l2
  NULL = NULL
  Modules <- mcModules
  Uris <- mcUris
  HostOf <- mcHostOf
  OwnUri <- mcOwnUri
  Dials <- mcDials
  Kinds <- mcKinds
  Faults <- mcLinks
  Links <- mcLinks
  MaxWire = 1
INVARIANTS
  EntriesAreOpen
CHECK_DEADLOCK FALSE
