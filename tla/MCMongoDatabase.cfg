SPECIFICATION Spec
CONSTANTS
  c1 = c1
  c2 = c2
  k1 = k1
  k2 = k2
  v1 = v1
  NULL = NULL
  Clients <- mcClients
  Failing <- mcFailing
  Keys <- mcKeys
  Removable <- mcRemovable
  Values <- mcValues
  MaxDocs = 3
CHECK_DEADLOCK FALSE
INVARIANTS
  KeyInv
PROPERTIES
  StoredOnReturn
