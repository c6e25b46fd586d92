SPECIFICATION LibrarySpec
CONSTANTS
  Threads = {t1, t2}
  Messages = {m1, m2}
  None = None
  MaxPushes = 3
  Hosts <- mcHosts
  Exes <- mcExes
  Numbers <- mcNumbers
  Junk <- mcJunk
  Inputs <- mcInputs
  Templates <- mcTemplates
  Keys <- mcKeys
  Values <- mcValues
  me = me
  k1 = k1
  k2 = k2
  v1 = v1
  v2 = v2
  NULL = NULL
CHECK_DEADLOCK FALSE
INVARIANTS
  FirstInFirstOut
  PeerLearnsUri
  RoundTrips
PROPERTIES
  EmptyPopIsLast
  ReplacesRest
  EditingEnds
  ImplementsMap
