SPECIFICATION FairSpec
CONSTANTS
  p1 = p1
  p2 = p2
  a = a
  b = b
  t1 = t1
  hdl = hdl
  NULL = NULL
  Peers <- mcPeers
  Kinds <- mcKinds
  AppThreads <- mcOneThread
  HandlerThread <- hdl
  MaxMsgs = 2
INVARIANTS
  DispatchInv
  ReplyFits
  Conservation
  NotSleptOver
PROPERTIES
  WaitReturns
  QueueDrains
  ImplementsMailbox
