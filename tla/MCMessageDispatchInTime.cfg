SPECIFICATION Spec
CONSTANTS
  p1 = p1
  p2 = p2
  a = a
  b = b
  t1 = t1
  hdl = hdl
  NULL = NULL
  Peers <- mcOnePeer
  Kinds <- mcKinds
  AppThreads <- mcOneThread
  HandlerThread <- hdl
  MaxMsgs = 2
PROPERTIES
  InTimeReplyReturned
