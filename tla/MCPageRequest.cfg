SPECIFICATION PartSpec
CONSTANTS
  t1 = t1
  t2 = t2
  u1 = u1
  u2 = u2
  NULL = NULL
  Server = Server
  Threads <- mcThreads
  Urls <- mcUrls
  MaxRequests = 3
  Nil = Nil
  FileUrls <- mcFileUrls
  Paths <- mcPaths
  SavedAs <- mcSavedAs
  subdomain <- mcSubdomain
  rootPath <- mcRoot
  Savers <- mcThreads
  Bodies <- mcBodies
SYMMETRY mcSymmetry
INVARIANTS
  PageInv
  ReplyUsedOnce
  ServedWhole
  AnswerTruthful
  ListLeads
