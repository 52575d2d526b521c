CONSTANTS
  c1 = c1
  c2 = c2
  t1 = t1
  t2 = t2
  NoClient = NoClient
  NoThread = NoThread
  Clients <- TwoClients
  ThreadIds <- OneThread
  FileSizes <- One
  MaxQueue = 1

SPECIFICATION Spec

CHECK_DEADLOCK FALSE

INVARIANT AcksOfOwnClient
