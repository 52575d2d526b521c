CONSTANTS
  c1 = c1
  c2 = c2
  t1 = t1
  t2 = t2
  NoClient = NoClient
  NoThread = NoThread
  Clients <- OneClient
  ThreadIds <- OneThread
  FileSizes <- Two
  MaxQueue = 1

SPECIFICATION FairSpec

CHECK_DEADLOCK FALSE

PROPERTY Served
