CONSTANTS
  c1 = c1
  c2 = c2
  t1 = t1
  t2 = t2
  NoClient = NoClient
  NoThread = NoThread
  Clients <- TwoClients
  ThreadIds <- TwoThreads
  FileSizes <- EmptyOrOne
  MaxQueue = 1

SPECIFICATION Spec

CHECK_DEADLOCK FALSE

SYMMETRY Symmetry

INVARIANT TypeOK
INVARIANT OneWorkerPerClient
INVARIANT FinalizeMarks
INVARIANT DownOnlyDispatching
INVARIANT DoneHasAll
INVARIANT PacketsAreWritten
