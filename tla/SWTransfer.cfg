CONSTANTS
  d1 = d1
  d2 = d2
  a1 = a1
  a2 = a2
  NoData = NoData
  Null = Null
  Data <- MCData
  File <- File2
  Addresses <- TwoAddresses
  ClientWindowSizes <- ClientWindow

SPECIFICATION FairSpec

CHECK_DEADLOCK FALSE

INVARIANT TypeOK
INVARIANT OneLivePacket
INVARIANT TimerCovers
INVARIANT PoppedIsWritten
INVARIANT DownOnlyAfterAck

PROPERTY AbstractSpec
PROPERTY Completion
