CONSTANTS
  d1 = d1
  d2 = d2
  d3 = d3
  d4 = d4
  NoData = NoData
  Data <- MCData
  ClientWindowSizes <- ClientWindow
  File <- File2
  MaxWindowSize = 2

SPECIFICATION Spec

CHECK_DEADLOCK FALSE

INVARIANT TimeoutHasPacket
