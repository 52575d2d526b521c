CONSTANTS
  d1 = d1
  d2 = d2
  d3 = d3
  d4 = d4
  NoData = NoData
  Data <- MCData
  ClientWindowSizes <- ClientWindow
  File <- File4
  MaxWindowSize = 3

SPECIFICATION CleanFairSpec

CHECK_DEADLOCK FALSE

INVARIANT TypeOK
INVARIANT WindowIsRun
INVARIANT TimerCovers
INVARIANT TimerSetLive
INVARIANT AckedIsReceived
INVARIANT PoppedIsWritten
INVARIANT DownOnlyAcked
INVARIANT WindowBounded

PROPERTY AbstractSpec
PROPERTY Completion
