CONSTANTS
  d1 = d1
  d2 = d2
  d3 = d3
  d4 = d4
  NoData = NoData
  Data <- MCData
  File <- File4
  SeqnoSpace = 8
  WindowSize = 3
  ClientWindowSize = 3
  FirstSeqnos <- Any

SPECIFICATION CleanSpec

CHECK_DEADLOCK FALSE

INVARIANT TypeOK
INVARIANT WindowIsRun
INVARIANT TimerCovers
INVARIANT PoppedIsWritten
INVARIANT TimeoutIsFinal
INVARIANT DownOnlyAcked

PROPERTY AbstractSpec
