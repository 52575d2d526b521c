CONSTANTS
  d1 = d1
  d2 = d2
  d3 = d3
  d4 = d4
  NoData = NoData
  Data <- MCData
  File <- File2
  SeqnoSpace = 8
  WindowSize = 2
  ClientWindowSize = 2
  FirstSeqnos <- Zero

SPECIFICATION Spec

CHECK_DEADLOCK FALSE

INVARIANT CompleteWhenDone
