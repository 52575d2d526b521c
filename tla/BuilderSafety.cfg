CONSTANTS
  MAX_DATA_SIZE <- MCMaxDataSize
  queue_size <- MCQueueSize
  FirstSeqno = 1
  MaxFileSize <- MCMaxFileSize

SPECIFICATION Spec

CHECK_DEADLOCK FALSE

INVARIANT TypeOK
INVARIANT HandedOutIsFile
INVARIANT DownOnlyDisturbed
