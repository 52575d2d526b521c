CONSTANTS
  worker = worker
  timer = timer
  other = other
  Threads <- MCThreads
  loss_sequence <- MCSequence
  Deployments <- MCDeployments
  MaxCount = 5

SPECIFICATION Spec

CHECK_DEADLOCK FALSE

INVARIANT TypeOK
INVARIANT SequenceExact
INVARIANT OutOfRangePending
