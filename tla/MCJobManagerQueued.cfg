\* The documentation's claim QueuedIsInQueue, which the code does not keep.
SPECIFICATION Spec
CONSTANTS
  Jobs = {j1, j2, j3}
  NoJob = NoJob
INVARIANT QueuedIsInQueue
CHECK_DEADLOCK FALSE
