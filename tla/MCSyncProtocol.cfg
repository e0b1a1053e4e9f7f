\* A job with two calls or blocks, a measure command with two, or one of each
\* at once; an instrument may be removed.
SPECIFICATION FairSpec
CONSTANTS
  j1 = j1
  c1 = c1
  Jobs = {j1}
  Commands = {c1}
  Instruments = {1, 2}
  Removable = {1}
  MaxBlocks = 2
  MaxCalls = 2
CHECK_DEADLOCK FALSE
INVARIANTS
  ContinueMeansComplete
  ParallelIsABarrier
  ResultsAreAligned
  EveryCommandHasItsResult
PROPERTIES
  WaitsEnd
