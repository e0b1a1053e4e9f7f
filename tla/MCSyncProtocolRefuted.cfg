\* Each of these statements of the documentation has a counterexample here:
\* uncomment one at a time.
SPECIFICATION FairSpec
CONSTANTS
  j1 = j1
  c1 = c1
  Jobs = {j1}
  Commands = {c1}
  Instruments = {1, 2}
  Removable = {1}
  MaxBlocks = 1
  MaxCalls = 2
CHECK_DEADLOCK FALSE
PROPERTY
  AcksReachTheBarrier
\*  MonitorsFinish
\* INVARIANT ResultsAreAlwaysAligned
\* INVARIANT ExecutionAwaitsContinue
\* with SPECIFICATION HangSpec: PROPERTY BarriersAreForced
