\* Each of these statements of the documentation has a counterexample here:
\* uncomment one at a time.
SPECIFICATION Spec
CONSTANTS
  w = w
  w2 = w2
  e = e
  Idle = Idle
  Workers = {w, w2}
  Embedders = {e}
  Counts = {2}
  SizeModulus = 8
  MaxInits = 2
  MaxLoaders = 2
  MaxBuffers = 2
  MaxRefs = 2
  MaxMs = 1
CHECK_DEADLOCK FALSE
INVARIANT
  WorkersTryTheAddress
\*  ShutdownCleansUp
\*  BuiltinClosesOnce
\*  BlocksHoldTheirElements
\*  BufferIdsAreUnique
