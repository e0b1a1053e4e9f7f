\* Two initialisations, two loaders of one library, two buffers.
SPECIFICATION Spec
CONSTANTS
  w = w
  e = e
  Idle = Idle
  Workers = {w}
  Embedders = {e}
  Counts = {2}
  SizeModulus = 65536
  MaxInits = 2
  MaxLoaders = 2
  MaxBuffers = 2
  MaxRefs = 2
  MaxMs = 1
CHECK_DEADLOCK FALSE
INVARIANTS
  SessionsAreClosed
  ReferencesAreCounted
