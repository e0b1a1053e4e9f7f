SPECIFICATION Spec
CONSTANTS
  p1 = p1
  Pids = {p1}
  Embedded = {}
  Events = {"busy"}
CHECK_DEADLOCK FALSE
INVARIANTS
  RunningMeansListening
