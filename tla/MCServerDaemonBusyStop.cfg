SPECIFICATION Spec
CONSTANTS
  p1 = p1
  Pids = {p1}
  Embedded = {p1}
  Events = {"busy"}
CHECK_DEADLOCK FALSE
INVARIANTS
  NoTerminate
