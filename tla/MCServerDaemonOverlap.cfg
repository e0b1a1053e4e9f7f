SPECIFICATION Spec
CONSTANTS
  p1 = p1
  p2 = p2
  Pids = {p1, p2}
  Embedded = {}
  Events = {"overlap"}
CHECK_DEADLOCK FALSE
INVARIANTS
  OneDaemon
