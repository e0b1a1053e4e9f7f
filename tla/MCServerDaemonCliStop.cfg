SPECIFICATION FairSpec
CONSTANTS
  p1 = p1
  Pids = {p1}
  Embedded = {}
  Events = {}
CHECK_DEADLOCK FALSE
PROPERTIES
  DaemonStopStops
