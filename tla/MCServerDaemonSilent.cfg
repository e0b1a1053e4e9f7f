SPECIFICATION FairSpec
CONSTANTS
  p1 = p1
  Pids = {p1}
  Embedded = {p1}
  Events = {}
CHECK_DEADLOCK FALSE
PROPERTIES
  StopInterruptsReads
