SPECIFICATION FairSpec
CONSTANTS
  p1 = p1
  Pids = {p1}
  Embedded = {}
  Events = {"rpc_start"}
CHECK_DEADLOCK FALSE
PROPERTIES
  DaemonStartAnswers
