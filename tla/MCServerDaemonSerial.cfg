\* One start at a time: daemons are started, stopped, killed, and pids reused.
SPECIFICATION FairSpec
CONSTANTS
  p1 = p1
  p2 = p2
  p3 = p3
  Pids = {p1, p2, p3}
  Embedded = {p2, p3}
  Events = {"kill", "reuse", "rpc_start"}
CHECK_DEADLOCK FALSE
INVARIANTS
  OneDaemon
  PidFileNamesTheServer
  NoTerminate
PROPERTIES
  StopEnds
