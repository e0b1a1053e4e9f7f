SPECIFICATION Spec
CONSTANTS
  p1 = p1
  Pids = {p1}
  Embedded = {}
  Events = {"rpc_stop"}
CHECK_DEADLOCK FALSE
INVARIANTS
  NoTerminate
