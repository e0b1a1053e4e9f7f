SPECIFICATION Spec
CONSTANTS
  p1 = p1
  p2 = p2
  Pids = {p1, p2}
  Embedded = {p2}
  Events = {"overlap", "kill", "reuse", "busy", "rpc_start", "rpc_stop"}
CHECK_DEADLOCK FALSE
INVARIANTS
  ServerOutlivesItsThread
