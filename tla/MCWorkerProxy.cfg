\* Every fault, two commands, queues of two.
SPECIFICATION FairSpec
CONSTANTS
  Cmds = {c1, c2}
  NoCmd = NoCmd
  Capacity = 2
  Faults = {"crash", "slow", "large", "stall"}
INVARIANTS
  UnsetFuturesArePending
  NobodyUsesClosedQueues
PROPERTIES
  ImplementsCommandService
  EveryFutureSettles
  StopEnds
CHECK_DEADLOCK FALSE
