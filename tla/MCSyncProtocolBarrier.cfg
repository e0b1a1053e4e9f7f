SPECIFICATION Spec
CONSTANTS
  j1 = j1
  Jobs = {j1}
  Commands = {}
  Instruments = {1, 2}
  Removable = {}
  MaxBlocks = 2
  MaxCalls = 2
CHECK_DEADLOCK FALSE
INVARIANTS
  JobsKeepBarriers
