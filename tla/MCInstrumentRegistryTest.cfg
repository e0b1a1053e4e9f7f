\* The documentation's claim TestStopsItsInstrument, which the code does not keep.
SPECIFICATION Spec
CONSTANTS
  Threads = {t1}
  NoThread = NoThread
  Names = {1, 2}
  Pids = {11, 12}
  MaxProxies = 2
  PidReuse = FALSE
CHECK_DEADLOCK FALSE
PROPERTY TestStopsItsInstrument
