\* Which process a SIGKILL hits when pids come back.
SPECIFICATION Spec
CONSTANTS
  Threads = {t1}
  NoThread = NoThread
  Names = {1, 2}
  Pids = {11, 12}
  MaxProxies = 2
  PidReuse = TRUE
CHECK_DEADLOCK FALSE
INVARIANT KillsHitTheWorker
