\* Two threads of clients, two names, pids that are used again.
SPECIFICATION FairSpec
CONSTANTS
  Threads = {t1, t2}
  NoThread = NoThread
  Names = {1, 2}
  Pids = {11, 12}
  MaxProxies = 2
  PidReuse = TRUE
CHECK_DEADLOCK FALSE
INVARIANTS
  NoOrphans
  QueuesAreItsOwn
  MetadataIsItsOwn
PROPERTIES
  MutexIsReleased
