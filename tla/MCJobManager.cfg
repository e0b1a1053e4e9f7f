\* Safety and liveness with every interleaving of three jobs.
SPECIFICATION FairSpec
CONSTANTS
  Jobs = {j1, j2, j3}
  NoJob = NoJob
INVARIANTS
  RunningJobsHaveAnOwner
  NonMeasureExclusion
  QueueHoldsQueuedJobs
  ActiveJobsAreMonitored
PROPERTIES
  OutcomesAreFinal
  StartedJobsEnd
  QueueMovesOn
  StopReturns
CHECK_DEADLOCK FALSE
