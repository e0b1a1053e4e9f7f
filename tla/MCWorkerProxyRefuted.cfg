\* Each of these statements of the documentation has a counterexample here:
\* uncomment one at a time.
SPECIFICATION FairSpec
CONSTANTS
  Cmds = {c1, c2}
  NoCmd = NoCmd
  Capacity = 2
  Faults = {"crash", "large", "stall"}
CHECK_DEADLOCK FALSE
INVARIANT
  DetachingIsHarmless
\*  NoNullQueue
\*  ServerSurvivesWorkers
\*  LateResponseDiscarded
\* PROPERTY
\*  MalformedIsAnswered
\*  DeathFailsPending
