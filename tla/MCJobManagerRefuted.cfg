\* Each of these statements of the documentation has a counterexample here:
\* uncomment one at a time.
SPECIFICATION Spec
CONSTANTS
  Jobs = {j1, j2, j3}
  NoJob = NoJob
CHECK_DEADLOCK FALSE
PROPERTY CanceledIsFinal
\* PROPERTY CancelingEndsCanceled
\* INVARIANT StatusJobsDoNotWait
