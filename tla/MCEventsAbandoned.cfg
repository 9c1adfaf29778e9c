\* An asynchronous callback fails with the default error policy while the
\* drain holds a second task of the batch.
SPECIFICATION Spec
CONSTANTS
  MaxListeners = 2
  MaxQueuedTasks = 2
  MaxTasksPerDrain = 2
  Configs <- Propagating
  MaxIDs = 1
  MaxRuns = 3
INVARIANT ClaimsReleased
CHECK_DEADLOCK FALSE
