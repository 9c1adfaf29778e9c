\* Two listeners, every overflow and error policy.
SPECIFICATION Spec
CONSTANTS
  MaxListeners = 2
  MaxQueuedTasks = 2
  MaxTasksPerDrain = 2
  Configs <- Governed
  MaxIDs = 2
  MaxRuns = 3
INVARIANTS
  TypeOK
  ClaimsMatch
  RunsWithinLimit
  QueuedMayRun
  NoReentry
  OneDebounced
CHECK_DEADLOCK FALSE
