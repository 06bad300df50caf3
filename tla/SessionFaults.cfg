\* One chain of runners; deletes from the queue fail, or do so in part.
SPECIFICATION FairSpec

CONSTANTS
  AWS_MAX_TIMEOUT = 1
  RunnerIDs <- OneRunner
  Plan <- ForkingPlan
  CountBound = 0
  BatchSize = 2
  IdleLimit = 1
  Faults = {"delete-error", "delete-partial"}
  MaxRepeats = 1

INVARIANTS
  ReportsAccountedFor
  FinishedRunnerIsComplete

PROPERTIES
  ProcessesKeepContract
  SessionEnds

\* The session ends.
CHECK_DEADLOCK FALSE
