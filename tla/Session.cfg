\* Two runners, one of which forks, the other without a limit.
SPECIFICATION Spec

CONSTANTS
  AWS_MAX_TIMEOUT = 1
  RunnerIDs <- TwoRunners
  Plan <- MixedPlan
  CountBound = 1
  BatchSize = 2
  IdleLimit = 1
  Faults = {}
  MaxRepeats = 0

INVARIANTS
  TypeOK
  ChainStaysWithinLimit
  FinishedRunnerIsComplete

PROPERTY UnfinishedOnlyByParent

\* The session ends.
CHECK_DEADLOCK FALSE
