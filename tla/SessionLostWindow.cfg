\* What is shown in the end is the sum over all processes of all runners.
SPECIFICATION Spec

CONSTANTS
  AWS_MAX_TIMEOUT = 1
  RunnerIDs <- OneRunner
  Plan <- ForkingPlan
  CountBound = 0
  BatchSize = 2
  IdleLimit = 1
  Faults = {}
  MaxRepeats = 0

INVARIANT AllRequestsCollected

\* The session ends.
CHECK_DEADLOCK FALSE
