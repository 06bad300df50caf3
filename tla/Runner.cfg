\* Safety of one runner process with two workers.
SPECIFICATION Spec

CONSTANTS
  AWS_MAX_TIMEOUT = 2
  ConcurrencyCount = 2
  MaxRequestCounts <- MCMaxRequestCounts
  CompletedCounts <- MCCompletedCounts
  StresstestTimeouts <- MCStresstestTimeouts
  Headers = {h}
  FetchBound = 2

INVARIANTS
  JobsConserved
  CountsAreExact
  FinishedIsTrue
  ForkResumes
  ForkRepeatsOnePerWorker
  RunnerInv

PROPERTY ImplementsContract

\* The process ends: no step is left after "exited" and "dead".
CHECK_DEADLOCK FALSE
