\* "Over 50% of requests failed, aborting": nothing is aborted.
SPECIFICATION Spec

CONSTANTS
  AWS_MAX_TIMEOUT = 2
  ConcurrencyCount = 2
  MaxRequestCounts <- LiveRequestCounts
  CompletedCounts <- LiveCompletedCounts
  StresstestTimeouts <- LiveStresstestTimeouts
  Headers = {}
  FetchBound = 1

PROPERTY AbortsWhenFatal

\* The process ends: no step is left after "exited" and "dead".
CHECK_DEADLOCK FALSE
