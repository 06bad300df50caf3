\* A forked runner sends the headers the user asked for.
SPECIFICATION Spec

CONSTANTS
  AWS_MAX_TIMEOUT = 2
  ConcurrencyCount = 2
  MaxRequestCounts <- LiveRequestCounts
  CompletedCounts <- LiveCompletedCounts
  StresstestTimeouts <- LiveStresstestTimeouts
  Headers = {h}
  FetchBound = 1

INVARIANT ForkKeepsHeaders

\* The process ends: no step is left after "exited" and "dead".
CHECK_DEADLOCK FALSE
