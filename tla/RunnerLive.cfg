\* Runner processes end: the limited ones by themselves, all by their timer.
SPECIFICATION WorkSpec

CONSTANTS
  AWS_MAX_TIMEOUT = 2
  ConcurrencyCount = 2
  MaxRequestCounts <- LiveRequestCounts
  CompletedCounts <- LiveCompletedCounts
  StresstestTimeouts <- LiveStresstestTimeouts
  Headers = {}
  FetchBound = 1

PROPERTIES
  EndsByItself
  Ends

\* The process ends: no step is left after "exited" and "dead".
CHECK_DEADLOCK FALSE
