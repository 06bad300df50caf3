\* A limited test makes every runner a limited one.
SPECIFICATION ClientSpec

CONSTANTS
  Files <- SilentFile
  CommandLines <- FewRequests
  Queries = {}
  Lists <- MCLists
  Configs <- MCConfigs
  SupportedRegions <- MCSupportedRegions
  WellFormedHeaders <- MCWellFormedHeaders

INVARIANT LimitReachesEveryRunner

\* The plan is made once.
CHECK_DEADLOCK FALSE
