\* Two clients on one AWS account, and two on one machine with docker.
SPECIFICATION FairSpec

CONSTANTS
  a = a
  b = b
  old = old
  new = new
  Clients = {a, b}
  Assignments <- SamePlatform
  MaxStarts = 3
  Builds = {old, new}
  Build <- MCBuild
  Regions <- MCRegions
  NoCode = NoCode
  Lambdas <- MCLambdas
  Long = {b}
  Impatient = {b}
  Absent = Absent

INVARIANTS
  TypeOK
  ReadyIsProvisioned
  PolicyGapIsForGood
  OwnBuildUnlessOvertaken
  RefusedOnlyByRace
  AloneResultsAreOwn
  FailureHasCause
  CleanWhenAllOver

PROPERTIES
  SetupEnds
  LoneSessionEnds

\* The programs end.
CHECK_DEADLOCK FALSE
