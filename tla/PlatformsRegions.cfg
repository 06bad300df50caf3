\* A runner runs in the region it is told.
SPECIFICATION Spec

CONSTANTS
  a = a
  b = b
  old = old
  new = new
  Clients = {a, b}
  Assignments <- OnlyAws
  MaxStarts = 3
  Builds = {old, new}
  Build <- MCBuild
  Regions <- MCRegions
  NoCode = NoCode
  Lambdas <- MCLambdas
  Long = {b}
  Impatient = {b}
  Absent = Absent

INVARIANT RunnersStayInRegion

\* The programs end.
CHECK_DEADLOCK FALSE
