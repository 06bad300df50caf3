\* Up to two workers; windows closed anywhere between their results.
SPECIFICATION Spec

CONSTANTS
  Workers = {w1, w2}
  MaxInt64 = 99
  Neighbours <- MCNeighbours
  TimeBound = 4
  RequestBound = 3

SYMMETRY Symmetry

INVARIANTS
  TypeOK
  CountsAddUp
  AverageIsNear
  ExtremesAreExact
  SequentialTimeIsReal
  SummariesAgree

\* The runner stops after its last report.
CHECK_DEADLOCK FALSE
