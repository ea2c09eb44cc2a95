SPECIFICATION SeriesSpec
CONSTANTS
  Slices = {s1, s2, s3}
  Refs = {e1, e2}
  DeleteUnadopted = FALSE
  MaxUid = 2
CHECK_DEADLOCK FALSE
INVARIANTS
  NoDeadSeries
