SPECIFICATION MCSpec
CONSTANTS
  Jobs = {j1, j2}
  Deletes = {d1, d2}
  MaxConcurrency = 1
  QueueSize = 0
  None = None
  MaxFaults = 0
  MaxCrashes = 1
  MissingIsFalse = TRUE
SYMMETRY Symmetry
INVARIANTS
  TypeOK
  MapMatchesTasks
  RecordIsTruthful
  NobodyAbandons
  ShownIsCancellable
CHECK_DEADLOCK FALSE
