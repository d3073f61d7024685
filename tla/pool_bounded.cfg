SPECIFICATION Spec
CONSTANTS
  Jobs = {j1, j2, j3, j4}
  Deletes = {d1, d2}
  MaxConcurrency = 2
  QueueSize = 1
  None = None
SYMMETRY Symmetry
INVARIANTS
  TypeOK
  MapMatchesTasks
  AdmittedNeverBlocks
  AckedCancelIsFinal
PROPERTIES
  UnknownIsTruthful
  WedgeIsPermanent
CHECK_DEADLOCK FALSE
