SPECIFICATION Spec
CONSTANTS
  Jobs = {j1, j2}
  MaxFaults = 1
  MaxCrashes = 1
  MissingIsFalse = FALSE
SYMMETRY Symmetry
INVARIANTS
  RecordIsTruthful
  ReadyOnlyIfSucceeded
  ReadyIsRecorded
  ArchiveAsAsked
  FailedPostLeavesNoTransfer
PROPERTIES
  CancelledIsFinal
  JobPromise
CHECK_DEADLOCK FALSE
