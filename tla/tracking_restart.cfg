SPECIFICATION Spec
CONSTANTS
  Jobs = {j1, j2}
  MaxFaults = 0
  MaxCrashes = 2
  MissingIsFalse = TRUE
SYMMETRY Symmetry
INVARIANTS
  TypeOK
  RecordIsTruthful
  ReadyOnlyIfSucceeded
  EndedIsRecorded
  RestartResumes
CHECK_DEADLOCK FALSE
