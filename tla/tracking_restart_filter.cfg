SPECIFICATION Spec
CONSTANTS
  Jobs = {j1}
  MaxFaults = 0
  MaxCrashes = 1
  MissingIsFalse = FALSE
INVARIANTS
  RestartResumes
CHECK_DEADLOCK FALSE
