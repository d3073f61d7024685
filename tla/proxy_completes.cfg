SPECIFICATION MCFairSpec
CONSTANTS
  Jobs = {j1, j2}
  Deletes = {d1, d2}
  MaxConcurrency = 1
  QueueSize = 0
  None = None
  MaxFaults = 0
  MaxCrashes = 0
  MissingIsFalse = TRUE
PROPERTIES
  AcceptedIsCarriedThrough
  CancelIsTold
  JobPromise
CHECK_DEADLOCK FALSE
