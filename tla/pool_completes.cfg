SPECIFICATION FairSpec
CONSTANTS
  Jobs = {j1, j2, j3}
  Deletes = {d1}
  MaxConcurrency = 1
  QueueSize = 1
  None = None
PROPERTIES
  AcceptedJobsComplete
  RestoreEnds
  LoopHearsCancel
CHECK_DEADLOCK FALSE
