SPECIFICATION Spec
CONSTANTS
  Jobs = {j1, j2}
  Deletes = {d1, d2}
  MaxConcurrency = 1
  QueueSize = 0
  None = None
INVARIANTS
  NoDeleteBlocksPool
CHECK_DEADLOCK FALSE
