SPECIFICATION Spec
CONSTANTS
  Jobs = {j1}
  MaxFaults = 0
  MaxCrashes = 0
  MissingIsFalse = FALSE
PROPERTIES
  PollFailedIsFinal
CHECK_DEADLOCK FALSE
