SPECIFICATION FairSpec
CONSTANTS
  Slot = {s1}
  LateSlot = {}
  MaxRow = 1
  Job = {j1}
  Request = {p1}
  Fallback = FALSE
  Sidecar = {"raw"}
  Workers = 2
  MaxAttempts = 2
  MaxCrash = 1
  Faults = FALSE
CHECK_DEADLOCK FALSE
PROPERTIES NoPrematureFailure
