SPECIFICATION FairSpec
CONSTANTS
  Slot = {s1}
  LateSlot = {}
  MaxRow = 1
  Job = {j1, j2}
  Request = {p1, p2}
  Fallback = FALSE
  Sidecar = {}
  Workers = 1
  MaxAttempts = 2
  MaxCrash = 1
  Faults = TRUE
CHECK_DEADLOCK FALSE
PROPERTIES RowSettles
