SPECIFICATION Spec
CONSTANTS
  Slot = {s1}
  LateSlot = {s1}
  MaxRow = 2
  Job = {j1, j2}
  Request = {p1, p2}
  Fallback = FALSE
  Sidecar = {"raw"}
  Workers = 1
  MaxAttempts = 2
  MaxCrash = 0
  Faults = TRUE
SYMMETRY Interchangeable
CHECK_DEADLOCK FALSE
INVARIANTS CompletedJobPublished
