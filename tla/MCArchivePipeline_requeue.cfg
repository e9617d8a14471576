SPECIFICATION Spec
CONSTANTS
  Slot = {s1}
  LateSlot = {}
  MaxRow = 1
  Job = {j1, j2}
  Request = {p1, p2}
  Fallback = FALSE
  Sidecar = {"raw"}
  Workers = 2
  MaxAttempts = 3
  MaxCrash = 0
  Faults = FALSE
SYMMETRY Interchangeable
CHECK_DEADLOCK FALSE
INVARIANTS PendingIsQueued
