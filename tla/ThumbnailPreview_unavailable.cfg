SPECIFICATION ThumbSpec
CONSTANTS
  Runs = 2
  JobAttempts = 2
  Transient = 3
INVARIANTS UnavailableIsForGood
CHECK_DEADLOCK FALSE
