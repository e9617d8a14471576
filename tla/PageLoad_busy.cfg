SPECIFICATION FairPageSpec
CONSTANTS
  Url = {u1, u2}
  Tolerated = 1
  MinWait = 2
  GiveUpAfter = 4
  LoadLimit = 5
  SettleLimit = 3
  Idle = 1
  Height = 3
  MaxSteps = 2
PROPERTIES BusyPageIsCaptured
CHECK_DEADLOCK FALSE
