SPECIFICATION PartsSpec
CONSTANTS
  Goroutine = {g1, g2, g3}
  Identity = {i1, i2}
  Lock = {k1, k2}
  None = None
  Chunk = 2
  FileSize = {0, 1, 2, 3, 4, 5, 6, 7}
  MaxTries = 3
  Attempts = 2
  Slides = 2
  Assets = 2
  Parts = 2
  Url = {u1, u2}
  Tolerated = 1
  MinWait = 2
  GiveUpAfter = 4
  LoadLimit = 5
  SettleLimit = 3
  Idle = 1
  Height = 3
  MaxSteps = 2
  Limit = 3
  Output <- OutputDef
  Written = 4
  Length = 2
  Failures = 2
  Starter = {s1, s2}
  Items = 1
  NewLine = {"first", "other"}
  Starts = 2
  Appends = 1
  Nobody = Nobody
  Request = {r1, r2}
  Entries = 2
  Versions = 2
  Runs = 2
  JobAttempts = 2
  Transient = 3
INVARIANTS PartsTypeOK MutualExclusion NotEvicted NoLeak
INVARIANTS StoredIsWhole SpendIsRecorded SuccessRowsAreDeliveries NothingLeftBehind
INVARIANTS CaptureIsHonest CountersTell LogIsKept HistoryIsKept
INVARIANTS SavedIsWhole ReadsWhereItIs ClonesAreWhole
PROPERTIES EveryoneServed ImplementsMutex CaptureReleases BundleIsReleased LoadEnds PreviewSettles
CHECK_DEADLOCK FALSE
