CONSTANTS
  Keys = {k1, k2}
  None = None
  SegCap = 1
  Retention = 0
  MaxSegments = 9
  CrashIn = {"idle"}
  Cleaner = TRUE
  Oversize = FALSE
  MaxIds = 4
  MaxWrites = 3
  MaxTime = 2
  MaxCrashes = 1
  MaxErrors = 0
SPECIFICATION Spec
INVARIANTS AckedWritesRecovered
CHECK_DEADLOCK FALSE
