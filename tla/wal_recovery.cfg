CONSTANTS
  Keys = {k1, k2}
  None = None
  SegCap = 2
  Retention = 0
  MaxSegments = 2
  CrashIn = {"idle"}
  Cleaner = FALSE
  Oversize = FALSE
  MaxIds = 5
  MaxWrites = 3
  MaxTime = 2
  MaxCrashes = 2
  MaxErrors = 0
SPECIFICATION Spec
INVARIANTS AckedWritesRecovered
CHECK_DEADLOCK FALSE
