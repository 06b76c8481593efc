CONSTANTS
  Keys = {k1, k2}
  None = None
  SegCap = 1
  Retention = 0
  MaxSegments = 2
  CrashIn = {"idle", "close", "remove", "clean", "cleanForce", "force"}
  Cleaner = TRUE
  Oversize = TRUE
  MaxIds = 4
  MaxWrites = 2
  MaxTime = 2
  MaxCrashes = 1
  MaxErrors = 1
SPECIFICATION Spec
INVARIANTS TypeOK
PROPERTIES CurrentStartsEmpty
CHECK_DEADLOCK FALSE
