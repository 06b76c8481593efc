CONSTANTS
  Flushers = {f1, f2}
  MaxEntries = 2
  MaxSeq = 9
  MaxCrashes = 1
  MaxIoErrors = 0
  MaxPersistErrors = 0
SPECIFICATION Spec
INVARIANTS RestartStaysAhead
CHECK_DEADLOCK FALSE
