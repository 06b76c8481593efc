CONSTANTS
  Flushers = {f1}
  MaxEntries = 2
  MaxSeq = 12
  MaxCrashes = 2
  MaxIoErrors = 1
  MaxPersistErrors = 1
SPECIFICATION Spec
INVARIANTS TypeOK RestartStaysAhead
PROPERTIES FlushIsNewest FlushNeverOverwrites
CHECK_DEADLOCK FALSE
