CONSTANTS
  NumKeys = 2
  Deletes = FALSE
  Autos = {}
  Manuals = {m}
  Readers = {}
  MaxL0 = 1
  LeveledOnly = TRUE
  MinGroup = 2
  Workloads <- Everything
  MaxFiles = 6
  MaxCrashes = 0
  MaxErrors = 0
SPECIFICATION Spec
INVARIANTS RestartIsTruth
CHECK_DEADLOCK FALSE
