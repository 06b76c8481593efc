CONSTANTS
  NumKeys = 1
  Deletes = TRUE
  Autos = {a}
  Manuals = {m}
  Readers = {}
  MaxL0 = 1
  LeveledOnly = TRUE
  MinGroup = 2
  Workloads <- Everything
  MaxFiles = 6
  MaxCrashes = 0
  MaxErrors = 0
SPECIFICATION Spec
INVARIANTS ViewIsTruth
CHECK_DEADLOCK FALSE
