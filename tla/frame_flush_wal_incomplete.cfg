\* Group commit with and without waiting, and direct writes.
CONSTANTS
  Keys = {k1}
  None = None
  GroupModes = {TRUE}
  WaitModes = {FALSE}
  SegCap = 1
  MaxBatch = 1
  Exempt = {"nowait", "torn", "cleanup", "wipe", "shutdown"}
  MaxIds = 9
  MaxWrites = 2
  MaxTime = 1
  MaxAdmin = 1
  MaxCrashes = 0
  MaxErrors = 0
SPECIFICATION Spec
INVARIANTS FlushWalCovers
CHECK_DEADLOCK FALSE
