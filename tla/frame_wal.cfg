\* Group commit with and without waiting, and direct writes.
CONSTANTS
  Keys = {k1}
  None = None
  GroupModes = {TRUE, FALSE}
  WaitModes = {TRUE, FALSE}
  SegCap = 1
  MaxBatch = 1
  Exempt = {"nowait", "torn", "cleanup", "wipe", "shutdown"}
  MaxIds = 9
  MaxWrites = 2
  MaxTime = 2
  MaxAdmin = 1
  MaxCrashes = 1
  MaxErrors = 1
SPECIFICATION FairSpec
INVARIANTS AckedWritesRecovered NoAckedWriteVanishes
PROPERTIES CallsReturn QueueDrains
CHECK_DEADLOCK FALSE
