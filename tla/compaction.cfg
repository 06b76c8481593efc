\* Each kind of compaction alone, and all tasks and faults together.
CONSTANTS
  NumKeys = 2
  Deletes = TRUE
  Autos = {a}
  Manuals = {m}
  Readers = {r}
  MaxL0 = 1
  LeveledOnly = TRUE
  MinGroup = 2
  Workloads <- AloneOrTogether
  MaxFiles = 5
  MaxCrashes = 1
  MaxErrors = 1
SPECIFICATION Spec
INVARIANTS TypeOK LiveFilesOnDisk PinnedFilesOnDisk RestartIsInvisible CompactionIsInvisible
CHECK_DEADLOCK FALSE
