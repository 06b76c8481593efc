CONSTANTS
  Keys = {k1, k2}
  PerEntry = TRUE
  FrameCap = 2
  FrameCount = 2
  BigKeys = {k2}
  PowerLoss = TRUE
  CrashIn = {"idle", "append", "frame", "index", "header", "rotate", "wipe"}
  MaxIds = 3
  MaxWrites = 3
  MaxCrashes = 2
  MaxErrors = 0
SPECIFICATION Spec
INVARIANTS AckedWritesRecovered
CHECK_DEADLOCK FALSE
