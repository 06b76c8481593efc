CONSTANTS
  NumKeys = 2
  Writers = {w1}
  Scanners = {s1}
  Workloads <- CountingOrScanning
  Limit = 2
  NullPuts = FALSE
  Modulus = 16
  MaxFlushes = 1
  MaxCompactions = 1
SPECIFICATION Spec
INVARIANTS CountCoversLiveKeys KeyScansMissNothing MergeScanIsFresh CursorIsFaithful
CHECK_DEADLOCK FALSE
