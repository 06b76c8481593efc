\* A get clones the handle while the warm-up loads its index.
CONSTANTS
  Target = 2
  NumHashes = 2
  Hash <- SmallHash
  CacheMax = 3
  Keys = {1, 2, 3}
  Lookups = {2, 3}
  Table <- SmallTable
  Files = {1, 2}
  Written = {2}
  Legacy = {1}
  Procs = {p1, p2}
  None = None
  Kinds = {"get", "warm"}
  MaxOpen = 1
  Attempts = 2
  MaxCalls = 2
  MaxErrors = 0
SPECIFICATION Spec
INVARIANTS LoadedMeansIndexed
SYMMETRY ProcSymmetry
CHECK_DEADLOCK FALSE
