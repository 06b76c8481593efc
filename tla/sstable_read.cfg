\* Two files, three calls at a time beside a reclaim.
CONSTANTS
  Target = 2
  NumHashes = 2
  Hash <- SmallHash
  CacheMax = 3
  Keys = {1, 2, 3}
  Lookups = {2, 3}
  Table <- SmallTable
  Files = {1, 2}
  Written = {2}
  Legacy = {1}
  Procs = {p1, p2}
  None = None
  Kinds = {"get", "sync", "warm", "scan", "all"}
  MaxOpen = 1
  Attempts = 2
  MaxCalls = 3
  MaxErrors = 1
SPECIFICATION Spec
INVARIANTS LookupIsFaithful PinsBalance CacheStaysConsistent
SYMMETRY ProcSymmetry
CHECK_DEADLOCK FALSE
