CONSTANTS
  k1 = k1  k2 = k2  c1 = c1  c2 = c2
  o1 = o1  o2 = o2  o3 = o3
  None = None  Admin = admin
  Keys = {k1, k2}
  Ops = {o1, o2, o3}
  Clients = {c1, c2}
  Readers = {r1}
  Flushers = {c1}
  Closers = {}
  TtlOps = {}
  KeysOf <- OwnKeysOf
  ClientOf <- OwnClientOf
  MaxCrashes = 1
  MaxIoErrors = 0
SPECIFICATION Spec
INVARIANTS TypeOK ReadsSeeAckedWrites AckedWritesAreDurable GetIsNeverStale
PROPERTIES TruncateWaitsForWriters ImplementsKVStore
