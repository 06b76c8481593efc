CONSTANTS
  Hash = 2
  Top = 6
  Names <- PlainNames
  Default <- FamA
  UserKeys <- SomeKeys
  PlainKeys <- OnePlainKey
  Bounds <- SomeBounds
  Limit = 2
  MaxWrites = 3
  Batches <- SomeBatches
  DropIsFinal = FALSE
SPECIFICATION Spec
INVARIANTS FamiliesAreIsolated RangeScansKeepTheirBounds LimitCutsOwnKeysOnly PrefixScansStayInFamily
