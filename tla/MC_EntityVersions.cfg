CONSTANTS
  e1 = e1
  e2 = e2
  v1 = v1
  v2 = v2
  Entities <- MCEntities
  ImmutableEntities <- MCImmutable
  Values <- MCValues
  BlockNumberMax = 2
  Unbounded = Unbounded
  Absent = Absent
  AccountLike = TRUE
  UseBrinForAll = FALSE

INIT Init
NEXT Next

INVARIANTS
  TypeOK
  VersionsDisjoint
  PredicatesExact

PROPERTIES
  ImplementsHistory
