SPECIFICATION ReplicaFairSpec

CONSTANTS
  a = a
  b = b
  c3 = c3
  Key = {a, b, c3}
  Blob = {1, 2}
  SampleSize = 3
  MaxExpiry = 2
  Setups <- EverySetup

CHECK_DEADLOCK FALSE

INVARIANTS
  TypeOK
  MemoryBounded
  LogKeepsData
  LogExplainsStore
  ReplicaFollows
  NeverExpiresEarly

PROPERTIES
  RefusedChangesNothing
  RewriteIsEquivalent
  ExpiredIsReclaimed
