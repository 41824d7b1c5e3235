SPECIFICATION ReplicaSpec

CONSTANTS
  a = a
  b = b
  c3 = c3
  Key = {a, b, c3}
  Blob = {1, 2}
  SampleSize = 3
  MaxExpiry = 2
  Setups <- TtlSetup

CHECK_DEADLOCK FALSE

INVARIANT RestartKeepsData
