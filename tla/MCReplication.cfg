SPECIFICATION Spec

CONSTANTS
  Sessions = 2
  BacklogMax = 2
  PendingMax = 1
  MaxEffects = 2
  MaxEvict = 1

CHECK_DEADLOCK FALSE

INVARIANTS
  AppliesInOrder
  ReplicaBehindMaster
