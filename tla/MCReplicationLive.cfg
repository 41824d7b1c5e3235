SPECIFICATION FairSpec
CONSTANTS
  Sessions = 1
  BacklogMax = 2
  PendingMax = 1
  MaxEffects = 4
  MaxEvict = 1
CHECK_DEADLOCK FALSE
PROPERTIES
  ResyncEnds
  SessionSettles
  ReadsEverything
