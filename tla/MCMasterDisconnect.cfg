SPECIFICATION FairSpec
CONSTANTS
  c1 = c1
  c2 = c2
  Conn = {c1}
  BacklogMax = 2
  PendingMax = 1
  MaxEffects = 4
  MaxEvict = 1
CHECK_DEADLOCK FALSE
PROPERTIES
  GivenUpIsDisconnected
