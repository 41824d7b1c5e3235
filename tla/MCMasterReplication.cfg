SPECIFICATION Spec
CONSTANTS
  c1 = c1
  c2 = c2
  Conn = {c1, c2}
  BacklogMax = 2
  PendingMax = 1
  MaxEffects = 4
  MaxEvict = 1
SYMMETRY Symmetry
CHECK_DEADLOCK FALSE
INVARIANTS
  StreamInOrder
  NothingMissed
  NothingStranded
  OffsetsAgree
  BuffersBounded
  GivenUpIsReaped
  IInv
PROPERTIES
  GivenUpStaysSilent
  ImplementsLogShipping
