SPECIFICATION Spec
CONSTANTS
  c1 = c1
  c2 = c2
  Conn = {c1, c2}
  MaxClients = 1
  MaxAuthFailures = 2
  IdleTimeout = 3
  PartialTimeout = 2
  Batch = 3
  MaxTime = 4
SYMMETRY Symmetry
CHECK_DEADLOCK FALSE
INVARIANTS
  TypeOK
  SlotsAreExact
  WaitsAreBounded
  GuessesAreBounded
