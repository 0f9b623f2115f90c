SPECIFICATION Spec
CONSTANTS
  Client = {c1, c2}
  Timeout = {0, 1}
  NoTimeout = NoTimeout
  End = End
  Kind = {"read"}
  ResponseCode = {"kRC_OK"}
  DestroyInCallback = TRUE
  DestroyWithNop = TRUE
  MaxSession = 3
  MaxTime = 3
INVARIANTS
  TypeOK
  TimeoutListExact
  ClientIndexExact
  EndsOnce
PROPERTIES
  TimerComplete
SYMMETRY Symmetry
CHECK_DEADLOCK FALSE
