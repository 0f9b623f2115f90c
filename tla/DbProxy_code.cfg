SPECIFICATION Spec
CONSTANTS
  Client = {c1}
  Timeout = {0, 1}
  NoTimeout = NoTimeout
  End = End
  Kind = {"read", "write"}
  ResponseCode = {"kRC_OK"}
  DestroyInCallback = FALSE
  DestroyWithNop = FALSE
  MaxSession = 1
  MaxTime = 3
INVARIANTS
  CodeReachesCaller
CHECK_DEADLOCK FALSE
