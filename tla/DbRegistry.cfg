SPECIFICATION Spec
CONSTANTS
  Caller = {a, b, c}
  ThreadCount = 2
  None = None
  MaxManager = 3
INVARIANTS
  TypeOK
  CallsUseLiveManagers
  IdsResolve
  OwnedOnce
CHECK_DEADLOCK FALSE
