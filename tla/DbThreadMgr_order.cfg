SPECIFICATION Spec
CONSTANTS
  ThreadCount = 2
  AssociateId = {1, 2}
  Timeout = {0}
  DeadLinkErrno = 1
  Caching = TRUE
  MaxCommand = 3
  MaxTime = 1
INVARIANTS
  TypeOK
  RepliesInOrder
  QuitDrains
PROPERTIES
  ImplementsOrderedExecution
CHECK_DEADLOCK FALSE
