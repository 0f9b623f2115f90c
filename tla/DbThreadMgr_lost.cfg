SPECIFICATION Spec
CONSTANTS
  ThreadCount = 1
  AssociateId = {1}
  Timeout = {0}
  DeadLinkErrno = 2006
  Caching = FALSE
  MaxCommand = 2
  MaxTime = 1
PROPERTIES
  KeptOnLostConnection
CHECK_DEADLOCK FALSE
