SPECIFICATION FairSpec
CONSTANTS
  ThreadCount = 2
  AssociateId = {1}
  Timeout = {0, 2}
  DeadLinkErrno = 2006
  Caching = FALSE
  MaxCommand = 2
  MaxTime = 2
INVARIANTS
  AnsweredOrExpired
PROPERTIES
  CommandsSettled
  ReleaseReturns
CHECK_DEADLOCK FALSE
