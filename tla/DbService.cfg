SPECIFICATION FairSpec
CONSTANTS
  Client = {c1}
  Timeout = {1, 2}
  AssociateId = {1}
  ThreadCount = 1
  NoTimeout = NoTimeout
  End = End
  MaxSession = 2
  MaxCommand = 2
  MaxTime = 3
INVARIANTS
  TypeOK
  CallbacksInOrder
  ReadsFollowWrites
  IteratorStaysValid
PROPERTIES
  NoLateExecution
  AnswerBeatsTimeout
  TimedSessionsEnd
  NopsEnd
CHECK_DEADLOCK FALSE
