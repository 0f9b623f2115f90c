SPECIFICATION Spec
CONSTANTS
  Slot = {v1, v2}
  Signed <- MCSigned
  Unsigned <- MCUnsigned
  Text <- MCText
  Wrap = 16
  Sql <- MCSql
  Where <- MCWhere
  Message <- MCMessage
  Key = {1, 5, 9}
  ColumnWrap = 8
  Nul = "NUL"
  NoText = NoText
  NoRow = NoRow
  NoReply = NoReply
  DeadLinkErrno = 2006
  TRY_DEAD_LOOP_COUNT = 5
  MaxCommand = 2
INVARIANTS
  TypeOK
  HeapExact
  ValuesKept
  AllOrNothing
  SessionClean
  TableAsTold
  ReadBack
PROPERTIES
  CallEnds
CHECK_DEADLOCK FALSE
