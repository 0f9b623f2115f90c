SPECIFICATION Spec
CONSTANTS
  Table = {t1}
  Id = {1}
  Name = {d, a}
  Default = d
  Unset = Unset
  NoRow = NoRow
  NoEntry = NoEntry
  NoObject = NoObject
  NotDirty = NotDirty
  Shared = Shared
  NoVictim = NoVictim
  NoAnswer = NoAnswer
  WritebackTime = 3
  ThreadCount = 2
  MaxCacheSize = 8
  Resize = {}
  Operation = {"select", "update", "delete", "flush_key"}
  RequestName = {d, a}
  DbFails = FALSE
  Disciplined = TRUE
  Epoch = 10
  MaxTime = 12
  Wrap = 100
  MaxRequest = 5
PROPERTIES
  ImplementsDbTable
CHECK_DEADLOCK FALSE
