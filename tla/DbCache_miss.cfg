SPECIFICATION Spec
CONSTANTS
  Table = {t1}
  Id = {1, 2}
  Name = {d, a}
  Default = d
  Unset = Unset
  NoRow = NoRow
  NoEntry = NoEntry
  NoObject = NoObject
  NotDirty = NotDirty
  Shared = Shared
  NoVictim = NoVictim
  NoAnswer = NoAnswer
  WritebackTime = 3
  ThreadCount = 2
  MaxCacheSize = 8
  Resize = {}
  Operation = {"update"}
  RequestName = {a}
  DbFails = FALSE
  Disciplined = FALSE
  Epoch = 10
  MaxTime = 12
  Wrap = 100
  MaxRequest = 2
INVARIANTS
  CacheCoherent
CHECK_DEADLOCK FALSE
