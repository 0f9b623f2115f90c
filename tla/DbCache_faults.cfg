SPECIFICATION Spec
SYMMETRY Symmetry
CONSTANTS
  Table = {t1, t2}
  Id = {1}
  Name = {d, a}
  Default = d
  Unset = Unset
  NoRow = NoRow
  NoEntry = NoEntry
  NoObject = NoObject
  NotDirty = NotDirty
  Shared = Shared
  NoVictim = NoVictim
  NoAnswer = NoAnswer
  WritebackTime = 3
  ThreadCount = 2
  MaxCacheSize = 8
  Resize = {1, 100}
  Operation = {"select", "update", "insert", "delete", "flush_key", "flush_all"}
  RequestName = {a, Unset}
  DbFails = TRUE
  Disciplined = FALSE
  Epoch = 10
  MaxTime = 12
  Wrap = 100
  MaxRequest = 4
INVARIANTS
  TypeOK
  NoForgottenWrite
  SizeNeverUndercounted
CHECK_DEADLOCK FALSE
