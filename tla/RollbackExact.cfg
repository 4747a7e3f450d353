SPECIFICATION Spec
CONSTANTS
  empty = empty
  unix = unix
  dos = dos
  Path = {p}
  Text <- MCText
  Normal <- MCNormal
  Written <- MCWrittenUnix
  Absent = Absent
  Binary = Binary
  Large = Large
  NoContent = NoContent
  NoEntry = NoEntry
  Torn = Torn
  MaxSteps = 1
  MaxDisturbances = 0
  MaxRollbacks = 1
INVARIANTS
  UndoIsExact
CHECK_DEADLOCK FALSE
