SPECIFICATION Spec
CONSTANTS
  empty = empty
  unix = unix
  dos = dos
  Path = {p}
  Text <- MCText
  Normal <- MCNormal
  Written <- MCWrittenWindows
  Absent = Absent
  Binary = Binary
  Large = Large
  NoContent = NoContent
  NoEntry = NoEntry
  Torn = Torn
  MaxSteps = 2
  MaxDisturbances = 1
  MaxRollbacks = 2
INVARIANTS
  TypeOK
  EarliestSnapshotRestores
  SnapshotHoldsWhatWasDestroyed
  TrailLeadsToSnapshots
CHECK_DEADLOCK FALSE
