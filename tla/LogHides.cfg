SPECIFICATION Spec
CONSTANTS
  Thread = {t1, t2}
  Free = Free
  MaxEvents = 2
  MaxFails = 1
SYMMETRY Symmetry
INVARIANT
  ReadsEveryEvent
CHECK_DEADLOCK FALSE
