SPECIFICATION FairSpec
CONSTANTS
  Thread = {t1, t2, t3}
  Free = Free
  MaxEvents = 5
  MaxFails = 2
INVARIANTS
  TypeOK
  ReadsWhatReturned
PROPERTIES
  LogRefinement
  LockIsReleased
CHECK_DEADLOCK FALSE
