SPECIFICATION FairSpec
CONSTANTS
  plain = plain
  sudo = sudo
  NoToken = NoToken
  NoAction = NoAction
  NoStep = NoStep
  Args <- MCArgs
  ElevatedArgs <- MCElevated
  UntimedArgs <- MCUntimed
  Plans <- MCPlans
  LocalEnabled = FALSE
  CloudReplies <- AllReplies
  LocalReplies <- AllReplies
  Provider = "auto"
  DryRun = TRUE
  Faults = TRUE
  OddData = TRUE
  ClockSteps = TRUE
  MaxTotalAttempts = 3
  MaxWallTime = 1
  MaxDistinctStrategies = 4
  MaxAttemptsPerStep = 2
INVARIANT DryRunKeepsApprovals
PROPERTY RunEnds
CHECK_DEADLOCK FALSE
