SPECIFICATION Spec
CONSTANTS
  plain = plain
  sudo = sudo
  NoToken = NoToken
  NoAction = NoAction
  NoStep = NoStep
  Args <- MCArgs
  ElevatedArgs <- MCElevated
  UntimedArgs <- MCUntimed
  Plans <- MCPlans
  LocalEnabled = TRUE
  CloudReplies <- AllReplies
  LocalReplies <- AllReplies
  Provider = "cli"
  DryRun = FALSE
  Faults = FALSE
  OddData = FALSE
  ClockSteps = FALSE
  MaxTotalAttempts = 2
  MaxWallTime = 1
  MaxDistinctStrategies = 3
  MaxAttemptsPerStep = 2
INVARIANT NeverRaises
CHECK_DEADLOCK FALSE
