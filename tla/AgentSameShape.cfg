SPECIFICATION Spec
CONSTANTS
  plain = plain
  sudo = sudo
  NoToken = NoToken
  NoAction = NoAction
  NoStep = NoStep
  Args <- MCArgs
  ElevatedArgs <- MCElevated
  UntimedArgs <- MCUntimed
  Plans <- RestartPlans
  LocalEnabled = TRUE
  CloudReplies <- OrderlyReplies
  LocalReplies <- OrderlyReplies
  Provider = "cli"
  DryRun = FALSE
  Faults = FALSE
  OddData = FALSE
  ClockSteps = FALSE
  MaxTotalAttempts = 3
  MaxWallTime = 1
  MaxDistinctStrategies = 3
  MaxAttemptsPerStep = 2
INVARIANT RepeatedShapeStops
CHECK_DEADLOCK FALSE
