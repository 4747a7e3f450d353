SPECIFICATION FairSpec
CONSTANTS
  plain = plain
  sudo = sudo
  NoToken = NoToken
  NoAction = NoAction
  NoStep = NoStep
  Args <- MCArgs
  ElevatedArgs <- MCElevated
  UntimedArgs <- MCUntimed
  Plans <- MCPlans
  LocalEnabled = TRUE
  CloudReplies <- AllReplies
  LocalReplies <- AllReplies
  Provider = "cli"
  DryRun = FALSE
  Faults = TRUE
  OddData = TRUE
  ClockSteps = FALSE
  MaxTotalAttempts = 4
  MaxWallTime = 1
  MaxDistinctStrategies = 4
  MaxAttemptsPerStep = 2
INVARIANTS
  TypeOK
  ApprovedExecution
  VerifiedPrefix
  AttemptBudget
  StepRetriesBounded
  OvershootAtMostOne
  StrategiesFaithful
  NoSilentElevation
  NoLeftoverApproval
  LogReplaysRun
  TrailLagsByOne
  ReturnedRunIsLogged
PROPERTIES
  TaskRefinement
  RunEnds
  StepsUseUpTheRun
CHECK_DEADLOCK FALSE
