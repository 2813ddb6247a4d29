SPECIFICATION ExecSpec
CONSTANTS
  Steps <- SagaSteps
  Instances = {i1}
  MaxAttempts = 2
INVARIANTS
  ExecTypeOK
  CompensationOrder
  SagaComplete
  JoinAfterBranches
  OneBranchAtATime
  FailedBranchRecorded
PROPERTIES
  StepsRunOnce
CHECK_DEADLOCK FALSE
