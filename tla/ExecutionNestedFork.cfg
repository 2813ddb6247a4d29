SPECIFICATION ExecSpec
CONSTANTS
  Steps <- NestedForkSteps
  Instances = {i1}
  MaxAttempts = 2
INVARIANTS
  JoinAfterBranches
CHECK_DEADLOCK FALSE
