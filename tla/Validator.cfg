SPECIFICATION Spec
CONSTANTS
  Width = 6
  DefaultInitial = 2
  DefaultMax = 12
  MaxWalk = 8
  MaxAttempts = 6
  Requests <- MCRequests
INVARIANTS
  AcceptedIsWellFormed
  SearchIsExact
  RoundsLeaveNormalPath
  BackoffGrows
CHECK_DEADLOCK FALSE
