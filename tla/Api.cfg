SPECIFICATION ServiceSpec
CONSTANTS
  i1 = i1
  w1 = w1
  m1 = m1
  r1 = r1
  Steps <- PauseSteps
  Instances = {i1}
  Workers = {w1}
  MsgIds = {m1}
  BatchCount = 1
  Agents = {a1}
  MaxAttempts = 6
  MaxFaults = 0
  RawKeys <- MCKeys
  Names = {"n1"}
  Slots = {r1}
  MaxRestarts = 1
INVARIANTS
  ServiceTypeOK
  TenantIsolation
  HistoryCoversState
PROPERTIES
  RestartLosesNothing
