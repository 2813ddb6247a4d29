SPECIFICATION Spec
CONSTANTS
  i1 = i1
  i2 = i2
  w1 = w1
  w2 = w2
  m1 = m1
  m2 = m2
  m3 = m3
  Steps <- TwoCallSteps
  Instances = {i1}
  Workers = {w1,w2}
  MsgIds = {m1,m2}
  BatchCount = 1
  Agents = {a1}
  MaxAttempts = 6
  MaxFaults = 0
SYMMETRY Symmetry
INVARIANTS
  NoLostWakeUp
