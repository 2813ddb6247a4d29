SPECIFICATION Spec
CONSTANTS
  Instances = {i1,i2,i3}
  RecoverLimit = 1
  PollLimit = 2
  MaxLosses = 1
PROPERTIES
  NoStarvation
