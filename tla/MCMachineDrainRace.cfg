CONSTANTS
  Ids = {i1, i2}
  NoId = NoId
  Slots = {k1, k2}
  MaxAttempts = 2
  MaxOps = 4
  MaxEvents = 0
SPECIFICATION Spec
CHECK_DEADLOCK FALSE
PROPERTY NoWorkLost
