CONSTANTS
  Ids = {i1, i2}
  NoId = NoId
  Slots = {k1, k2}
  MaxAttempts = 2
  MaxOps = 4
  MaxEvents = 2
SPECIFICATION Spec
INVARIANT OneMachinePerReservation
INVARIANT ConfirmedMeansOver
SYMMETRY Symmetry
CHECK_DEADLOCK FALSE
