SPECIFICATION Spec
CONSTANTS
  Orders <- TwoOrders
  Times = {1, 2}
  BatchSize = 2
  Declared = {"none"}
  Lossless = TRUE
CHECK_DEADLOCK FALSE
INVARIANTS
  AtLeastOnce
