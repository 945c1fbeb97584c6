SPECIFICATION FairSpec
CONSTANTS
  Orders <- TwoOrders
  Times = {1, 2}
  BatchSize = 2
  Declared = {"none", "bound"}
  Lossless = TRUE
CHECK_DEADLOCK FALSE
INVARIANTS
  TypeOK
PROPERTIES
  AtLeastOnceWhenBound
  EveryUnitIsMade
  BacklogIsPublished
