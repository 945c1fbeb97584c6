SPECIFICATION FairSpec
CONSTANTS
  a1 = a1  b1 = b1  A = A  B = B
  Items = {a1, b1}
  Orders = {A, B}
  OrderOf <- OneItemEach
  FirstVersions <- AnyAndQueued
  None = None
  Calls = {1, 2}
  MaxVersion = 2
CHECK_DEADLOCK FALSE
INVARIANTS
  TypeOK
  RefusedOnlyWhenStale
  CommandIsSeen
  SpinnersHaveCause
PROPERTIES
  BoardSettles
