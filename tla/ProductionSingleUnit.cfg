SPECIFICATION FairSpec
CONSTANTS
  o1 = o1  i1 = i1  i2 = i2
  e1 = e1  e2 = e2  s1 = s1  s2 = s2
  Orders = {o1}
  Items = {i1}
  Events = {e1, e2}
  Staff = {s1, s2}
  NoStaff = NoStaff
  OrderOf <- OneItem
  ItemOf <- TwoEvents
  MaxCopies = 2
  MaxVersion = 5
CHECK_DEADLOCK FALSE
INVARIANTS
  OutboxTellsTheItem
  SingleUnitOrderExact
PROPERTIES
  EveryRequestMaterialises
  EveryCommandEnds
