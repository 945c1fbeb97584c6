SPECIFICATION Spec
CONSTANTS
  o1 = o1  i1 = i1  i2 = i2
  e1 = e1  e2 = e2  s1 = s1  s2 = s2
  Orders = {o1}
  Items = {i1, i2}
  Events = {e1, e2}
  Staff = {s1, s2}
  NoStaff = NoStaff
  OrderOf <- OneOrder
  ItemOf <- OneEventEach
  MaxCopies = 1
  MaxVersion = 4
SYMMETRY Perms
CHECK_DEADLOCK FALSE
INVARIANTS
  TypeOK
  ExactlyOnceIntake
  ReadRowsAreCurrent
  ClaimedOnce
  AnnouncedItemsAreReady
  AnnouncementsGrow
  ReadyIsAnnounced
PROPERTIES
  NothingIsUndone
  ConsumerWritesExactStatus
  ImplementsLifecycle
