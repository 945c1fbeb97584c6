SPECIFICATION Spec
CONSTANTS
  u1 = u1  u2 = u2  r1 = r1  d1 = d1  d2 = d2
  a1 = a1  a2 = a2  a3 = a3
  Users = {u1}
  RequestIds = {r1}
  Dishes = {d1, d2}
  Menu = {d1, d2}
  Baskets <- OneBasket
  Attempts = {a1, a2}
  Nobody = Nobody
CHECK_DEADLOCK FALSE
INVARIANTS
  RacesAreHandled
