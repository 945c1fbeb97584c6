SPECIFICATION Spec
CONSTANTS
  anna = anna  guest = guest  soup = soup  t1 = t1
  Registered = {anna}  Guests = {guest}  Nobody = Nobody
  SignIns = {1}
  Dishes = {soup}  MaxQuantity = 1
  Requests = {1, 2}  NoRequest = 0
  MaxReloads = 0
  Tokens = {t1}  NoToken = NoToken
  Loops = {1}  NoLoop = 0
  MaxRetries = 1
CHECK_DEADLOCK FALSE
INVARIANTS
  RetriesAreIdempotent
