SPECIFICATION FairSpec
CONSTANTS
  anna = anna  guest = guest  soup = soup  t1 = t1
  Registered = {anna}  Guests = {guest}  Nobody = Nobody
  SignIns = {1, 2}
  Dishes = {soup}  MaxQuantity = 2
  Requests = {1, 2}  NoRequest = 0
  MaxReloads = 1
  Tokens = {t1}  NoToken = NoToken
  Loops = {1, 2}  NoLoop = 0
  MaxRetries = 2
CHECK_DEADLOCK FALSE
INVARIANTS
  TypeOK
  OneTokenRequest
  LoadingHasCause
PROPERTIES
  SignInEnds
