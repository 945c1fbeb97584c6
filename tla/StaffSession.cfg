SPECIFICATION FairSpec
CONSTANTS
  s1 = s1  s2 = s2
  Staff = {s1, s2}
  Nobody = Nobody
  Tokens = {1, 2, 3}
  NoToken = 0
  Loops = {1, 2}
  NoLoop = 0
  MaxRetries = 2
CHECK_DEADLOCK FALSE
INVARIANTS
  TypeOK
  BoardFollowsSession
  StorageFollowsSession
  RefreshGoesOn
PROPERTIES
  DisplayWaitEnds
