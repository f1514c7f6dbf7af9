\* One login, one request under way at a time.
SPECIFICATION Spec
CONSTANTS
  Tokens = {t1}
  NoToken = none
  Requests = {r1}
  TTL = 4
  AuthTTL = 2
  MaxTime = 8
INVARIANT
  DailyUseStaysSignedIn
CHECK_DEADLOCK FALSE
