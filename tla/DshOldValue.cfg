\* What the provider's log says of a failed fetch: a cookie of three ticks, one request at a time.
SPECIFICATION Spec
CONSTANTS
  Requests = {r1}
  AuthTTL = 3
  MaxTime = 4
PROPERTIES
  OldValueKept
CHECK_DEADLOCK FALSE
