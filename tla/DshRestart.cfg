\* The README's promise about restarts of DSH: a cookie of three ticks, one request at a time.
SPECIFICATION Spec
CONSTANTS
  Requests = {r1}
  AuthTTL = 3
  MaxTime = 4
PROPERTIES
  NextRequestFetches
CHECK_DEADLOCK FALSE
