\* What the README says of the multiplier, of one client: failures go on, none of them locks, and the lock after is short again.
SPECIFICATION Spec
CONSTANTS
  IPs = {a}
  MaxAttempts = 2
  LockBase = 1
  MultMax = 4
  ResetIdle = 3
  MapMax = 2
  MaxInFlight = 3
  MaxTime = 20
PROPERTIES
  MultiplierSurvives
CHECK_DEADLOCK FALSE
