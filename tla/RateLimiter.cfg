\* Four clients and a Map of three rows, so that a failure of any of them in a full
\* Map evicts, and a lock may be that of the oldest row or of a later one; two
\* failures lock, for 2 ticks, then for 4, then for 6, the limit.
SPECIFICATION Spec
CONSTANTS
  IPs = {a, b, c, d}
  MaxAttempts = 2
  LockBase = 2
  MultMax = 3
  ResetIdle = 3
  MapMax = 3
  MaxInFlight = 2
  MaxTime = 8
SYMMETRY Symmetry
INVARIANTS
  TypeOK
  LockHonoured
PROPERTIES
  RepeatDoubles
  LockLostOnlyWhenFull
CHECK_DEADLOCK FALSE
