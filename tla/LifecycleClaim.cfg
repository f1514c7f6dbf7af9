\* Three applications of the plugin, in one process or several, and one session.
SPECIFICATION Spec
CONSTANTS
  Slots = {}
  MaxInstances = 3
  Tokens = {s1}
  DshEntries = 0
  MaxTimers = 0
INVARIANTS
  RevokedAtOnce
CHECK_DEADLOCK FALSE
