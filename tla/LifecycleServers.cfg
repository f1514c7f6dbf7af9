\* One application of the plugin.
SPECIFICATION Spec
CONSTANTS
  Slots = {u1}
  MaxInstances = 1
  Tokens = {s1}
  DshEntries = 0
  MaxTimers = 0
INVARIANTS
  ServersStop
CHECK_DEADLOCK FALSE
