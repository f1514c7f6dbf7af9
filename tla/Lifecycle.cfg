\* Three applications of the plugin, in one process or several, one session, one
\* tunnel, one entry that needs the DSH cookie and one more provider started later.
SPECIFICATION Spec
CONSTANTS
  Slots = {u1}
  MaxInstances = 3
  Tokens = {s1}
  DshEntries = 1
  MaxTimers = 2
CONSTRAINT Focus
INVARIANTS
  LifecycleTypeOK
  DisposedIsSilent
  RevokedEverywhere
PROPERTIES
  DisposeEnds
CHECK_DEADLOCK FALSE
