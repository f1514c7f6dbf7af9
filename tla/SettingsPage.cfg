\* Two rows besides the owner's; two polls, two operations under way, three
\* changes, one lost request.
SPECIFICATION Spec
CONSTANTS
  MaxRow = 2
  MaxPolls = 2
  MaxOps = 2
  MaxChanges = 3
  MaxLost = 1
INVARIANTS
  TypeOK
  OneAtATime
PROPERTIES
  SavesForPicked
  Settles
CHECK_DEADLOCK FALSE
