\* Three addresses besides the owner's, so that added rows collide with patch rows.
SPECIFICATION Spec
CONSTANTS
  Addresses = {"own", "a", "b", "c"}
  Owner = "own"
  Patches <- FewPatches
  MaxRows = 2
  PasswordIndices = {1}
  WritesFail = TRUE
INVARIANTS
  TypeOK
  NoTwoDoors
  RowBehindEveryEntry
  RestartKeepsTable
  UnmovedAsShown
CHECK_DEADLOCK FALSE
