\* What is promised of rows added in the settings page, without failing writes.
SPECIFICATION Spec
CONSTANTS
  Addresses = {"own", "a", "b", "c"}
  Owner = "own"
  Patches <- FewPatches
  MaxRows = 2
  PasswordIndices = {}
  WritesFail = FALSE
INVARIANTS
  DeletedStaysHidden
CHECK_DEADLOCK FALSE
