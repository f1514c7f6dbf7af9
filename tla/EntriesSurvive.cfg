\* What is promised of rows added in the settings page, without failing writes.
SPECIFICATION Spec
CONSTANTS
  Addresses = {"own", "a", "b", "c"}
  Owner = "own"
  Patches <- FewPatches
  MaxRows = 3
  PasswordIndices = {}
  WritesFail = FALSE
INVARIANTS
  AddedSurvive
CHECK_DEADLOCK FALSE
