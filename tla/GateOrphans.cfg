\* What is promised of a browser that logs in again: one browser, one entry, two logins
\* under way at a time.
SPECIFICATION Spec
CONSTANTS
  Browsers = {"x"}
  Logins = {1, 2}
  Logouts = {}
  Forwards = {}
  MaxTokens = 2
  MaxSaving = 1
  MaxEntry = 0
  RuntimeBase = 1
  Passwords = {"p", "q"}
  NoPassword = "unset"
  EnvPassword <- FromFile
  Addresses = {"A"}
  InitialUp <- InOrder
  InitialFile <- Distinct
PROPERTIES
  RotationLeavesNoOrphan
CHECK_DEADLOCK FALSE
