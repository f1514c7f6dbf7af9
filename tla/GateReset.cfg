\* The README's promise about a new password.  One browser, two entries,
\* two passwords; one login under way at a time.
SPECIFICATION Spec
CONSTANTS
  Browsers = {"x"}
  Logins = {1}
  Logouts = {}
  Forwards = {}
  MaxTokens = 2
  MaxSaving = 1
  MaxEntry = 1
  RuntimeBase = 1
  Passwords = {"p", "q"}
  NoPassword = "unset"
  EnvPassword <- FromFile
  Addresses = {"A", "B"}
  InitialUp <- InOrder
  InitialFile <- Distinct
INVARIANTS
  PasswordResetRevokes
CHECK_DEADLOCK FALSE
