\* What is promised of an entry that is switched off: one browser, two entries, a login and
\* a request to be forwarded under way at a time.
SPECIFICATION Spec
CONSTANTS
  Browsers = {"x"}
  Logins = {1}
  Logouts = {}
  Forwards = {3}
  MaxTokens = 1
  MaxSaving = 1
  MaxEntry = 1
  RuntimeBase = 1
  Passwords = {"p", "q"}
  NoPassword = "unset"
  EnvPassword <- FromFile
  Addresses = {"A", "B"}
  InitialUp <- InOrder
  InitialFile <- Distinct
PROPERTIES
  OffGetsNothing
CHECK_DEADLOCK FALSE
