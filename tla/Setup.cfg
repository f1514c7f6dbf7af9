\* The owner's entry, without a password at first: one browser, two pages or forms
\* a login and a logout under way, two one-time tokens, two sessions.
SPECIFICATION SetupSpec
CONSTANTS
  Browsers = {"x"}
  Logins = {1}
  Logouts = {2}
  Forwards = {}
  MaxTokens = 2
  MaxSaving = 1
  MaxEntry = 0
  RuntimeBase = 1
  Passwords = {"p", "q"}
  NoPassword = "unset"
  EnvPassword <- NoEnv
  Addresses = {"A"}
  InitialUp <- OneAddress
  InitialFile <- NoEnv
  Forms = {f1, f2}
  MaxSetup = 2
SYMMETRY Symmetry
INVARIANTS
  SetupTypeOK
  RevocationReachesSessions
PROPERTIES
  OnlyNewestUnspent
CHECK_DEADLOCK FALSE
