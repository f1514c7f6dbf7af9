\* What the code says of its one-time token: two pages or forms of one browser.
SPECIFICATION SetupSpec
CONSTANTS
  Browsers = {"x"}
  Logins = {}
  Logouts = {}
  Forwards = {}
  MaxTokens = 2
  MaxSaving = 1
  MaxEntry = 0
  RuntimeBase = 1
  Passwords = {"p", "q"}
  NoPassword = "unset"
  EnvPassword <- NoEnv
  Addresses = {"A"}
  InitialUp <- OneAddress
  InitialFile <- NoEnv
  Forms = {f1, f2}
  MaxSetup = 2
PROPERTIES
  TokenSetsOnce
CHECK_DEADLOCK FALSE
