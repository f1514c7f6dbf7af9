\* One browser, two entries, two passwords, one session at a time; a login, a logout
\* and a request to be forwarded under way at once.
SPECIFICATION FairSpec
CONSTANTS
  Browsers = {"x"}
  Logins = {1}
  Logouts = {2}
  Forwards = {3}
  MaxTokens = 1
  MaxSaving = 1
  MaxEntry = 1
  RuntimeBase = 1
  Passwords = {"p", "q"}
  NoPassword = "unset"
  EnvPassword <- FromFile
  Addresses = {"A", "B"}
  InitialUp <- InOrder
  InitialFile <- Distinct
INVARIANTS
  TypeOK
  RevocationReachesSessions
PROPERTIES
  ForwardsToOwnUpstream
  LoginAnswered
CHECK_DEADLOCK FALSE
