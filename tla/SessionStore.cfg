\* Two tokens, two entries; a session lives 4 ticks, is renewed from the third.
SPECIFICATION Spec
CONSTANTS
  MaxTokens = 2
  Entries = {admin, guest}
  NoEntry = NoEntry
  TTL = 4
  MaxTime = 5
  MaxLines = 3
INVARIANTS
  TypeOK
  LoadIsReplay
  Mirrors
PROPERTIES
  NoResurrection
  ImplementsTable
CHECK_DEADLOCK FALSE
