\* Three calls and two loggers, lines of half a file or a whole one, of which two are
\* kept, and any files from before; or three loggers that look for the key, each in the
\* process of the one before or after its death.
SPECIFICATION LoggerSpec
CONSTANTS
  Calls = {c1, c2, c3}
  MaxLoggers = 3
  Cap = 2
  Lengths = {1, 2}
  KeepFiles = 2
  MaxFile = 3
CONSTRAINT Focus
SYMMETRY Symmetry
INVARIANTS
  TypeOK
  KeyTypeOK
  Chronological
PROPERTIES
  OnlyOldestLost
  AloneWithinCap
  KeyStays
CHECK_DEADLOCK FALSE
