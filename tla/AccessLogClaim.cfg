\* Three calls, two loggers, lines of half a file or a whole one, of which two are
\* kept, and any files from before.
SPECIFICATION Spec
CONSTANTS
  Calls = {c1, c2, c3}
  MaxLoggers = 2
  Cap = 2
  Lengths = {1, 2}
  KeepFiles = 2
  MaxFile = 3
INVARIANT HardCap
