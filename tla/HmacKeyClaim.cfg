\* Three loggers, of which each may follow the one before in the same process or
\* after a death.
SPECIFICATION Spec
CONSTANTS
  MaxLoggers = 3
PROPERTIES
  KeyReused
CHECK_DEADLOCK FALSE
