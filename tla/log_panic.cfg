CONSTANTS
  g1 = g1
  g2 = g2
  Loggers <- MCLoggers
  Capacity = 2
  MaxLogs = 1
SPECIFICATION Spec
INVARIANT NoPanic
CHECK_DEADLOCK FALSE
