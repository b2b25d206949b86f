\* Two loggers fill a queue of two while the server shuts down; no symmetry.
CONSTANTS
  g1 = g1
  g2 = g2
  Loggers <- MCLoggers
  Capacity = 2
  MaxLogs = 3
SPECIFICATION FairSpec
INVARIANTS
  TypeOK
  NothingLost
  DrainedBeforeClose
PROPERTIES
  ShutdownReturns
  LogReturns
CHECK_DEADLOCK FALSE
