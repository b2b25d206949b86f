\* Any via graph of three sessions, a handler and a WarmUp goroutine that connect, two clients.
CONSTANTS
  a = a
  b = b
  c = c
  p = p
  w = w
  Names <- MCNames
  Procs <- MCProcs
  Warm <- MCWarm
  None = None
  NoRow = NoRow
  MaxConn = 2
  MaxChange = 0
SPECIFICATION FairSpec
PROPERTIES
  ConnectReturns
CHECK_DEADLOCK FALSE
