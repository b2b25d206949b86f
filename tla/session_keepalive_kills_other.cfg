\* A keepalive goroutine disconnects a client newer than the one whose keepalive
\* failed.
CONSTANTS
  p1 = p1
  p2 = p2
  None = None
  Procs <- MCProcs
  Entry = {"connect", "disconnect"}
  Faults = {"down"}
  MaxConn = 2
  MaxShell = 1
SPECIFICATION Spec
SYMMETRY Symmetry
PROPERTIES
  KeepaliveOwnOnly
