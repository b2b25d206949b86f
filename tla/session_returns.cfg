\* Liveness: links that stay silent, hang or drop while both callers execute
\* and disconnect; no symmetry.
CONSTANTS
  p1 = p1
  p2 = p2
  None = None
  Procs <- MCProcs
  Entry = {"exec", "disconnect"}
  Faults = {"stalled", "hung", "down"}
  MaxConn = 1
  MaxShell = 1
SPECIFICATION FairSpec
PROPERTIES
  ReturnsIfAnswered
  DisconnectFinishes
