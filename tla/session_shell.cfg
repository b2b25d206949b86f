\* Connections and shells outside Exec, transfers, links that hang, and safe_rm
\* toggled at any time.
CONSTANTS
  p1 = p1
  p2 = p2
  None = None
  Procs <- MCProcs
  Entry = {"test", "transfer", "update"}
  Faults = {"hung", "down"}
  MaxConn = 2
  MaxShell = 1
SPECIFICATION Spec
SYMMETRY Symmetry
INVARIANTS
  NoStaleShell
  NoLeakedClient
  WatchedConn
  RelayMatchesConn
