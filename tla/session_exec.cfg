\* Two callers execute, disconnect and remove; a client may be lost; two clients and shells.
CONSTANTS
  p1 = p1
  p2 = p2
  None = None
  Procs <- MCProcs
  Entry = {"exec", "disconnect", "remove"}
  Faults = {"down"}
  MaxConn = 2
  MaxShell = 2
SPECIFICATION Spec
SYMMETRY Symmetry
INVARIANTS
  TypeOK
  CommandOnCurrent
PROPERTIES
  RefinesLifecycle
