\* One name, two handlers that do anything to it, one restart.
CONSTANTS
  a = a
  p1 = p1
  p2 = p2
  None = None
  Names <- MCNames
  Procs <- MCProcs
  Entry = {"exec", "connect", "transfer", "terminal", "disconnect", "remove"}
  MaxSession = 2
  MaxTerm = 2
  MaxRestart = 1
SPECIFICATION Spec
SYMMETRY Symmetry
INVARIANTS
  TypeOK
  NoCommandCut
PROPERTIES
  RefinesDirectory
  NoLeakedTerminal
  AuditedIfRegistered
CHECK_DEADLOCK FALSE
