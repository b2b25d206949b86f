\* Three sessions, a handler and a WarmUp goroutine that connect, two changes of the graph.
CONSTANTS
  a = a
  b = b
  c = c
  p = p
  w = w
  Names <- MCNames
  Procs <- MCProcs
  Warm <- MCWarm
  None = None
  NoRow = NoRow
  MaxConn = 2
  MaxChange = 2
SPECIFICATION Spec
SYMMETRY Symmetry
INVARIANTS
  TypeOK
  OwnedByCalls
  Acyclic
  WalkAgrees
  NoLockCycle
CHECK_DEADLOCK FALSE
