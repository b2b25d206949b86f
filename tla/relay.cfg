\* Two callers of Close, two candidates, two chunks each way.
CONSTANTS
  c1 = c1
  c2 = c2
  Closers <- MCClosers
  Candidates = 2
  MaxChunk = 2
SPECIFICATION FairSpec
INVARIANTS
  TypeOK
  NoStrayProcess
PROPERTIES
  RefinesLink
  CloseReturns
  LossNoticed
CHECK_DEADLOCK FALSE
