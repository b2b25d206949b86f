\* One browser, five chunks of output for a queue of two, a shell that may end.
CONSTANTS
  h1 = h1
  Handlers <- MCHandlers
  QueueMax = 2
  Window = 1
  MaxChunk = 5
  MaxShell = 1
SPECIFICATION FairSpec
INVARIANTS
  TypeOK
  WriteExclusive
  Faithful
PROPERTIES
  HandlerReturns
  KeyTaken
CHECK_DEADLOCK FALSE
