\* Two commands in turn, each of which overflows the buffer; reads of one or two
\* pieces, one piece of noise.  No symmetry: RunReturns is a liveness property.
CONSTANTS
  c1 = c1
  c2 = c2
  None = None
  Serialised = TRUE
  Cmds <- MCTwo
  HeadKeep = 1
  TailKeep = 2
  MaxBuf = 4
  IdleMax = 2
  MaxChunk = 2
  MaxOut = 3
  MaxNoise = 1
SPECIFICATION FairSpec
INVARIANTS
  TypeOK
  OutputFaithful
  BufBounded
PROPERTIES
  RefinesService
  RunReturns
CHECK_DEADLOCK FALSE
