CONSTANTS
  r1 = r1
  w1 = w1
  w2 = w2
  Readers = {r1}
  Writers = {w1, w2}
  PIPE_BUF = 2
  PIPE_MINDIRECT = 3
  MINPIPESIZE = 1
  SMALL_PIPE_SIZE = 2
  PIPE_SIZE = 4
  BIG_PIPE_SIZE = 4
  PipeSizes = {2, 4}
  ReadSizes = {2}
  WriteSizes <- Sizes
  FNONBLOCK = {w2}
  Pollers = {r1, w1}
  Faults = {"read", "write"}
  None = None
CHECK_DEADLOCK FALSE
SPECIFICATION Spec
INVARIANTS TypeOK NobodyStranded PollIsTold
PROPERTIES ImplementsStream
