SPECIFICATION FairSpec
CONSTANTS
  c1 = c1
  c2 = c2
  c3 = c3
  NULL = NULL
  Conns = {c1, c2}
  MaxOps = 2
  BufSize = 3
  Splits = FALSE
  Faults = {"signal"}
  NewLine <- MCNewLine
  Token <- MCTokens
  SeekArgs <- MCSeekArgs
  Chunks <- MCChunks
  Script <- EmptyLineScript
PROPERTIES
  StopEndsServer
CHECK_DEADLOCK FALSE
