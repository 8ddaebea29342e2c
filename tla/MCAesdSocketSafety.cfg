SPECIFICATION Spec
CONSTANTS
  c1 = c1
  c2 = c2
  c3 = c3
  NULL = NULL
  Conns = {c1, c2}
  MaxOps = 2
  BufSize = 3
  Splits = TRUE
  Faults = {"thread", "device", "main", "signal"}
  NewLine <- MCNewLine
  Token <- MCTokens
  SeekArgs <- MCSeekArgs
  Chunks <- MCChunks
  Script <- SafetyScript
INVARIANTS
  TypeOK
  MutexHeldOnDevice
  RunningThreadHasData
  ReplyIsContents
  HalfLineHasWriter
  OwnLineIsLast
  OnlyWholeBuffersDropped
PROPERTIES
  CommandsAreLines
CHECK_DEADLOCK FALSE
