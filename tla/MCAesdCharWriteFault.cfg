SPECIFICATION Spec
CONSTANTS
  MaxOps = 2
  NULL = NULL
  ZeroSizePtr = ZeroSizePtr
  p1 = p1
  p2 = p2
  b1 = b1
  b2 = b2
  b3 = b3
  b4 = b4
  f1 = f1
  Procs = {p1, p2}
  Files = {f1}
  Blocks = {b1, b2, b3, b4}
  NewLine <- MCNewLine
  Byte <- MCBytes
  Requests <- MCRequests
  MaxPartial = 1
  MaxPos = 0
INVARIANTS
  CommandsTerminated
