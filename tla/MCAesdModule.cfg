SPECIFICATION FairModuleSpec
CONSTANTS
  MaxOps = 1
  NULL = NULL
  ZeroSizePtr = ZeroSizePtr
  p1 = p1
  p2 = p2
  b1 = b1
  b2 = b2
  b3 = b3
  f1 = f1
  m1 = m1
  m2 = m2
  Procs = {p1, p2}
  Files = {f1}
  Blocks = {b1, b2, b3}
  Majors = {m1, m2}
  NewLine <- MCNewLine
  Byte <- MCBytes
  Requests <- MCRequests
  MaxPartial = 1
  MaxPos = 0
INVARIANTS
  ModuleTypeOK
  HandlersHaveModule
  UnloadLeavesNothing
  NodeLeadsToDevice
PROPERTIES
  EveryCallReturns
  UnloadEnds
