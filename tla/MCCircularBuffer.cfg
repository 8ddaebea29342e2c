SPECIFICATION Spec
CONSTANTS
  MaxOps = 10
  NULL = NULL
  Entries <- MCEntries
INVARIANTS
  ForeachVisitsLog
  FindAgreesWithConcatenation
  ReplacedIsReturned
