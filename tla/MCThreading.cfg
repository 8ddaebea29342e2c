SPECIFICATION Spec
CONSTANTS
  t1 = t1
  t2 = t2
  t3 = t3
  NULL = NULL
  Threads = {t1, t2, t3}
INVARIANTS
  TypeOK
  HoldersAreHonest
  DataOutlivesThread
PROPERTIES
  EveryThreadReturns
CHECK_DEADLOCK FALSE
