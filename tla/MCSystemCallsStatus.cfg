SPECIFICATION Spec
CONSTANTS
  t1 = t1
  t2 = t2
  k1 = k1
  k2 = k2
  k3 = k3
  NULL = NULL
  Threads = {t1, t2}
  Pids = {k1, k2, k3}
  Script <- OneThread
INVARIANTS
  NonZeroReported
CHECK_DEADLOCK FALSE
