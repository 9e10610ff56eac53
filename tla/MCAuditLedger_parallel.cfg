SPECIFICATION Spec
CONSTANTS
  t1 = t1
  t2 = t2
  t3 = t3
  Threads = {t1, t2}
  Limits <- ParallelLimits
  CrashPoints = {}
INVARIANT ReloadIntact
CHECK_DEADLOCK FALSE
