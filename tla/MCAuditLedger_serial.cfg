SPECIFICATION Spec
CONSTANTS
  t1 = t1
  t2 = t2
  t3 = t3
  Threads = {t1}
  Limits <- SerialLimits
  CrashPoints = {"idle", "truncate", "line"}
INVARIANT RootPinsHistory
CHECK_DEADLOCK FALSE
