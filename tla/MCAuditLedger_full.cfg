SPECIFICATION Spec
CONSTANTS
  t1 = t1
  t2 = t2
  t3 = t3
  Threads = {t1, t2}
  Limits <- FullLimits
  CrashPoints = {"idle", "truncate", "line", "newline"}
SYMMETRY Symmetry
INVARIANTS TypeOK ChainIntact DiskAgrees AckedSurvives OrderlyReload ExportVerifies
PROPERTIES AppendOnly IsDurableLedger
CHECK_DEADLOCK FALSE
