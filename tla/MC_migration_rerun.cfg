SPECIFICATION Spec
CONSTANTS
  N = 1
  FeeAccount = 1
  Feds = {f0, f1}
  Fed0 = f0
  Tools = {t1}
  AllowSweepOnly = FALSE
  SyncFaults = FALSE
  BootFaults = FALSE
  MaxRuns = 2
  MaxDeposits = 1
INVARIANT NothingToDoMeansMigrated
CHECK_DEADLOCK FALSE
