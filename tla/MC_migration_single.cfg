SPECIFICATION Spec
CONSTANTS
  N = 2
  FeeAccount = 2
  Feds = {f0, f1, f2}
  Fed0 = f0
  Tools = {t1}
  AllowSweepOnly = FALSE
  SyncFaults = FALSE
  BootFaults = FALSE
  MaxRuns = 2
  MaxDeposits = 2
INVARIANTS
  TypeOK
  FundsTracked
  CompleteMeansSwept
  LatestNotApplicable
SYMMETRY Symmetry
CHECK_DEADLOCK FALSE
