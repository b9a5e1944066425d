SPECIFICATION Spec
CONSTANTS
  N = 2
  FeeAccount = 2
  Feds = {f0, f1}
  Fed0 = f0
  Tools = {t1}
  Modes <- MCModes
  BootFaults = FALSE
  MarkFaults = TRUE
  MaxRuns = 2
  MaxDeposits = 2
SYMMETRY Symmetry
CHECK_DEADLOCK FALSE
INVARIANT SweepOnlyResumes
