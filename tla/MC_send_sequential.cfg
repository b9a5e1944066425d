SPECIFICATION Spec
CONSTANTS
  Tasks = {t1}
  Deposits = {d1, d2}
  OldDeposits = {}
  Lookahead = 1
  LateOverlaps = FALSE
  MaxPays = 3
  MaxLostWrites = 1
  MaxRestarts = 1
SYMMETRY Symmetry
CHECK_DEADLOCK FALSE
INVARIANTS
  TypeOK
  ChangeFound
  SendMaxDrains
PROPERTY ImplementsLedger
