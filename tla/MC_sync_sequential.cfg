SPECIFICATION Spec
CONSTANTS
  Tasks = {t1}
  Versions = 1
  Deposits = {d1}
  Sweep = sw
  Backends <- MCBoth
  Faults = TRUE
  ToolOverlaps = FALSE
  MaxBlocks = 4
  MaxReorgs = 1
  MaxRestarts = 1
CHECK_DEADLOCK FALSE
INVARIANTS
  TypeOK
  PersistedCoversTip
  NoPhantom
  RevealDurable
  EvictedSweepReverted
PROPERTY NoFalseRevert
