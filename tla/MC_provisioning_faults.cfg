SPECIFICATION Spec
CONSTANTS
  u1 = u1
  u2 = u2
  u3 = u3
  r1 = r1
  r2 = r2
  Users <- MCUsers1
  SeedOrder <- MCSeedOrder1
  Admin = u1
  AdminIdx = 9
  Requests = {r1, r2}
  Boot = boot
  EagerSeed = TRUE
  Faults = TRUE
  MaxRestarts = 1
INVARIANTS
  TypeOK
  ServedWalletIsPersisted
PROPERTIES
  TasksComplete
  ServerComesUp
CHECK_DEADLOCK FALSE
