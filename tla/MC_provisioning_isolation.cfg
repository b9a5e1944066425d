SPECIFICATION Spec
CONSTANTS
  u1 = u1
  u2 = u2
  u3 = u3
  r1 = r1
  r2 = r2
  Users <- MCUsers2
  SeedOrder <- MCSeedOrder2
  Admin = u2
  AdminIdx = 9
  Requests = {r1, r2}
  Boot = boot
  EagerSeed = FALSE
  Faults = TRUE
  MaxRestarts = 1
INVARIANT KeyIsolation
CHECK_DEADLOCK FALSE
