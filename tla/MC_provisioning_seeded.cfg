SPECIFICATION Spec
CONSTANTS
  u1 = u1
  u2 = u2
  u3 = u3
  r1 = r1
  r2 = r2
  Users <- MCUsers3
  SeedOrder <- MCSeedOrder3
  Admin = u3
  AdminIdx = 9
  Requests = {r1, r2}
  Boot = boot
  EagerSeed = TRUE
  Faults = FALSE
  MaxRestarts = 1
INVARIANTS
  KeyIsolation
  KeyMatchesAccount
PROPERTIES
  DescriptorStable
SYMMETRY Symmetry
CHECK_DEADLOCK FALSE
