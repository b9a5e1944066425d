SPECIFICATION Spec
CONSTANTS
  v1 = v1
  v2 = v2
  c1 = c1
  c2 = c2
  Versions = {v1, v2}
  Coins = {c1, c2}
  owner <- MCOwner
  wallet <- MCWallet
  Policy = {c1}
  Senders = {s1}
  LateVersions = FALSE
  TornReorg = FALSE
  TornReturn = FALSE
  Replaces = FALSE
  MaxBlocks = 5
  MaxReorgs = 2
  MaxFaults = 1
CHECK_DEADLOCK FALSE
INVARIANTS
  TypeOK
  StoreMatchesChain
PROPERTIES
  CatchesUp
  ImplementsLedger
