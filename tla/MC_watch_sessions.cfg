SPECIFICATION Spec
CONSTANTS
  Sessions = {s1, s2}
  Scripts = {x1, x2}
  Modes <- MCBoth
  SyncFaults <- MCPolled
  WatchFaults = FALSE
  BufferSize = 1
  MaxChanges = 1
  MaxLeaks = 1
CHECK_DEADLOCK FALSE
INVARIANTS
  TypeOK
  SubscriptionsHeld
  NoLostWakeup
PROPERTY PaymentShown
