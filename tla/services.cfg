\* A few changes, faults and restarts; a member removed and back; two devices.
SPECIFICATION MCSpec
CONSTANTS
  Serialized = TRUE
  Blobs = {b1, b2}
  MaxChanges = 3
  MaxFaults = 2
  MaxRestarts = 1
  u1 = u1
  f1 = f1
  f2 = f2
  c1 = c1
  c2 = c2
  e1 = e1
  NoEntry = NoEntry
INVARIANTS
  ServicesAgree
PROPERTIES
  ServicesSettle
CHECK_DEADLOCK FALSE
