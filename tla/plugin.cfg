\* Two vaults and two handlers in flight; two logins; four or five transfers.
SPECIFICATION MCSpec
CONSTANTS
  Vaults = {v1, v2}
  Jobs = {j1, j2}
  None = None
  Patient = TRUE
  Crashes = FALSE
  MaxCleanupFails = 0
  MaxFails = 1
  MaxRestarts = 1
  c1 = c1
  r1 = r1
  r2 = r2
  old = old
  t1 = t1
  t2 = t2
  t3 = t3
  t4 = t4
  t5 = t5
INVARIANTS
  NoLateEffect
  LimitIsMeasured
PROPERTIES
  SyncsAndRecovers
CHECK_DEADLOCK FALSE
