\* Three accounts, four requests; one or two devices; up to three vaults.
SPECIFICATION MCSpec
CONSTANTS
  Users = {o, u1, u2}
  Owner = o
  MemberLimit = 2
  Invitations = {i1, i2}
  Calls = {c1, c2}
  MaxCalls = 4
  MaxExpiries = 1
  None = None
INVARIANTS
  SeatsHeld
  RecordsAgree
PROPERTIES
  DecisionsHold
CHECK_DEADLOCK FALSE
