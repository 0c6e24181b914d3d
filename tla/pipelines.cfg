\* Two files, one larger than the budget; an edit and a fault.
SPECIFICATION MCSpec
CONSTANTS
  Items = {1, 2}
  Size <- Sizes
  MaxBytes = 2
  Text = {1}
  Priority = {}
  MaxOwned = 2
  MaxBatch = 2
  Workers = 2
  MaxEdits = 1
  MaxFaults = 1
INVARIANTS
  NothingLeaks
PROPERTIES
  WorkEnds
CHECK_DEADLOCK FALSE
