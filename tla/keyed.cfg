\* Plans over two entries and two paths; a circle of three calls.
SPECIFICATION MCSpec
CONSTANTS
  Workers = {w1, w2, w3}
  Planners = {w1}
  Entries = {e1, e2}
  Paths = {p1, p2, p3}
  NoPath = NoPath
  NoWorker = NoWorker
  Jobs <- MCJobs
  MaxAttempts = 2
  w1 = w1
  w2 = w2
  w3 = w3
  p1 = p1
  p2 = p2
  p3 = p3
  e1 = e1
INVARIANTS
  TypeOK
  FootprintsDisjoint
PROPERTIES
  PlansAreFresh
  ImplementsKeyLock
  CallsEnd
