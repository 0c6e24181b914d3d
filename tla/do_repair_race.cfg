\* A Durable Object: two repairs and the operator of a vault paused for repair.
CONSTANTS
  Entries = {e1}
  Blobs = {b1, b2}
  Mutations = {m1}
  Procs = {p1, p2}
  NoBlob = NoBlob
  NoMutation = NoMutation
  Sizes <- OneSize
  Policies <- Unlimited
  InitialPauses <- RepairPaused
  Serialized = FALSE
  Ops <- PauseOps
  Grace = 1
  StaleAfter = 1
  BucketLength = 2
  RepairLimit = 2
  GcBatch = 1
  MaxBatch = 1
  MaxTime = 2
SPECIFICATION Spec
SYMMETRY Symmetry
PROPERTIES
  RepairKeepsManualPause
