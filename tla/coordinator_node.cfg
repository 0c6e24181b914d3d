\* One process serves the vault and runs each request to its end.
SPECIFICATION Spec
CONSTANTS
  Entries = {e1, e2}
  Blobs = {b1}
  Mutations = {m1, m2, m3}
  Procs = {p1, p2}
  NoBlob = NoBlob
  NoMutation = NoMutation
  Sizes <- OneSize
  Policies <- Unlimited
  InitialPauses <- AnyPause
  Serialized = TRUE
  Ops <- NodeOps
  Grace = 1
  StaleAfter = 1
  BucketLength = 2
  RepairLimit = 1
  GcBatch = 2
  MaxBatch = 2
  MaxTime = 2
SYMMETRY Symmetry
INVARIANTS
  TypeOK
  CurrentBlobStored
  HistoryRestorable
  LiveIffReferenced
PROPERTIES
  GracePeriodHonoured
  ImplementsLog
