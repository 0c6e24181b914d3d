\* A Durable Object: handlers interleave at every await, policies change.
CONSTANTS
  Entries = {e1}
  Blobs = {b1, b2}
  Mutations = {m1}
  Procs = {p1, p2}
  NoBlob = NoBlob
  NoMutation = NoMutation
  Sizes <- TwoSizes
  Policies <- TightPolicies
  InitialPauses <- AnyPause
  Serialized = FALSE
  Ops <- AllOps
  Grace = 1
  StaleAfter = 1
  BucketLength = 2
  RepairLimit = 1
  GcBatch = 2
  MaxBatch = 1
  MaxTime = 2
SPECIFICATION Spec
SYMMETRY Symmetry
INVARIANTS
  UsageExact
PROPERTIES
  PausedVaultIsFrozen
  QuotaRespected
