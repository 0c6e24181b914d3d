\* A device with its drain and a second puller beside devices outside the model;
\* and its store, of two files, or of one that is edited while it is pushed.
SPECIFICATION MCSpec
CONSTANTS
  Devices = {d1}
  Entries = {e1, e2}
  Mutations = {m1, m2, m3}
  NoMutation = NoMutation
  Pullers = {drain, other}
  Drain = drain
  PageSize = 1
  WindowSize = 1
  Third = m3
  f1 = f1
  f2 = f2
  note = note
  image = image
  b1 = b1
  b2 = b2
  None = None
  Retry = Retry
SYMMETRY Symmetry
INVARIANTS
  TypeOK
  CheckpointGapFree
  NeverAheadOfServer
  StoresAgree
PROPERTIES
  KnownNeverRollsBack
  StoresKeepEdits
CHECK_DEADLOCK FALSE
