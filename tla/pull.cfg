\* Three entries or four, two paths and three texts; what each setting allows is
\* what the code gets right (README).
SPECIFICATION MCSpec
CONSTANTS
  Theirs = {x1, x2}
  Mine = {y}
  Paths = {p, q}
  Texts = {s, t, u}
  Managed = {}
  Refused = {}
  None = None
  PageSize = 2
  MaxCopies = 4
  MaxSeq = 3
  MaxEdits = 2
  MaxFailures = 0
  TheyMove = FALSE
  UserMoves = FALSE
  UserReuses = FALSE
  Meet = TRUE
  Restores = FALSE
  Flickers = FALSE
  SameSecond = FALSE
  x1 = x1
  x2 = x2
  x3 = x3
  p = p
SYMMETRY Symmetry
INVARIANTS
  NothingIsLost
  AllConverged
PROPERTIES
  OwnDeletions
CHECK_DEADLOCK FALSE
