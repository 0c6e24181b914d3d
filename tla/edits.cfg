\* Two edits of the user against those of other devices, in three settings.
SPECIFICATION MCSpec
CONSTANTS
  NoFile = NoFile
  NoMutation = NoMutation
  Mergeable = TRUE
  StatsFile = TRUE
  MaxMine = 2
  MaxTheirs = 2
  MaxDeletes = 1
  MaxTombstones = 1
  MaxRestores = 1
  MaxCrashes = 0
  MaxFailures = 0
INVARIANTS
  RecordedSurvive
  MergeBaseIsBaseRevision
PROPERTIES
  PushKeepsTheirs
  DeviceConverges
