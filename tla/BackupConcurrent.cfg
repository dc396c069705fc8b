SPECIFICATION Spec
CONSTANTS
  Backups = {t1, t2}
  VolumeIds = {v1, v2}
  SnapshotIds = {s1, s2}
  NoId = NoId
  StoreSnapshot = TRUE
  MaxCrashes = 0
  MaxShutdowns = 0
  MaxCancels = 2
  MaxFailures = 0
SYMMETRY Symmetry
INVARIANTS
  FinishedLeavesNoVolume
  NoDanglingSnapshot
