SPECIFICATION Spec
CONSTANTS
  Backups = {t1, t2}
  VolumeIds = {v1, v2, v3, v4}
  SnapshotIds = {s1, s2, s3, s4}
  NoId = NoId
  StoreSnapshot = FALSE
  MaxCrashes = 1
  MaxShutdowns = 0
  MaxCancels = 0
  MaxFailures = 0
SYMMETRY Symmetry
INVARIANT CompleteIsRestorable
