SPECIFICATION FairSpec
CONSTANTS
  Backups = {t1}
  VolumeIds = {v1, v2, v3}
  SnapshotIds = {s1, s2, s3}
  NoId = NoId
  StoreSnapshot = TRUE
  MaxCrashes = 1
  MaxShutdowns = 1
  MaxCancels = 1
  MaxFailures = 1
INVARIANTS
  TypeOK
  ResumeHasIds
  SourceSnapshotExists
PROPERTY BackupEnds
