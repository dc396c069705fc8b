SPECIFICATION FairSpec
CONSTANTS
  VolumeIds = {v1, v2, v3, v4, v5, v6}
  SnapshotIds = {s1, s2, s3}
  NoId = NoId
  MaxEvents = 2
INVARIANTS
  TypeOK
  CompleteIsRestored
  RestoredIsWhole
  UsesWhatExists
  DeletedIsGone
CHECK_DEADLOCK FALSE
PROPERTY RestoreEnds
