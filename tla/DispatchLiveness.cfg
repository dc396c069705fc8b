SPECIFICATION FairSpec
CONSTANTS
  b1 = b1
  b2 = b2
  r1 = r1
  d1 = d1
  s1 = s1
  NoTask = NoTask
  TypeOf <- MCTypeOf
  Tasks = {b1, d1}
  BackupThreads = {w1}
  RestoreThreads = {}
  MaxQueueSize = 2
  MaxRestarts = 1
  MaxOutages = 1
PROPERTIES
  AssignedIsTaken
  WaitingIsExecuted
  SubmittedIsReleased
