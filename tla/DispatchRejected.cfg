SPECIFICATION RejectionSpec
CONSTANTS
  b1 = b1
  r1 = r1
  NoTask = NoTask
  TypeOf <- MCTypeOf
  Tasks = {b1}
  BackupThreads = {w1}
  RestoreThreads = {}
  MaxQueueSize = 1
  MaxRestarts = 0
  MaxOutages = 0
PROPERTY RejectedDoesNotComplete
