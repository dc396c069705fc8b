SPECIFICATION TasksSpec
CONSTANTS
  Nodes = {1, 2}
  FirstNode = 2
  Members = {1, 2}
  NoNode = NoNode
  MaxTerminations = 0
  MaxLaunches = 0
  MaxRestarts = 1
  b1 = b1
  r1 = r1
  g1 = g1
  s1 = s1
  Tasks = {b1, g1, s1}
  TypeOf <- MCTypeOf
  Regular = {g1}
  NoTask = NoTask
  BackupThreads = 1
  RestoreThreads = 1
  MaxRuns = 3
  MaxRemovals = 1
  MaxFailures = 1
INVARIANTS
  TasksTypeOK
  SingleExecution
  NoOverload
