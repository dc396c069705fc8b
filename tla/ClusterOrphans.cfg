SPECIFICATION FairTasksSpec
CONSTANTS
  Nodes = {1, 2}
  FirstNode = 2
  Members = {2}
  NoNode = NoNode
  MaxTerminations = 1
  MaxLaunches = 1
  MaxRestarts = 0
  b1 = b1
  r1 = r1
  g1 = g1
  s1 = s1
  Tasks = {r1}
  TypeOf <- MCTypeOf
  Regular = {}
  NoTask = NoTask
  BackupThreads = 1
  RestoreThreads = 1
  MaxRuns = 1
  MaxRemovals = 0
  MaxFailures = 1
INVARIANTS
  OnlyOrphansGivenBack
PROPERTIES
  OrphanIsFreed
  UnassignedIsAssigned
  EventIsRead
  LowestTakesOver
