SPECIFICATION Spec
CONSTANTS
  Nodes <- MCNodes
  FirstNode = 3
  Members <- MCMembers
  NoNode = NoNode
  MaxTerminations = 1
  MaxLaunches = 1
  MaxRestarts = 1
CONSTRAINT
  MCFewFaults
INVARIANTS
  OneMaster
