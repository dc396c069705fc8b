SPECIFICATION FairSpec
CONSTANTS
  Kinds <- AllKinds
  MaxPages <- Pages
  MaxExtras = 1
INVARIANTS
  TypeOK
  ViewCatchesUp
PROPERTIES
  CompleteStays
  LoadingEnds
CHECK_DEADLOCK FALSE
