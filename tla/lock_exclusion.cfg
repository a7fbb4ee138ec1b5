SPECIFICATION FairSpec
CONSTANTS
  p1 = p1
  p2 = p2
  p3 = p3
  Procs <- ThreeProcs
  None = None
  Stale = 2
  Wait = 1
  MaxHold = 2
  MaxCrashes = 0
  Removable = TRUE
INVARIANTS
  MutualExclusion
PROPERTIES
  RemovesOwnOrAbandoned
