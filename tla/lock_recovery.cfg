SPECIFICATION FairSpec
CONSTANTS
  p1 = p1
  p2 = p2
  p3 = p3
  Procs <- TwoProcs
  None = None
  Stale = 2
  Wait = 1
  MaxHold = 2
  MaxCrashes = 2
  Removable = TRUE
PROPERTIES
  AbandonedIsRecovered
  BoundedWait
  ImplementsStealable
