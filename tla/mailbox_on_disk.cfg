SPECIFICATION Spec
CONSTANTS
  p1 = p1
  p2 = p2
  a = a
  b = b
  Procs <- TwoProcs
  Ids <- TwoIds
  Limits <- One
  Cursors <- One
  IOFaults = FALSE
  TailUnread = FALSE
  None = None
  Stale = 2
  Wait = 0
  MaxHold = 2
  MaxCrashes = 0
  Removable = TRUE
PROPERTY
  ImplementsMailbox
