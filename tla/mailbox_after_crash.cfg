SPECIFICATION Spec
CONSTANTS
  p1 = p1
  p2 = p2
  a = a
  b = b
  Procs <- TwoProcs
  Ids <- TwoIds
  Limits <- One
  Cursors <- One
  IOFaults = FALSE
  TailUnread = FALSE
  None = None
  Stale = 1
  Wait = 0
  MaxHold = 1
  MaxCrashes = 1
  Removable = TRUE
INVARIANT
  StoredWhenAnswered
PROPERTY
  LogIsAppendOnly
