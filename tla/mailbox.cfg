SPECIFICATION Spec
CONSTANTS
  p1 = p1
  p2 = p2
  a = a
  b = b
  c = c
  Procs <- TwoProcs
  Ids <- ThreeIds
  Limits <- OneOrTwo
  Cursors <- UpToFour
  IOFaults = TRUE
  TailUnread = FALSE
INVARIANTS
  LogInOrder
  HandedOnce
  NothingPassedOver
  StoredWhenAnswered
PROPERTIES
  ImplementsInbox
