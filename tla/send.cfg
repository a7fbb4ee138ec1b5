SPECIFICATION Spec
CONSTANTS
  Procs = {p1, p2}
  Ids = {m1, m2}
  Senders <- OneSender
  Keys <- OneKey
  Nobody = Nobody
  Blank = Blank
  MaxCrashes = 1
  IOFaults = TRUE
  KeyUnread = FALSE
SYMMETRY Symmetric
INVARIANTS
  StatusIsCurrent
  OneDeliveryPerKey
  NothingUnrecorded
PROPERTIES
  StatusNeverFallsBack
