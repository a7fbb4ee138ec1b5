SPECIFICATION Spec
CONSTANTS
  w1 = w1
  w2 = w2
  Callers <- TwoCallers
  Nobody = Nobody
  MaxPolls = 1
  MaxKeys = 3
  MaxEvents = 2
INVARIANTS
  TypeOK
  NoOrphan
PROPERTIES
  AnsweredAsAsked
  UnknownIsLeftAlone
SYMMETRY Symmetry
CHECK_DEADLOCK FALSE
