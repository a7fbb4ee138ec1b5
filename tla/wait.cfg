SPECIFICATION FairSpec
CONSTANTS
  Waiters = {w1, w2}
  Ids = {m1}
  Cursors = {0}
  NoCursor = NoCursor
  Limits = {1}
  MaxWrites = 2
INVARIANTS
  TypeOK
  TimeoutMeansNothingThere
PROPERTIES
  NoLostWakeup
  WaitEnds
