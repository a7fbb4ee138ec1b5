SPECIFICATION FairSpec
CONSTANTS
  t1 = t1
  t2 = t2
  c1 = c1
  pr1 = pr1
  pr2 = pr2
  Trusters <- TwoCalls
  Claudes <- OneClaude
  Inside <- TwoProjects
  Asks <- OneAndEither
  None = None
  Stale = 1
  Limit = 0
  MaxTail = 1
  MaxHold = 2
  MaxAttempts = 2
  MaxCrashes = 1
  IOFaults = TRUE
INVARIANTS
  TrustedStays
PROPERTIES
  LosesNothing
  CallsEnd
