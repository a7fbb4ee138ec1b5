SPECIFICATION Spec
CONSTANTS
  f1 = f1
  f2 = f2
  Callers <- TwoCallers
  Sids <- ThreeSids
  StartedAt <- Times
  Unit = 2
  Unset = Unset
  ShortLen = 2
  SidLen = 3
  MaxNameLen = 2
  HexDigits <- ZeroOne
  Names <- SomeNames
  Titles <- SomeTitles
  Refs <- SomeRefs
  Concerns <- AllConcerns
  MaxCalls = 2
  MaxEvents = 2
SYMMETRY AnyCaller
PROPERTIES
  PinsAreKept
  ReorderLands
  NameSticks
  NeverMisrouted
  AddressReturns
CHECK_DEADLOCK FALSE
