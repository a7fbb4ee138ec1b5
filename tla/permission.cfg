SPECIFICATION Spec
CONSTANTS
  default = default
  plan = plan
  bypass = bypass
  dontAsk = dontAsk
  Modes <- FourModes
  Bypass <- bypass
  DontAsk <- dontAsk
  After <- Carousel
  MaxSteps = 3
  MaxAttempts = 2
  SettingsBypass = FALSE
  Edits <- OneEdit
INVARIANTS
  SuccessIsTrue
PROPERTIES
  LeftAsFound
  CallsEnd
