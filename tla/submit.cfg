SPECIFICATION Spec
CONSTANTS
  c1 = c1
  c2 = c2
  Calls <- TwoCalls
  MaxReplies = 1
  MaxEnters = 2
  MaxDialogs = 1
  Lookalikes <- Lines
  Quoted <- Unlucky
  LostAcks <- Unlucky
  Blind <- Unlucky
INVARIANTS
  TypeOK
  DeliveredOnce
  SuccessIsReal
PROPERTY DialogsAreLeftAlone
