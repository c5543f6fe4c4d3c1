CONSTANTS
  Call = {k}
  MaxOpens = 2
  MaxMisdeeds = 1
SPECIFICATION FairSpec
INVARIANTS
  OffersOnce
  HonestNeverEnded
  Released
PROPERTIES
  PrivateStaysInChat
  ImplementsSession
  AppStarts
  ButtonReturns
\* Openings are bounded, and nobody has to open a view.
CHECK_DEADLOCK FALSE
