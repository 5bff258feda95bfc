SPECIFICATION Spec
CONSTANTS
  Sizes = {s720, s1080}
  Rates = {30, 60}
  DecodedLimit = 2
  ChangeLimit = 3
  NoProfile = NoProfile
INVARIANT OutputAgrees
PROPERTY TroubleNeedsFailure
CHECK_DEADLOCK FALSE
