SPECIFICATION Spec
CONSTANTS
  MaxLegs = 4
  Chains <- MCChains
  AsOf = 2
  Missing = Missing
INVARIANTS
  SurfaceTypeOK
  VenueTakesPrecedence
  OnePointPerUsableLeg
  IndexesAgree
CHECK_DEADLOCK FALSE
