SPECIFICATION Spec
CONSTANTS
  Prices = {0, 1, 2, 3, 4}
  Rates <- MCRates
  Vols = {0, 1, 2, 9}
  Roots = {0, 1, 2}
  Log <- MCLog
  Disc <- MCDisc
  Vanishing <- MCVanishing
  Endless <- MCEndless
  Overflowing <- MCOverflowing
  Points <- MCPoints
  Cdf <- MCCdf
  Pdf <- MCPdf
  One = 4
  Largest = 50
  Unasked = Unasked
INVARIANTS
  PricingEquation
  PutCallDuality
  PutCallParity
  VolgaFollowsMoneyness
CHECK_DEADLOCK FALSE
