SPECIFICATION Spec
CONSTANTS
  VolLow = 1
  VolHigh = 17
  Steps = 4
  Widths <- MCWidths
  Tol = 2
  Rises = 3
  Prices <- MCPrices
  Marks <- MCMarks
  MaxIters = {2, 4}
  NoVol = NoVol
INVARIANTS
  TypeOK
  Bracketed
  FittedPricesTheMark
  NoneOnlyOutOfBounds
  RoundTrip
CHECK_DEADLOCK FALSE
