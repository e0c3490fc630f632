SPECIFICATION Spec
CONSTANTS
  Keys = {optionKey, perpKey}
  Ttl = 2
  Absent = Absent
  Failed = Failed
  MaxRev = 2
  MaxClock = 3
SYMMETRY MCSymmetry
INVARIANTS
  TypeOK
  BoundedStaleness
PROPERTIES
  MonotoneReads
  ForgottenStaysForgotten
CONSTRAINT MCFewRevisions
