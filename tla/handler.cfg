SPECIFICATION HandlerSpec
CONSTANTS
  option = option
  e1 = e1
  Keys = {option}
  Ttl = 2
  Absent = Absent
  Failed = Failed
  None = None
  MaxRev = 2
  MaxClock = 3
  SourceIds = {e1}
  Uuids = {u1, u2}
  Updates <- MCUpdates
  TermsOf <- MCTermsOf
SYMMETRY MCSymmetry
INVARIANTS
  HandlerTypeOK
  GreeksOnlyForLiveOptions
  NoneHasACause
PROPERTIES
  SameRecordSameRow
