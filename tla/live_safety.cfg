SPECIFICATION Spec
CONSTANTS
  w1 = w1  w2 = w2
  option = option  future = future  garbled = garbled  nanvol = nanvol
  cefi = cefi  tradfi = tradfi
  Nobody = Nobody
  NoSuffix = NoSuffix
  NoDate = NoDate
  Suffixes = {NoSuffix}
  AssetGroupOf <- MCAssetGroupOf
  AssetGroups = {cefi, tradfi}
  Messages = {option, future, nanvol}
  Workers = {w1, w2}
  MaxMessages = 2
  MaxDay = 1
  Undecodable = {}
  NaNVol = {nanvol}
  Priceable = {option}
  HasSourceId = {option, nanvol}
  Uuids = {u1, u2, u3}
  IdleCap = 1
  MaxFaults = 2
SYMMETRY MCSymmetry
INVARIANTS
  TypeOK
  AckedWasWritten
  CollectedWasWritten
  RowsTraceable
  OneMoreRowPerFault
PROPERTIES
  ImplementsAtLeastOnce
