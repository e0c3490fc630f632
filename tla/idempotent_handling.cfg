SPECIFICATION Spec
CONSTANTS
  w1 = w1  w2 = w2
  option = option  future = future  garbled = garbled  nanvol = nanvol
  cefi = cefi  tradfi = tradfi
  Nobody = Nobody
  NoSuffix = NoSuffix
  NoDate = NoDate
  Suffixes = {NoSuffix}
  AssetGroupOf <- MCAssetGroupOf
  AssetGroups = {cefi}
  Messages = {option}
  Workers = {w1}
  MaxMessages = 1
  MaxDay = 0
  Undecodable = {}
  NaNVol = {}
  Priceable = {option}
  HasSourceId = {}
  Uuids = {u1, u2}
  IdleCap = 1
  MaxFaults = 1
INVARIANTS
  IdempotentHandling
