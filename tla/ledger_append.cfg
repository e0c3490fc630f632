SPECIFICATION Spec
CONSTANTS
  w1 = w1  w2 = w2
  option = option  future = future  garbled = garbled  nanvol = nanvol
  cefi = cefi  tradfi = tradfi
  Nobody = Nobody
  NoSuffix = NoSuffix
  NoDate = NoDate
  Suffixes = {NoSuffix}
  AssetGroupOf <- MCAssetGroupOf
  AssetGroups = {cefi}
  Messages = {option, nanvol}
  Workers = {w1}
  MaxMessages = 2
  MaxDay = 0
  Undecodable = {}
  NaNVol = {}
  Priceable = {option, nanvol}
  HasSourceId = {option, nanvol}
  Uuids = {}
  IdleCap = 1
  MaxFaults = 0
PROPERTIES
  LedgerAppends
