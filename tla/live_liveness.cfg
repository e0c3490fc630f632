SPECIFICATION FairSpec
CONSTANTS
  w1 = w1  w2 = w2
  option = option  future = future  garbled = garbled  nanvol = nanvol
  cefi = cefi  tradfi = tradfi
  Nobody = Nobody
  NoSuffix = NoSuffix
  NoDate = NoDate
  Suffixes = {NoSuffix}
  AssetGroupOf <- MCAssetGroupOf
  AssetGroups = {cefi}
  Messages = {option, nanvol, garbled}
  Workers = {w1, w2}
  MaxMessages = 2
  MaxDay = 0
  Undecodable = {garbled}
  NaNVol = {nanvol}
  Priceable = {option}
  HasSourceId = {option, nanvol, garbled}
  Uuids = {}
  IdleCap = 1
  MaxFaults = 1
PROPERTIES
  GoodIsSettled
  PoisonComesBack
