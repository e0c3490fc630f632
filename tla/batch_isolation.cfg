SPECIFICATION SharedSpec
CONSTANTS
  w1 = w1  option = option  future = future
  s1 = s1  s2 = s2  bad = bad  r1 = r1  r2 = r2  r3 = r3
  cefi = cefi  tradfi = tradfi
  Messages = {option, future}
  Workers = {w1}
  Nobody = Nobody
  MaxMessages = 2
  AssetGroups = {cefi, tradfi}
  Suffixes = {NoSuffix}
  NoSuffix = NoSuffix
  NoDate = NoDate
  AssetGroupOf <- MCAssetGroupOf
  Undecodable = {}
  NaNVol = {future}
  Priceable = {option}
  HasSourceId = {option, future}
  Uuids = {}
  IdleCap = 1
  Shards = {s1}
  RowsOf <- MCRowsOf
  Malformed = {}
  BatchGroupOf <- MCBatchGroupOf
  BatchEventIds <- MCBatchEventIds
  MaxRuns = 1
  MaxDay = 0
  MaxFaults = 0
  MaxBatchFaults = 0
PROPERTIES
  BatchIsolation
