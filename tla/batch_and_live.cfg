SPECIFICATION SharedSpec
CONSTANTS
  w1 = w1  option = option  future = future
  s1 = s1  s2 = s2  bad = bad  r1 = r1  r2 = r2  r3 = r3
  cefi = cefi  tradfi = tradfi
  Messages = {option}
  Workers = {w1}
  Nobody = Nobody
  MaxMessages = 1
  AssetGroups = {cefi, tradfi}
  Suffixes = {NoSuffix}
  NoSuffix = NoSuffix
  NoDate = NoDate
  AssetGroupOf <- MCAssetGroupOf
  Undecodable = {}
  NaNVol = {}
  Priceable = {option}
  HasSourceId = {option}
  Uuids = {}
  IdleCap = 1
  Shards = {s1, s2}
  RowsOf <- MCRowsOf
  Malformed = {bad}
  BatchGroupOf <- MCBatchGroupOf
  BatchEventIds <- MCBatchEventIds
  MaxRuns = 2
  MaxDay = 1
  MaxFaults = 1
  MaxBatchFaults = 2
INVARIANTS
  SharedRowsTraceable
  BatchTypeOK
  CountIsHonest
  FailureCostsOnlyItsOwn
