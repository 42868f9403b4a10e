CONSTANTS
  g1 = g1
  g2 = g2
  d1 = d1
  d2 = d2
  listener = listener
  reader = reader
  Guids = {g1}
  MaxIndex = 1
  IndexOf <- Zero
  Deas = {d1}
  DeaOf <- OnOne
  dumper = dumper
  Stores = {listener, dumper}
  Dumpers = {dumper}
  Syncer = listener
  HeartbeatPeriod = 1
  HeartbeatTTL = 2
  CacheRefreshInterval = 4
  ActualFreshnessTTL = 2
  SenderMessageLimit = 1
  MaxFaults = 2
  MaxChanges = 1
  MaxSilences = 1
  MaxRestarts = 0
  MaxLate = 1
SPECIFICATION Spec
INVARIANT TypeOK
PROPERTY StoreRecovers
