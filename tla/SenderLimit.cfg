CONSTANTS
  g1 = g1
  g2 = g2
  d1 = d1
  d2 = d2
  listener = listener
  reader = reader
  Guids = {g1, g2}
  MaxIndex = 1
  IndexOf <- Apart
  Deas = {d1}
  DeaOf <- OnSame
  dumper = dumper
  Stores = {listener}
  Dumpers = {}
  Syncer = listener
  HeartbeatPeriod = 1
  HeartbeatTTL = 3
  CacheRefreshInterval = 6
  ActualFreshnessTTL = 3
  SenderMessageLimit = 1
  MaxFaults = 0
  MaxChanges = 2
  MaxSilences = 0
  MaxRestarts = 0
  MaxLate = 0
SPECIFICATION Spec
PROPERTY LimitIsPerInvocation
