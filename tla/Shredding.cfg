SPECIFICATION Spec
CONSTANTS
  Processes = {p1, p2}
  Shredders = {p1, p2}
  Nobody = Nobody
  PollingInterval = 1
  Timeout = 1
  Keys <- StoreKeys
  VersionOf <- Versions
  Locks <- Spared
  SchemaVersion = 1
  Current = "v1"
  MaxSaves = 1
  MaxFaults = 1
INVARIANTS TypeOK NoPassOverrun OverlapOnlyOnExit
PROPERTIES SparesWhatItSaw StoreGetsCompact PassesGoOn OverlapEnds
