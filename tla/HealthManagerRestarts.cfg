CONSTANTS
  g1 = g1
  g2 = g2
  g3 = g3
  Guids = {g1}
  MaxIndex = 1
  IndexOf <- Alone
  GracePeriod = 2
  NumberOfCrashesBeforeBackoffBegins = 0
  StartingBackoffDelay = 2
  MaximumBackoffDelay = 4
  PollingInterval = 1
  SenderMessageLimit = 1
  MaxFaults = 0
  MaxExits = 0
  MaxTime = 13
  MaxReports = 2
  PromptPasses = TRUE
SPECIFICATION Spec
INVARIANT MissingIsStarted
INVARIANT KeepAliveHonoured
INVARIANT CountOutlivesStart
