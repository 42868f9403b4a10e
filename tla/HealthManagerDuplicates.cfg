CONSTANTS
  g1 = g1
  g2 = g2
  g3 = g3
  Guids = {g1, g2}
  MaxIndex = 0
  IndexOf <- Together
  GracePeriod = 1
  NumberOfCrashesBeforeBackoffBegins = 1
  StartingBackoffDelay = 1
  MaximumBackoffDelay = 2
  PollingInterval = 2
  SenderMessageLimit = 1
  MaxFaults = 0
  MaxExits = 0
  MaxTime = 9
  MaxReports = 2
  PromptPasses = TRUE
SPECIFICATION Spec
INVARIANT FirstStopsLeaveOne
