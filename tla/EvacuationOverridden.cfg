CONSTANTS
  g1 = g1
  g2 = g2
  g3 = g3
  Guids = {g1}
  MaxIndex = 0
  IndexOf <- Alone
  GracePeriod = 1
  NumberOfCrashesBeforeBackoffBegins = 1
  StartingBackoffDelay = 1
  MaximumBackoffDelay = 2
  PollingInterval = 2
  SenderMessageLimit = 1
  MaxFaults = 0
  MaxExits = 1
  MaxTime = 4
  MaxReports = 0
  PromptPasses = TRUE
SPECIFICATION Spec
PROPERTY AnalyzerNeverOverrides
