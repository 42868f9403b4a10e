CONSTANTS
  g1 = g1
  g2 = g2
  g3 = g3
  Guids = {g1, g2, g3}
  MaxIndex = 1
  IndexOf <- TwoAtZero
  GracePeriod = 2
  NumberOfCrashesBeforeBackoffBegins = 1
  StartingBackoffDelay = 2
  MaximumBackoffDelay = 3
  MaxCrashes = 2
SPECIFICATION Spec
INVARIANT TypeOK
INVARIANT ActsUnlessSettled
INVARIANT ServingSurvives
INVARIANT StopsComeLast
INVARIANT StopsStaggered
INVARIANT BackoffGrows
