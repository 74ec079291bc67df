SPECIFICATION Spec
CONSTANTS
  Scenarios <- ReportScenarios
  DefaultIgnored <- MCDefaultIgnored
  MaxIgnored = 3
  KtlsTTL = 2
  ReasmTTL = 1
  MaxKey = 2
  BufCap = 2
  MaxFS = 2
  BaseDelay = 5
  MaxDelay = 12
  CanaryTimeout = 1
INVARIANT ReportShowsEnv
CHECK_DEADLOCK FALSE
