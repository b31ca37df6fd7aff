CONSTANTS
  Caller = {"c1", "c2"}
  RequestsPerMinute = 1
  Burst = 0
  Minute = 3
  Horizon = 0
  Configs <- MCConfigs
  RetryAfters <- MCRetryAfters
  Second = 10
  DurationLimit = 128
SPECIFICATION Safety
INVARIANTS
  EveryRequestHasToken
