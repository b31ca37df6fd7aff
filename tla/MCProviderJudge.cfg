CONSTANTS
  Caller = {"c1", "c2"}
  RequestsPerMinute = 1
  Burst = 0
  Minute = 3
  Horizon = 0
  Configs <- MCConfigs
  RetryAfters <- MCNoRetryAfter
  Second = 10
  DurationLimit = 128
SPECIFICATION Spec
INVARIANTS
  RequestsPerToken
  VerdictIsTruthful
PROPERTIES
  EndedEvaluationReturns
  ImplementsLimiter
  ImplementsClient
