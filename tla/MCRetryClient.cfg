CONSTANTS
  Call = {"c1"}
  Configs <- MCConfigs
  RetryAfters <- MCRetryAfters
  Second = 10
  DurationLimit = 128
SPECIFICATION Spec
INVARIANTS
  ReplyIsLastWord
  DelayAsConfigured
