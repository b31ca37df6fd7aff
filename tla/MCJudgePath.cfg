SPECIFICATION Spec
CONSTANTS
  MaxParts = 2
  Configs <- MCConfigs
  Codes <- MCCodes
  Labels <- MCLabels
INVARIANTS
  CauseTold
  StopAgreesWithInfo
  RetryableIsTransient
  PassIsEarned
  RequestGoesHome
CHECK_DEADLOCK FALSE
