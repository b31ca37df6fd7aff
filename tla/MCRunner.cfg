CONSTANTS
  MaxTotal = 2
  Names = {"a", "b"}
  Blank = "blank"
  Needles = {"needle"}
  MetricNames = {"m1", "m2"}
  NilMetric = "nil"
  MetricLists <- MCMetricLists
  CaseInputs <- MCCaseInputs
  Configs <- MCConfigs
  DetailsSizes <- MCDetailsSizes
  MaxFailureLogs = 2
SPECIFICATION Spec
INVARIANTS
  SignalsAgree
  PassMeansComplete
  RunErrorsAreTruthful
  FailuresAreTold
PROPERTIES
  ResultIsFinal
  RunReturns
  ImplementsPool
