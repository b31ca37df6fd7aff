CONSTANTS
  MaxTotal = 2
  Names = {"a", "b"}
  Blank = "blank"
  Needles = {"needle"}
  MetricNames = {"m1", "m2"}
  NilMetric = "nil"
  MetricLists <- MCOneList
  CaseInputs <- MCCaseInputs
  Configs <- MCOneWorker
  DetailsSizes <- MCDetailsSizes
  MaxFailureLogs = 2
SPECIFICATION Safety
INVARIANTS
  EveryCheckReported
