CONSTANTS
  g1 = g1
  g2 = g2
  Waiter <- MCWaiter
  RequestsPerMinute = 2
  Burst = 2
  Minute = 7
  Horizon = 7
  MaxCalls = 3
SPECIFICATION Spec
INVARIANTS
  LimiterInv
  RateBound
  NoTokenSleptOver
PROPERTIES
  EveryWaitEnds
