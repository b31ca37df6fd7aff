CONSTANTS
  MaxTotal = 4
  Limits <- MCLimits
SPECIFICATION Spec
INVARIANTS
  PoolInv
  SettledAtReturn
  NoWorkerOutlivesTheCall
PROPERTIES
  CallReturnsEventually
  ImplementsPromise
