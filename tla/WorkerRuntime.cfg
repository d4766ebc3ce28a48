SPECIFICATION Spec
CONSTANTS
  Workers = {w1, w2}
  LastScope = 1
  LastJob = 1
  MaxAttempts = 2
  TTL = 3
  Interval = 1
  MaxFaults = 1
  Nobody = Nobody
  Dead = Dead
INVARIANTS OneConfidentWorker OverlapIsOnRecord StoppedHoldsNothing
PROPERTIES ImplementsMutex ScopeIsServedAgain
