SPECIFICATION SafeSpec
CONSTANTS
  Workers = {w1, w2}
  LastScope = 1
  LastJob = 1
  MaxAttempts = 1
  TTL = 3
  Interval = 1
  MaxFaults = 0
  Nobody = Nobody
  Dead = Dead
INVARIANT ReleaseSparesOthers
