SPECIFICATION Spec
CONSTANTS
  Memories = {m1}
  Handlers = {r1, r2}
  Texts = {plain, medical, secret}
  Sensitive = {medical}
  Refused = {secret}
  Nothing = nothing
  MaxAge = 3
  MaxRev = 2
INVARIANTS OnlyOrphansEscapeTheTrail IndexFollowsRows
CHECK_DEADLOCK FALSE
