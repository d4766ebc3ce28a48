SPECIFICATION Spec
CONSTANTS
  Memories = {m1}
  Handlers = {r1, r2}
  Nothing = Nothing
  Texts = {plain}
  Sensitive = {}
  Refused = {}
  Flags = {"hold"}
  Ops = {"flag", "delete"}
  PatchModes = {}
  RequireApproval = TRUE
  MaxImportance = 0
  Floor = 0
  MaxRev = 3
PROPERTIES HoldBlocksForgetting
CHECK_DEADLOCK FALSE
