SPECIFICATION Spec
CONSTANTS
  Memories = {m1}
  Handlers = {r1, r2}
  Nothing = Nothing
  Texts = {plain}
  Sensitive = {}
  Refused = {}
  Flags = {}
  Ops = {"decay", "delete"}
  PatchModes = {}
  RequireApproval = TRUE
  MaxImportance = 1
  Floor = 0
  MaxRev = 3
PROPERTIES NeverResurrected
CHECK_DEADLOCK FALSE
