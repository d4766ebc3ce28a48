SPECIFICATION Spec
CONSTANTS
  Memories = {m1}
  Handlers = {r1, r2}
  Nothing = Nothing
  Texts = {plain, medical}
  Sensitive = {}
  Refused = {}
  Flags = {}
  Ops = {"patch"}
  PatchModes = {"unchecked", "checked"}
  RequireApproval = TRUE
  MaxImportance = 0
  Floor = 0
  MaxRev = 4
PROPERTIES CheckedWriteSawCurrentRow
CHECK_DEADLOCK FALSE
