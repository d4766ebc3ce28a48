SPECIFICATION Spec
CONSTANTS
  Memories = {m1}
  Handlers = {r1, r2}
  Nothing = Nothing
  Texts = {plain, medical}
  Sensitive = {medical}
  Refused = {}
  Flags = {"hold"}
  Ops = {"capture", "patch", "delete", "flag", "consent", "decay", "archive", "retention", "compaction"}
  PatchModes = {"unchecked", "checked"}
  RequireApproval = TRUE
  MaxImportance = 1
  Floor = 0
  MaxRev = 2
SYMMETRY Symmetry
INVARIANTS DeletedNeverSearched DeletionHasEvidence ClearedOnlyIfDeleted
PROPERTIES OnlyStaleCopyResurrects
CHECK_DEADLOCK FALSE
