SPECIFICATION Spec
CONSTANTS
  Memories = {m1}
  Handlers = {r1}
  Nothing = Nothing
  Texts = {plain, medical, clinical, secret}
  Sensitive = {medical, clinical}
  Refused = {secret}
  Flags = {"hold", "pinned"}
  Ops = {"capture", "patch", "delete", "flag", "consent", "decay", "archive", "retention", "compaction"}
  PatchModes = {"unchecked", "checked"}
  RequireApproval = TRUE
  MaxImportance = 1
  Floor = 0
  MaxRev = 5
INVARIANTS EvidenceMatchesRow VectorDescribesText DecaysOnce VerifiedPurgeHolds SensitiveIsApproved
PROPERTIES StatusIsGoverned HoldBlocksForgetting
CHECK_DEADLOCK FALSE
