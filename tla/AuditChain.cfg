SPECIFICATION Spec
CONSTANTS
  Memories = {m1}
  Txns = {t1, t2, t3}
  None = None
  Kinds = {"mutation", "patch", "retention", "stamp", "event"}
  VerifyLimit = 4
INVARIANTS WholeChainVerifies EvidenceIsAtomic
PROPERTIES ImplementsTrail EveryTransactionEnds
CHECK_DEADLOCK FALSE
