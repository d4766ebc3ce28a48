SPECIFICATION MCSpec
CONSTANTS
  Forever = 1000000
  Ids = {1, 2, 3, 4, 5, 6}
  MaxAncestryNodes = 4
  PhraseWords = 2
  Turns = {c1, c2}
  Owners = {g1, g2}
  Texts = {"fact", "diagnosis", "password", "thanks"}
  Secret = {"password"}
  Sensitive = {"diagnosis"}
  Trivial = {"thanks"}
  Extractions <- MCExtractions
SYMMETRY MCSymmetry
INVARIANTS
  ForgottenStaysOut
  LoopsTellTheOutcome
  DuplicatesNeedOverlap
CHECK_DEADLOCK FALSE
