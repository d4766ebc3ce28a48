SPECIFICATION Spec
CONSTANTS
  Tenants = {"t1", "t2"}
  Users = {"u1", "u2"}
  Unnamed = "unnamed"
  NoSuchRole = "no such role"
  DemoTenant = "demo tenant"
  DemoUser = "demo user"
  Forever = 1000000
  Ids = {"m1", "m2", "purged"}
  MaxAncestryNodes = 1
  PhraseWords = 2
  Window = 8
  Ticks = 2
  Events = {a, b}
  MaxRows = 4
  MaxArrivals = 4
  MaxFaultyCall = 7
  NoTenant = "no tenant"
  Scopes = {"t1", "t2"}
INVARIANTS
  VerifiesExactlyChains
  LineageFailsClosed
  NothingDueIsRecalled
  WithheldStaysWithheld
  ProductionIsWhatItClaims
  LimiterKeepsItsPromise
  RolesBoundTheAnswer
  UnknownClaimGrantsNothing
  ForeignLooksAbsent
  ConsoleRefusesNothingAllowed
  SessionScopeIsKept
  SentencesAreJudgedApart
  JobsKeepTheirBooks
  PurgesAreProved
  TenantsStayApart
CHECK_DEADLOCK FALSE
