---------------------------- MODULE DecisionsProofs ----------------------------
(* Proofs about the decisions of MCDecisions, for every value of its        *)
(* constants; the theorems they apply speak of every input, not only of     *)
(* those MCDecisions puts.                                                  *)
EXTENDS MCDecisions, LifecycleJobsProofs

-----------------------------------------------------------------------------
(* What is put to a decision.                                               *)

ChainPut(q) ==
  q.about = "chain" => q.in \in SUBSET ChainRow(Events) /\ IsFiniteSet(q.in)

AncestryPut(q) ==
  q.about = "ancestry" =>
    /\ Lineage(q.in, 2)
    /\ \A i \in Ids \ Kept : q.in[i] = NoRow
    /\ \A i \in Kept : q.in[i].status \in {"active", "deleted"} /\ ~q.in[i].tombstoned

ForgettingPut(q) ==
  q.about = "forgetting" =>
    /\ q.in.now \in Nat /\ q.in.now < Forever
    /\ q.in.row.created \in Nat /\ q.in.row.sensitivity \in Sensitivities
    /\ q.in.row.parents = <<>>
    /\ q.in.row.status = "active" /\ ~q.in.relabelled =>
         q.in.row.expiresAt = ExpiresAt(q.in.row, q.in.policy)

AnswerPut(q) ==
  q.about = "answer" => /\ q.in.answer \in Seq(Words)
                        /\ \A t \in q.in.withheld : t \in Seq(Words)

\* Times never go back.
Sorted(at) == \A i, j \in 1..Len(at) : i <= j => at[i] <= at[j]

\* The limits of a deployment, and requests as they come in.
Limits == [ip : Nat, chat : Nat, evals : Nat]

AreRequests(requests) == \E S : requests \in Seq(S) /\ \A r \in S : r.at \in Nat

\* When they come.
Arrivals(requests) == [k \in 1..Len(requests) |-> requests[k].at]

LimiterPut(q) ==
  q.about = "limiter" =>
    /\ q.in.limits \in Limits /\ AreRequests(q.in.requests)
    /\ Len(q.in.requests) > 0 /\ Sorted(Arrivals(q.in.requests))

-----------------------------------------------------------------------------
(* The audit chain.                                                         *)

LEMMA RowsOfEventsAreRows == RowsOfEvents \subseteq ChainRow(Events)
  <1>1. Histories \subseteq Seq(Events)
    <2>1. <<>> \in Seq(Events)
      OBVIOUS
    <2>2. \A i \in Events : <<i>> \in Seq(Events)
      OBVIOUS
    <2>3. \A i, j \in Events : <<i, j>> \in Seq(Events)
      OBVIOUS
    <2>4. \A p \in Histories : \/ p = <<>> \/ \E i \in Events : p = <<i>>
                                \/ \E a, b \in Events : p = <<a, b>>
      BY DEF Histories, GENESIS
    <2>5. ASSUME NEW p \in Histories PROVE p \in Seq(Events)
      BY <2>1, <2>2, <2>3, <2>4
    <2> QED
      BY <2>5
  <1>2. ASSUME NEW i \in Events, NEW p \in Histories
        PROVE  Entry(i, p) \in ChainRow(Events)
    <2>1. p \in Seq(Events) /\ Append(p, i) \in Seq(Events)
      BY <1>1, AppendProperties
    <2> QED
      BY <2>1 DEF Entry, ComputeEntryHash, ChainRow
  <1>3. ASSUME NEW i \in Events, NEW p \in Histories, NEW j \in Events
        PROVE  [Entry(i, p) EXCEPT !.id = j] \in ChainRow(Events)
    <2>1. PICK e \in ChainRow(Events) : e = Entry(i, p)
      BY <1>2
    <2>2. [e EXCEPT !.id = j] \in ChainRow(Events)
      BY <2>1 DEF ChainRow
    <2> QED
      BY <2>1, <2>2
  <1> QED
    BY <1>2, <1>3 DEF RowsOfEvents

LEMMA ChainIsPut ==
  ASSUME ChainPut(asked), AskChain \/ AddRow
  PROVE  ChainPut(asked')
  <1>1. CASE AskChain
    <2>1. asked'.in = {}
      BY <1>1 DEF AskChain, Ask
    <2> QED
      BY <2>1, FS_EmptySet DEF ChainPut
  <1>2. CASE AddRow
    <2>1. PICK e \in RowsOfEvents : asked' = [asked EXCEPT !.in = @ \cup {e}]
      BY <1>2 DEF AddRow
    <2>2. asked.in \in SUBSET ChainRow(Events) /\ IsFiniteSet(asked.in)
      BY <1>2 DEF AddRow, ChainPut
    <2>3. asked'.in = asked.in \cup {e} \/ asked'.about # "chain"
      BY <2>1
    <2>4. asked.in \cup {e} \in SUBSET ChainRow(Events)
      BY <2>2, RowsOfEventsAreRows
    <2>5. IsFiniteSet(asked.in \cup {e})
      BY <2>2, FS_AddElement
    <2> QED
      BY <2>3, <2>4, <2>5 DEF ChainPut
  <1> QED
    BY <1>1, <1>2

LEMMA ChainsAreVerified == ChainPut(asked) => VerifiesExactlyChains
  BY VerifyChainIsExact DEF ChainPut, VerifiesExactlyChains

-----------------------------------------------------------------------------
(* Lineage.                                                                 *)

LEMMA AncestryIsPut ==
  ASSUME AskAncestry
  PROVE  AncestryPut(asked')
  <1>1. PICK parents \in [Kept -> Parents], bad \in SUBSET Kept :
          Ask("ancestry", [i \in Ids |->
            IF i \notin Kept THEN NoRow
            ELSE [Leaf EXCEPT !.parents = parents[i],
                              !.status = IF i \in bad THEN "deleted" ELSE "active"]])
    BY DEF AskAncestry
  <1>2. PICK rows : rows = [i \in Ids |->
            IF i \notin Kept THEN NoRow
            ELSE [Leaf EXCEPT !.parents = parents[i],
                              !.status = IF i \in bad THEN "deleted" ELSE "active"]]
    OBVIOUS
  <1>3. asked'.in = rows
    BY <1>1, <1>2 DEF Ask
  <1>4. Kept \subseteq Ids
    BY DEF Kept
  <1>5. \A i \in Ids \ Kept : rows[i] = NoRow
    BY <1>2
  <1>6. \A i \in Kept : /\ rows[i].parents = parents[i] /\ rows[i].status \in {"active", "deleted"}
                        /\ ~rows[i].tombstoned
    BY <1>2, <1>4 DEF Leaf
  <1>7. \A p \in Parents : p \in Seq(Ids) /\ Len(p) <= 2
    <2>1. ASSUME NEW m \in 0..2, NEW p \in [1..m -> Ids] PROVE p \in Seq(Ids) /\ Len(p) <= 2
      OBVIOUS
    <2> QED
      BY <2>1 DEF Parents, SeqOf
  <1>8. NoRow.parents \in Seq(Ids) /\ Len(NoRow.parents) <= 2
    BY DEF NoRow
  <1>9. Lineage(rows, 2)
    BY <1>4, <1>5, <1>6, <1>7, <1>8 DEF Lineage
  <1> QED
    BY <1>3, <1>5, <1>6, <1>9 DEF AncestryPut

\* The least closed set above a row is closed itself.
LEMMA AncestorsAreClosed ==
  ASSUME NEW rows, Lineage(rows, 2), NEW i \in Ids
  PROVE  /\ ParentsOf(rows, i) \subseteq Ancestors(rows, i)
         /\ \A j \in Ancestors(rows, i) : ParentsOf(rows, j) \subseteq Ancestors(rows, i)
  <1>1. \A j \in Ids : ParentsOf(rows, j) \subseteq Ids
    BY DEF ParentsOf, Lineage
  <1> QED
    BY <1>1 DEF Ancestors

\* A sequence of ids lies in a set exactly if what it lists does.
LEMMA WithinLists ==
  ASSUME NEW s \in Seq(Ids), NEW X
  PROVE  Within(s, X) <=> {s[k] : k \in DOMAIN s} \subseteq X
  BY DEF Within

LEMMA LineagesFailClosed == AncestryPut(asked) => LineageFailsClosed
  <1> SUFFICES ASSUME AncestryPut(asked), asked.about = "ancestry", NEW i \in Kept
               PROVE  LET answer == AncestryTombstone(asked.in, asked.in[i])
                          clean == \A a \in Ancestors(asked.in, i) :
                                     a \in Kept /\ asked.in[a].status = "active"
                      IN  /\ answer = Clean => clean
                          /\ clean /\ Cardinality(Ancestors(asked.in, i)) <= MaxAncestryNodes
                               => answer = Clean
    BY DEF LineageFailsClosed
  <1>1. PICK rows, A : rows = asked.in /\ A = Ancestors(rows, i)
    OBVIOUS
  <1>2. /\ Lineage(rows, 2) /\ \A j \in Ids \ Kept : rows[j] = NoRow
        /\ \A j \in Kept : rows[j].status \in {"active", "deleted"} /\ ~rows[j].tombstoned
    BY <1>1 DEF AncestryPut
  <1>3. i \in Ids /\ rows[i].parents \in Seq(Ids) /\ \A j \in Ids : rows[j].parents \in Seq(Ids)
    BY <1>2 DEF Kept, Lineage
  <1>4. A \in SUBSET Ids
    BY <1>1 DEF Ancestors
  <1>5. \A j \in Ids : IsTombstoned(rows[j]) <=> ~(j \in Kept /\ rows[j].status = "active")
    <2>1. NoRow.status = "none"
      BY DEF NoRow
    <2> QED
      BY <1>2, <2>1 DEF IsTombstoned
  <1>6. ASSUME AncestryTombstone(rows, rows[i]) = Clean, NEW a \in A
        PROVE  a \in Kept /\ rows[a].status = "active"
    <2>1. PICK T \in SUBSET Ids : Within(rows[i].parents, T) /\ ClosedLineage(rows, T, {})
      BY <1>2, <1>3, <1>6, AncestryFailsClosed
    <2>2. ParentsOf(rows, i) \subseteq T
      BY <1>3, <2>1, WithinLists DEF ParentsOf
    <2>3. \A j \in T : ParentsOf(rows, j) \subseteq T /\ ~IsTombstoned(rows[j])
      BY <1>3, <2>1, WithinLists DEF ParentsOf, ClosedLineage
    <2>4. a \in T
      BY <1>1, <2>2, <2>3 DEF Ancestors
    <2> QED
      BY <1>5, <2>3, <2>4
  <1>7. ASSUME \A a \in A : a \in Kept /\ rows[a].status = "active",
               Cardinality(A) <= MaxAncestryNodes
        PROVE  AncestryTombstone(rows, rows[i]) = Clean
    <2>1. ParentsOf(rows, i) \subseteq A /\ \A j \in A : ParentsOf(rows, j) \subseteq A
      BY <1>1, <1>2, <1>3, AncestorsAreClosed
    <2>2. Within(rows[i].parents, A)
      BY <1>3, <2>1, WithinLists DEF ParentsOf
    <2>3. \A j \in A : Within(rows[j].parents, A) /\ ~IsTombstoned(rows[j])
      BY <1>3, <1>4, <1>5, <1>7, <2>1, WithinLists DEF ParentsOf
    <2>4. ClosedLineage(rows, A, {})
      BY <2>3 DEF ClosedLineage
    <2> QED
      BY <1>2, <1>3, <1>4, <1>7, <2>2, <2>4, AncestryAdmitsTheClean
  <1> QED
    BY <1>1, <1>6, <1>7

-----------------------------------------------------------------------------
(* Forgetting.                                                              *)

LEMMA MomentsAreEarly ==
  ASSUME NEW policy, NEW sensitivity \in Sensitivities, NEW t \in Times(policy, sensitivity)
  PROVE  t \in Nat /\ t < Forever
  <1>1. PICK end \in Nat \ {0} : end = 1 + Day * WindowDays(policy, sensitivity)
    BY WindowIsNat DEF Day
  <1>2. t \in {2, 60, 800} \/ (~(end > 10000) /\ t \in {end - 1, end, end + 1})
    BY <1>1 DEF Times
  <1> QED
    BY <1>1, <1>2, MomentsAssumption, TimeAssumption

LEMMA ForgettingIsPut ==
  ASSUME AskForgetting
  PROVE  ForgettingPut(asked') /\ \E in : Ask("forgetting", in)
  <1>1. PICK policy \in DOMAIN Packs, s1 \in Sensitivities, s2 \in Sensitivities,
             f1 \in Flagging, f2 \in Flagging, c1 \in Given, c2 \in Given :
        \E t \in Times(policy, s1), u \in Times(policy, s2) :
         /\ u >= t
         /\ f1 = f2 \/ s1 = s2
         /\ Ask("forgetting",
                [policy |-> policy, relabelled |-> s1 # s2, now |-> u,
                 row |-> LET kept == RetentionPass(Kind(s1, f1, c1), t, policy, FALSE)
                         IN  [Kind(s2, f2, c2) EXCEPT !.expiresAt = kept.expiresAt,
                                                      !.status = kept.status]])
    BY DEF AskForgetting
  <1>2. PICK t \in Times(policy, s1), u \in Times(policy, s2) :
         Ask("forgetting",
                [policy |-> policy, relabelled |-> s1 # s2, now |-> u,
                 row |-> LET kept == RetentionPass(Kind(s1, f1, c1), t, policy, FALSE)
                         IN  [Kind(s2, f2, c2) EXCEPT !.expiresAt = kept.expiresAt,
                                                      !.status = kept.status]])
    BY <1>1
  <1>3. PICK first, kept : first = Kind(s1, f1, c1) /\ kept = RetentionPass(first, t, policy, FALSE)
    OBVIOUS
  <1>4. PICK row : row = [Kind(s2, f2, c2) EXCEPT !.expiresAt = kept.expiresAt, !.status = kept.status]
    OBVIOUS
  <1>5. asked'.in = [policy |-> policy, relabelled |-> s1 # s2, now |-> u, row |-> row]
    BY <1>2, <1>3, <1>4 DEF Ask
  <1>6. u \in Nat /\ u < Forever
    BY MomentsAreEarly
  <1>7. /\ row.created = 1 /\ row.sensitivity = s2 /\ row.parents = <<>>
        /\ row.expiresAt = kept.expiresAt /\ row.status = kept.status
    BY <1>4 DEF Kind
  <1>8. first.created = 1 /\ first.sensitivity = s1 /\ first.status = "active"
    BY <1>3 DEF Kind
  <1>9. kept.status = "active" => kept.expiresAt = ExpiresAt(first, policy)
    BY <1>3, <1>8 DEF RetentionPass, Kind
  <1>10. s1 = s2 => ExpiresAt(first, policy) = ExpiresAt(row, policy)
    BY <1>7, <1>8 DEF ExpiresAt
  <1>11. /\ asked'.in.now = u /\ asked'.in.row = row /\ asked'.in.policy = policy
         /\ asked'.in.relabelled = (s1 # s2)
    BY <1>5
  <1>12. row.status = "active" /\ s1 = s2 => row.expiresAt = ExpiresAt(row, policy)
    BY <1>7, <1>9, <1>10
  <1>13. row.created \in Nat /\ row.sensitivity \in Sensitivities
    BY <1>7
  <1>14. /\ asked'.in.now \in Nat /\ asked'.in.now < Forever
         /\ asked'.in.row.created \in Nat /\ asked'.in.row.sensitivity \in Sensitivities
         /\ asked'.in.row.parents = <<>>
    BY <1>6, <1>7, <1>11, <1>13
  <1>15. asked'.in.row.status = "active" /\ ~asked'.in.relabelled
           => asked'.in.row.expiresAt = ExpiresAt(asked'.in.row, asked'.in.policy)
    BY <1>11, <1>12
  <1>16. \E in : Ask("forgetting", in)
    BY <1>2, Zenon
  <1> QED
    BY <1>14, <1>15, <1>16 DEF ForgettingPut

LEMMA DueIsBlocked == ForgettingPut(asked) => NothingDueIsRecalled
  <1> SUFFICES ASSUME ForgettingPut(asked), asked.about = "forgetting", asked.in.row.status = "active"
               PROVE  LET in == asked.in
                          due == Evaluate(in.row, in.now, in.policy)
                          verdict == Decide(<<>>, in.row, TRUE, in.now, {}, FALSE)
                      IN  /\ due = "consent_revoked" => verdict = "BLOCK_CONSENT_WITHDRAWN"
                          /\ ~in.relabelled => (due = "expired" <=> verdict = "BLOCK_EXPIRED")
                          /\ ~in.relabelled /\ EligibleForDeletion(due) => verdict # "ALLOW"
    BY DEF NothingDueIsRecalled
  <1>1. PICK row, now, policy : row = asked.in.row /\ now = asked.in.now /\ policy = asked.in.policy
    OBVIOUS
  <1> DEFINE due == Evaluate(row, now, policy)
             verdict == Decide(<<>>, row, TRUE, now, {}, FALSE)
  <1>2. /\ now \in Nat /\ now < Forever /\ row.created \in Nat /\ row.sensitivity \in Sensitivities
        /\ row.parents = <<>> /\ row.status = "active"
        /\ ~asked.in.relabelled => row.expiresAt = ExpiresAt(row, policy)
    BY <1>1 DEF ForgettingPut
  <1>3. verdict = IF ConsentRevoked(row, now) THEN "BLOCK_CONSENT_WITHDRAWN"
                  ELSE IF RetentionStatus(row, now) = "expired" THEN "BLOCK_EXPIRED" ELSE "ALLOW"
    BY <1>2 DEF Decide, IsDerived
  <1>4. due = "consent_revoked" => ConsentRevoked(row, now)
    BY DEF Evaluate
  <1>5. ~asked.in.relabelled =>
          (due = "expired" <=> ~ConsentRevoked(row, now) /\ RetentionStatus(row, now) = "expired")
    BY <1>2, StampAgreesWithWorker
  <1> HIDE DEF due, verdict
  <1>6. /\ due = "consent_revoked" => verdict = "BLOCK_CONSENT_WITHDRAWN"
        /\ ~asked.in.relabelled => (due = "expired" <=> verdict = "BLOCK_EXPIRED")
        /\ ~asked.in.relabelled /\ EligibleForDeletion(due) => verdict # "ALLOW"
    BY <1>3, <1>4, <1>5 DEF EligibleForDeletion
  <1> QED
    BY <1>1, <1>6 DEF due, verdict

-----------------------------------------------------------------------------
(* Authorization: what a permission says of the roles.                      *)

\* A principal whose roles this system knows.
KnownRoles(p) == p.roles \subseteq Roles

LEMMA HolderOf ==
  ASSUME NEW p, KnownRoles(p), NEW permission, Has(p, permission)
  PROVE  \E r \in p.roles : r \in Roles /\ permission \in RolePermissions[r]
  BY DEF KnownRoles, Has, PermissionsFor

LEMMA RolesAre ==
  Roles = {"memory_viewer", "memory_user", "memory_admin", "auditor", "tenant_admin",
           "service_worker", "platform_operator"}
  BY DEF Roles, RolePermissions

Administrators == {"memory_admin", "tenant_admin"}

LEMMA PermissionsOfRoles ==
  /\ RolePermissions["memory_viewer"] = {"memory:read:self", "audit:read:self"}
  /\ RolePermissions["memory_user"] = SelfMemory
  /\ RolePermissions["auditor"] = {"memory:read:self", "memory:read:tenant", "audit:read:self",
                                   "retention:read"} \cup EvidenceReads
  /\ RolePermissions["service_worker"] = {"worker:read", "worker:replay"}
  /\ RolePermissions["platform_operator"] = OpsReads \cup {"worker:read"}
  BY DEF RolePermissions

\* Changing another's memory, approving, and retention are the administrators'.
LEMMA AdministratorsOnly ==
  ASSUME NEW p, KnownRoles(p),
         NEW permission \in {"memory:write:tenant", "memory:archive:tenant", "memory:delete:tenant",
                             "memory:approve:tenant", "memory:reject:tenant", "retention:manage",
                             "consent:manage"},
         Has(p, permission)
  PROVE  p.roles \cap Administrators # {}
  <1>1. PICK r \in p.roles : r \in Roles /\ permission \in RolePermissions[r]
    BY HolderOf
  <1>2. /\ permission \notin SelfMemory /\ permission \notin EvidenceReads
        /\ permission \notin OpsReads
    BY DEF SelfMemory, EvidenceReads, OpsReads
  <1>3. r \in Administrators
    BY <1>1, <1>2, RolesAre, PermissionsOfRoles DEF Administrators
  <1> QED
    BY <1>3

\* Reading another's records is the auditor's too.
LEMMA ReadersOfOthers ==
  ASSUME NEW p, KnownRoles(p),
         NEW permission \in {"memory:read:tenant", "audit:read:tenant", "metrics:read:tenant"},
         Has(p, permission)
  PROVE  p.roles \cap (Administrators \cup {"auditor"}) # {}
  <1>1. PICK r \in p.roles : r \in Roles /\ permission \in RolePermissions[r]
    BY HolderOf
  <1>2. permission \notin SelfMemory /\ permission \notin OpsReads
    BY DEF SelfMemory, OpsReads
  <1>3. r \in Administrators \cup {"auditor"}
    BY <1>1, <1>2, RolesAre, PermissionsOfRoles DEF Administrators
  <1> QED
    BY <1>3

\* Changing one's own memory takes more than reading.
LEMMA WritersOnly ==
  ASSUME NEW p, KnownRoles(p),
         NEW permission \in {"memory:write:self", "memory:archive:self", "memory:delete:self"},
         Has(p, permission)
  PROVE  p.roles \cap (Administrators \cup {"memory_user"}) # {}
  <1>1. PICK r \in p.roles : r \in Roles /\ permission \in RolePermissions[r]
    BY HolderOf
  <1>2. permission \notin EvidenceReads /\ permission \notin OpsReads
    BY DEF EvidenceReads, OpsReads
  <1>3. r \in Administrators \cup {"memory_user"}
    BY <1>1, <1>2, RolesAre, PermissionsOfRoles DEF Administrators
  <1> QED
    BY <1>3

-----------------------------------------------------------------------------
(* The routes.                                                              *)

LEMMA RoutesAre ==
  /\ Declared["chat"] = Needs("memory:write:self")
  /\ Declared["list_memories"] = Subject("memory:read:self", "memory:read:tenant")
  /\ Declared["get_audit"] = Subject("audit:read:self", "audit:read:tenant")
  /\ Declared["get_memory"] = Resource("memory:read:self", "memory:read:tenant")
  /\ Declared["provenance"] = Resource("memory:read:self", "memory:read:tenant")
  /\ Declared["memory_audit"] = Resource("audit:read:self", "audit:read:tenant")
  /\ Declared["delete_memory"] = Resource("memory:delete:self", "memory:delete:tenant")
  /\ Declared["patch_memory"] = [kind |-> "variants"]
  /\ Declared["loops"] = [kind |-> "authenticated"]
  /\ Declared["metrics"] = Needs("metrics:read:tenant")
  /\ Declared["traces"] = Needs("ops:traces:read")
  /\ Declared["evidence"] = Needs("evidence:read")
  /\ Declared["retention_read"] = Needs("retention:read")
  /\ Declared["retention_set"] = Needs("retention:manage")
  /\ Declared["consent"] = Needs("consent:manage")
  /\ Declared["loop_runs"] = Needs("audit:read:tenant")
  /\ Declared["evals_run"] = Needs("ops:evals:run")
  /\ Declared["evals_latest"] = Needs("ops:evals:read")
  /\ Declared["readiness"] = Needs("ops:readiness")
  /\ Declared["workers_health"] = Needs("worker:read")
  BY DEF Declared

OnSubjects == {"list_memories", "get_audit"}

OnResources == {"get_memory", "provenance", "memory_audit", "delete_memory"}

Fixed == {"chat", "metrics", "traces", "evidence", "retention_read", "retention_set", "consent",
          "loop_runs", "evals_run", "evals_latest", "readiness", "workers_health"}

LEMMA RouteSplit == Routes = OnSubjects \cup OnResources \cup Fixed \cup {"patch_memory", "loops"}
  BY DEF Routes, Declared, OnSubjects, OnResources, Fixed

LEMMA KindsOfRoutes ==
  /\ \A x \in OnSubjects : /\ Declared[x].kind = "subject" /\ Declared[x].self # NoPermission
                           /\ Declared[x].tenant \in {"memory:read:tenant", "audit:read:tenant"}
  /\ \A x \in OnResources : /\ Declared[x].kind = "resource" /\ Declared[x].self # NoPermission
                            /\ x # "delete_memory" =>
                                 Declared[x].tenant \in {"memory:read:tenant", "audit:read:tenant"}
  /\ \A x \in Fixed : Declared[x].kind = "permission"
  /\ Declared["patch_memory"].kind = "variants" /\ Declared["loops"].kind = "authenticated"
  BY RoutesAre DEF Needs, Subject, Resource, OnSubjects, OnResources, Fixed, NoPermission

LEMMA HandlesAre ==
  ASSUME NEW p, NEW r
  PROVE  /\ r.route \in OnSubjects =>
              Handle(p, r) = AuthorizeSubject(p, r.tenant, r.user, Declared[r.route])
         /\ r.route \in OnResources => Handle(p, r) = HandleLoaded(p, r)
         /\ r.route \in Fixed \cup {"loops"} => Handle(p, r) = HandleFixed(p, r)
         /\ r.route = "patch_memory" => Handle(p, r) = HandlePatch(p, r)
  BY KindsOfRoutes DEF Handle

LEMMA CodesAre ==
  ASSUME NEW code, NEW tenant, NEW users
  PROVE  /\ Refuse(code).code = code /\ Refuse(code).actions = {}
         /\ Proceed(tenant, users).code = 200 /\ Proceed(tenant, users).actions = {}
         /\ Proceed(tenant, users).tenant = tenant /\ Proceed(tenant, users).users = users
  BY DEF Refuse, Proceed

\* On a record that is loaded.
LEMMA LoadedFacts ==
  ASSUME NEW p, NEW row, NEW spec, AuthorizeLoaded(p, row, spec).code = 200
  PROVE  /\ row.tenant = p.tenant
         /\ RequiredOn(p, row.owner, spec) \in PermissionsFor(p.roles)
         /\ AuthorizeLoaded(p, row, spec).tenant = p.tenant
         /\ AuthorizeLoaded(p, row, spec).users = {row.owner}
         /\ AuthorizeLoaded(p, row, spec).actions = {}
  BY CodesAre DEF AuthorizeLoaded, Has

-----------------------------------------------------------------------------
(* Whom an answer is about.                                                 *)

Reads(p, answer) ==
  answer.users \subseteq {p.user} \/ p.roles \cap (Administrators \cup {"auditor"}) # {}

Decides(p, answer) ==
  answer.actions \cap {"approve", "reject"} # {} => p.roles \cap Administrators # {}

Writing == {"chat", "patch_memory", "delete_memory", "retention_set", "consent"}

Writes(p, route) == route \in Writing => p.roles \cap (Administrators \cup {"memory_user"}) # {}

Bounded(p, r) ==
  LET answer == Handle(p, r) IN
  /\ answer.tenant \in {p.tenant, Unnamed}
  /\ Reads(p, answer) /\ Decides(p, answer) /\ Writes(p, r.route)

LEMMA SubjectIsBounded ==
  ASSUME NEW p, KnownRoles(p), NEW r, r.route \in OnSubjects, Handle(p, r).code = 200
  PROVE  Bounded(p, r)
  <1> DEFINE spec == Declared[r.route]
             wide == r.user = Unnamed \/ r.user # p.user
             users == IF wide THEN Asked(r.user) ELSE {p.user}
  <1>1. Handle(p, r) = AuthorizeSubject(p, r.tenant, r.user, spec)
    BY HandlesAre
  <1>2. /\ Has(p, IF wide THEN spec.tenant ELSE spec.self)
        /\ Handle(p, r) = Proceed(p.tenant, users)
    BY <1>1, CodesAre DEF AuthorizeSubject
  <1>3. spec.tenant \in {"memory:read:tenant", "audit:read:tenant"}
    BY KindsOfRoutes
  <1>4. r.route \notin Writing
    BY DEF OnSubjects, Writing
  <1>5. wide => p.roles \cap (Administrators \cup {"auditor"}) # {}
    BY <1>2, <1>3, ReadersOfOthers
  <1> QED
    BY <1>2, <1>4, <1>5, CodesAre DEF Bounded, Reads, Decides, Writes

LEMMA ResourceIsBounded ==
  ASSUME NEW p, KnownRoles(p), NEW r, r.route \in OnResources, Handle(p, r).code = 200
  PROVE  Bounded(p, r)
  <1> DEFINE told == Declared[r.route]
  <1>1. Handle(p, r) = AuthorizeLoaded(p, r.row, told)
    BY HandlesAre, CodesAre DEF HandleLoaded
  <1>2. /\ Handle(p, r).tenant = p.tenant /\ Handle(p, r).users = {r.row.owner}
        /\ Handle(p, r).actions = {}
        /\ Has(p, RequiredOn(p, r.row.owner, told))
    <2>1. PICK row, s : row = r.row /\ s = told
      OBVIOUS
    <2>2. AuthorizeLoaded(p, row, s).code = 200
      BY <1>1, <2>1
    <2>3. /\ AuthorizeLoaded(p, row, s).tenant = p.tenant
          /\ AuthorizeLoaded(p, row, s).users = {row.owner}
          /\ AuthorizeLoaded(p, row, s).actions = {}
          /\ RequiredOn(p, row.owner, s) \in PermissionsFor(p.roles)
      BY <2>2, LoadedFacts
    <2> QED
      BY <1>1, <2>1, <2>3 DEF Has
  <1>3. RequiredOn(p, r.row.owner, told) = IF r.row.owner = p.user THEN told.self ELSE told.tenant
    BY KindsOfRoutes DEF RequiredOn
  <1>4. CASE r.route = "delete_memory"
    <2>1. told.self = "memory:delete:self" /\ told.tenant = "memory:delete:tenant"
      BY <1>4, RoutesAre DEF Resource
    <2>2. r.row.owner # p.user => p.roles \cap Administrators # {}
      BY <1>2, <1>3, <2>1, AdministratorsOnly
    <2>3. r.row.owner = p.user => p.roles \cap (Administrators \cup {"memory_user"}) # {}
      BY <1>2, <1>3, <2>1, WritersOnly
    <2> QED
      BY <1>2, <2>2, <2>3, CodesAre DEF Bounded, Reads, Decides, Writes
  <1>5. CASE r.route # "delete_memory"
    <2>1. told.tenant \in {"memory:read:tenant", "audit:read:tenant"} /\ r.route \notin Writing
      BY <1>5, KindsOfRoutes DEF OnResources, Writing
    <2>2. r.row.owner # p.user => p.roles \cap (Administrators \cup {"auditor"}) # {}
      BY <1>2, <1>3, <2>1, ReadersOfOthers
    <2> QED
      BY <1>2, <2>1, <2>2, CodesAre DEF Bounded, Reads, Decides, Writes
  <1> QED
    BY <1>4, <1>5

LEMMA VariantsAre ==
  /\ Variants["edit"] = Resource("memory:write:self", "memory:write:tenant")
  /\ Variants["archive"] = Resource("memory:archive:self", "memory:archive:tenant")
  /\ Variants["restore"] = Resource("memory:archive:self", "memory:archive:tenant")
  /\ Variants["approve"] = Resource(NoPermission, "memory:approve:tenant")
  /\ Variants["reject"] = Resource(NoPermission, "memory:reject:tenant")
  BY DEF Variants

\* A body asks for at least one action, and each of them was authorized.
LEMMA PatchFacts ==
  ASSUME NEW p, NEW r, HandlePatch(p, r).code = 200,
         NEW actions, actions = DerivePatchActions(r.row, r.patch)
  PROVE  /\ actions # {} /\ actions \subseteq {"edit", "archive", "restore", "approve", "reject"}
         /\ HandlePatch(p, r).tenant = p.tenant /\ HandlePatch(p, r).users = {r.row.owner}
         /\ HandlePatch(p, r).actions = actions
         /\ \A a \in actions : AuthorizeLoaded(p, r.row, Variants[a]).code = 200
  <1> DEFINE refused == {AuthorizeLoaded(p, r.row, Variants[a]).code : a \in actions} \ {200}
  <1>1. /\ HandlePatch(p, r) = AuthorizePatch(p, r.row, r.patch)
        /\ r.patch.edit \/ r.patch.status # Unnamed
        /\ "invalid" \notin actions /\ r.row.tenant = p.tenant
    BY CodesAre DEF HandlePatch
  <1>2. actions # {} /\ actions \subseteq {"edit", "archive", "restore", "approve", "reject", "invalid"}
    BY <1>1 DEF DerivePatchActions, Transition
  <1>3. refused = {}
    <2>1. CASE refused # {}
      <3>1. AuthorizePatch(p, r.row, r.patch) = Refuse(CHOOSE c \in refused : TRUE)
        BY <2>1 DEF AuthorizePatch
      <3>2. (CHOOSE c \in refused : TRUE) \in refused
        BY <2>1
      <3>3. (CHOOSE c \in refused : TRUE) = 200
        BY <1>1, <3>1, CodesAre
      <3> QED
        BY <3>2, <3>3
    <2> QED
      BY <2>1
  <1>4. AuthorizePatch(p, r.row, r.patch) = [Proceed(r.row.tenant, {r.row.owner}) EXCEPT !.actions = actions]
    BY <1>3 DEF AuthorizePatch
  <1>5. \A a \in actions : AuthorizeLoaded(p, r.row, Variants[a]).code = 200
    BY <1>3
  <1>6. /\ HandlePatch(p, r).tenant = p.tenant /\ HandlePatch(p, r).users = {r.row.owner}
        /\ HandlePatch(p, r).actions = actions
    BY <1>1, <1>4 DEF Proceed
  <1> QED
    BY <1>1, <1>2, <1>5, <1>6

LEMMA PatchIsBounded ==
  ASSUME NEW p, KnownRoles(p), NEW r, r.route = "patch_memory", Handle(p, r).code = 200
  PROVE  Bounded(p, r)
  <1>1. Handle(p, r) = HandlePatch(p, r)
    BY HandlesAre
  <1>2. PICK actions : actions = DerivePatchActions(r.row, r.patch)
    OBVIOUS
  <1>3. /\ actions # {} /\ actions \subseteq {"edit", "archive", "restore", "approve", "reject"}
        /\ Handle(p, r).tenant = p.tenant /\ Handle(p, r).users = {r.row.owner}
        /\ Handle(p, r).actions = actions
        /\ \A a \in actions : AuthorizeLoaded(p, r.row, Variants[a]).code = 200
    <2>1. HandlePatch(p, r).code = 200
      BY <1>1
    <2> QED
      BY <1>1, <1>2, <2>1, PatchFacts
  <1>5. ASSUME NEW a \in actions
        PROVE  /\ r.row.owner # p.user => p.roles \cap Administrators # {}
               /\ a \in {"approve", "reject"} => p.roles \cap Administrators # {}
               /\ p.roles \cap (Administrators \cup {"memory_user"}) # {}
    <2>1. PICK needed : needed = RequiredOn(p, r.row.owner, Variants[a])
      OBVIOUS
    <2>2. Has(p, needed)
      <3>1. PICK row, s : row = r.row /\ s = Variants[a]
        OBVIOUS
      <3>2. AuthorizeLoaded(p, row, s).code = 200
        BY <1>3, <3>1
      <3>3. RequiredOn(p, row.owner, s) \in PermissionsFor(p.roles)
        BY <3>2, LoadedFacts
      <3> QED
        BY <2>1, <3>1, <3>3 DEF Has
    <2>3. CASE a \in {"approve", "reject"} \/ r.row.owner # p.user
      <3>1. needed \in {"memory:write:tenant", "memory:archive:tenant", "memory:approve:tenant",
                        "memory:reject:tenant"}
        BY <1>3, <2>1, <2>3, VariantsAre DEF RequiredOn, Resource, NoPermission
      <3>2. p.roles \cap Administrators # {}
        BY <2>2, <3>1, AdministratorsOnly
      <3> QED
        BY <3>2
    <2>4. CASE a \notin {"approve", "reject"} /\ r.row.owner = p.user
      <3>1. needed \in {"memory:write:self", "memory:archive:self"}
        BY <1>3, <2>1, <2>4, VariantsAre DEF RequiredOn, Resource, NoPermission
      <3>2. p.roles \cap (Administrators \cup {"memory_user"}) # {}
        BY <2>2, <3>1, WritersOnly
      <3> QED
        BY <2>4, <3>2
    <2> QED
      BY <2>3, <2>4
  <1>6. PICK a \in actions : a \in actions
    <2>1. actions # {}
      BY <1>3
    <2> QED
      BY <2>1
  <1>7. Reads(p, Handle(p, r))
    BY <1>3, <1>5, <1>6 DEF Reads
  <1>8. Decides(p, Handle(p, r))
    BY <1>3, <1>5 DEF Decides
  <1>9. Writes(p, r.route)
    BY <1>5, <1>6 DEF Writes
  <1> QED
    BY <1>3, <1>7, <1>8, <1>9 DEF Bounded

LEMMA FixedIsBounded ==
  ASSUME NEW p, KnownRoles(p), NEW r, r.route \in Fixed \cup {"loops"}, Handle(p, r).code = 200,
         r.route \in InQuery => ~OutOfScope(p, r.tenant, r.user)
  PROVE  Bounded(p, r)
  <1>1. Handle(p, r) = HandleFixed(p, r)
    BY HandlesAre
  <1>2. Permitted(p, Declared[r.route])
    BY <1>1, CodesAre DEF HandleFixed
  <1>3. CASE r.route \in ProcessWide
    <2>1. Handle(p, r) = Proceed(Unnamed, {}) /\ r.route \notin Writing
      BY <1>1, <1>2, <1>3, CodesAre DEF HandleFixed, ProcessWide, Writing
    <2> QED
      BY <2>1, CodesAre DEF Bounded, Reads, Decides, Writes
  <1>4. CASE r.route \in {"retention_set", "consent"}
    <2>1. Handle(p, r) = Proceed(p.tenant, {r.row.owner})
      BY <1>1, <1>2, <1>4, CodesAre DEF HandleFixed, ProcessWide
    <2>2. Has(p, "retention:manage") \/ Has(p, "consent:manage")
      BY <1>2, <1>4, RoutesAre DEF Permitted, Needs
    <2>3. p.roles \cap Administrators # {}
      BY <2>2, AdministratorsOnly
    <2> QED
      BY <2>1, <2>3, CodesAre DEF Bounded, Reads, Decides, Writes
  <1>5. CASE r.route \in {"loop_runs", "metrics"}
    <2>1. Has(p, "audit:read:tenant") \/ Has(p, "metrics:read:tenant")
      BY <1>2, <1>5, RoutesAre DEF Permitted, Needs
    <2>2. p.roles \cap (Administrators \cup {"auditor"}) # {}
      BY <2>1, ReadersOfOthers
    <2>3. r.tenant \in {p.tenant, Unnamed} /\ r.route \notin Writing
      BY <1>5 DEF InQuery, OutOfScope, Writing
    <2>4. /\ Handle(p, r).tenant \in {p.tenant, Unnamed} /\ Handle(p, r).actions = {}
      <3>1. CASE r.route = "loop_runs"
        BY <1>1, <1>2, <3>1, CodesAre DEF HandleFixed, ProcessWide
      <3>2. CASE r.route = "metrics"
        BY <1>1, <1>2, <2>3, <3>2, CodesAre DEF HandleFixed, ProcessWide
      <3> QED
        BY <1>5, <3>1, <3>2
    <2> QED
      BY <2>2, <2>3, <2>4 DEF Bounded, Reads, Decides, Writes
  <1>6. CASE r.route \in {"chat", "evidence", "retention_read"}
    <2>1. Handle(p, r) = Proceed(p.tenant, {p.user})
      BY <1>1, <1>2, <1>6, CodesAre DEF HandleFixed, ProcessWide
    <2>2. ASSUME r.route = "chat" PROVE p.roles \cap (Administrators \cup {"memory_user"}) # {}
      <3>1. Has(p, "memory:write:self")
        BY <1>2, <2>2, RoutesAre DEF Permitted, Needs
      <3> QED
        BY <3>1, WritersOnly
    <2>3. r.route \in Writing => r.route = "chat"
      BY <1>6 DEF Writing
    <2> QED
      BY <2>1, <2>2, <2>3, CodesAre DEF Bounded, Reads, Decides, Writes
  <1> QED
    BY <1>3, <1>4, <1>5, <1>6 DEF Fixed, ProcessWide

\* The roles of a principal are among those the system knows.
LEMMA PrincipalsAreKnown ==
  ASSUME NEW c, NEW provider
  PROVE  KnownRoles(Resolve(c, provider))
  <1>1. \A claim, b : EffectiveRoles(claim, b) \subseteq Roles
    BY RolesAre DEF EffectiveRoles, ParseRoles
  <1>2. \A tenant, user, claim : KnownRoles(Principal(tenant, user, claim, provider))
    BY <1>1 DEF Principal, NoPrincipal, KnownRoles
  <1>3. KnownRoles(NoPrincipal)
    BY DEF NoPrincipal, KnownRoles
  <1> QED
    BY <1>2, <1>3 DEF Resolve

(* Whatever a request names, whatever the credential and whoever owns the   *)
(* record: an answer stays in the tenant of the principal, shows others'    *)
(* records only to roles over the tenant, decides over approvals only for   *)
(* administrators, and changes nothing for a role that may only read.       *)
THEOREM AnswersAreBounded ==
  ASSUME NEW r, r.route \in Routes, NEW settings, Verdict(r, settings).code = 200
  PROVE  LET p == Resolve(r.credential, BuildProvider(settings))
             answer == Verdict(r, settings)
         IN  /\ p # NoPrincipal /\ answer.tenant \in {p.tenant, Unnamed}
             /\ Reads(p, answer) /\ Decides(p, answer) /\ Writes(p, r.route)
  <1>1. PICK p : p = Resolve(r.credential, BuildProvider(settings))
    OBVIOUS
  <1>2. /\ p # NoPrincipal /\ (r.route \in InQuery => ~OutOfScope(p, r.tenant, r.user))
        /\ Verdict(r, settings) = Handle(p, r)
    BY <1>1, CodesAre DEF Verdict
  <1>3. KnownRoles(p)
    BY <1>1, PrincipalsAreKnown
  <1>4. Bounded(p, r)
    BY <1>2, <1>3, RouteSplit, SubjectIsBounded, ResourceIsBounded, PatchIsBounded, FixedIsBounded
  <1> QED
    BY <1>1, <1>2, <1>4 DEF Bounded

-----------------------------------------------------------------------------
(* What a token claims, and whom it makes a caller.                         *)

\* One name down a node.
Below(node, name) ==
  IF node.kind = "object" /\ name \in DOMAIN node.fields THEN node.fields[name] ELSE Missing

\* A node at a path of one name or of two.
LEMMA NodesAre ==
  ASSUME NEW payload, NEW path, Len(path) \in {1, 2}
  PROVE  ClaimNode(payload, path) =
           IF Len(path) = 1 THEN Below(payload, path[1])
           ELSE Below(Below(payload, path[1]), path[2])
  <1> DEFINE At(node, k) ==
               LET above == node[k - 1] IN
               IF k = 0 THEN payload
               ELSE IF above.kind = "object" /\ path[k] \in DOMAIN above.fields
                    THEN above.fields[path[k]]
               ELSE Missing
             Is(node) == node = [k \in 0..Len(path) |-> At(node, k)]
             node == CHOOSE node : Is(node)
             walk == [k \in 0..Len(path) |->
                        IF k = 0 THEN payload
                        ELSE IF k = 1 THEN Below(payload, path[1])
                        ELSE Below(Below(payload, path[1]), path[2])]
  <1>1. Is(walk)
    <2>1. CASE Len(path) = 1
      <3>1. 0..Len(path) = {0, 1}
        BY <2>1
      <3>2. walk[0] = payload /\ walk[1] = Below(payload, path[1])
        BY <3>1
      <3>3. At(walk, 0) = payload /\ At(walk, 1) = Below(walk[0], path[1])
        BY DEF Below
      <3> QED
        BY <3>1, <3>2, <3>3
    <2>2. CASE Len(path) = 2
      <3>1. 0..Len(path) = {0, 1, 2}
        BY <2>2
      <3>2. /\ walk[0] = payload /\ walk[1] = Below(payload, path[1])
            /\ walk[2] = Below(Below(payload, path[1]), path[2])
        BY <3>1
      <3>3. /\ At(walk, 0) = payload /\ At(walk, 1) = Below(walk[0], path[1])
            /\ At(walk, 2) = Below(walk[1], path[2])
        BY DEF Below
      <3> QED
        BY <3>1, <3>2, <3>3
    <2> QED
      BY <2>1, <2>2
  <1>2. Is(node)
    BY <1>1
  <1>3. ClaimNode(payload, path) = node[Len(path)]
    BY DEF ClaimNode
  <1> HIDE DEF node
  <1>4. node[0] = payload /\ node[1] = Below(payload, path[1])
    <2>1. 0 \in 0..Len(path) /\ 1 \in 0..Len(path)
      OBVIOUS
    <2>2. node[0] = At(node, 0) /\ node[1] = At(node, 1)
      BY <1>2, <2>1
    <2> QED
      BY <2>2 DEF Below
  <1>5. Len(path) = 2 => node[2] = Below(node[1], path[2])
    BY <1>2 DEF Below
  <1> QED
    BY <1>3, <1>4, <1>5

\* A claim under a name, and one under a name of an object.
LEMMA ClaimsAre ==
  ASSUME NEW payload, NEW a, NEW b
  PROVE  /\ ClaimNode(payload, <<a>>) = Below(payload, a)
         /\ ClaimNode(payload, <<a, b>>) = Below(Below(payload, a), b)
  <1>1. Len(<<a>>) = 1 /\ <<a>>[1] = a /\ Len(<<a, b>>) = 2 /\ <<a, b>>[1] = a /\ <<a, b>>[2] = b
    OBVIOUS
  <1> QED
    BY <1>1, NodesAre

\* What a refused token says, and a path that leads nowhere, name nobody.
LEMMA MissingNamesNobody ==
  ASSUME NEW name
  PROVE  ClaimPath(Missing, <<name>>) = Unnamed
  <1>1. Below(Missing, name) = Missing /\ Missing.kind # "scalar"
    BY DEF Below, Missing
  <1> QED
    BY <1>1, ClaimsAre DEF ClaimPath

\* The two places a deployment may look for the roles.
RolePaths == {<<"roles">>, <<"app", "roles">>}

(* Whoever is let in presented a credential of the kind the deployment      *)
(* takes; a token that is taken is neither past its end nor of a key that   *)
(* is not the deployment's.                                                 *)
LEMMA LetInByCredential ==
  ASSUME NEW c, NEW provider, Resolve(c, provider) # NoPrincipal,
         NEW a, provider.tenantClaim = <<a>>
  PROVE  /\ c.scheme = provider.scheme
         /\ c.scheme # "headers" =>
              /\ DecodeJwt(c.token, provider) = c.token.payload
              /\ c.token.expires > -Leeway /\ c.token.key \in provider.keys
  <1>1. c.scheme = provider.scheme
    BY DEF Resolve
  <1>2. ASSUME c.scheme # "headers", DecodeJwt(c.token, provider) = Missing PROVE FALSE
    <2>1. ClaimPath(DecodeJwt(c.token, provider), provider.tenantClaim) = Unnamed
      BY <1>2, MissingNamesNobody
    <2> QED
      BY <1>1, <1>2, <2>1 DEF Resolve, Principal
  <1>3. ASSUME c.scheme # "headers", DecodeJwt(c.token, provider) # Missing
        PROVE  /\ DecodeJwt(c.token, provider) = c.token.payload
               /\ c.token.expires > -Leeway /\ c.token.key \in provider.keys
    BY <1>3 DEF DecodeJwt
  <1> QED
    BY <1>1, <1>2, <1>3

\* The claim a principal's roles are read from.
ClaimOf(c, provider) ==
  IF c.scheme = "headers" THEN c.roles ELSE ClaimNode(c.token.payload, provider.rolesClaim)

\* The principal a credential names, if it names one.
LEMMA LetInAs ==
  ASSUME NEW c, NEW provider, Resolve(c, provider) # NoPrincipal,
         provider.tenantClaim = <<"tenant_id">>, provider.userClaim = <<"sub">>
  PROVE  LET p == Resolve(c, provider) IN
         /\ p.roles = EffectiveRoles(ClaimOf(c, provider), provider.requireClaim)
         /\ c.scheme = "headers" => p.tenant = c.tenant /\ p.user = c.user
         /\ c.scheme # "headers" =>
              /\ p.tenant = ClaimPath(c.token.payload, <<"tenant_id">>)
              /\ p.user = ClaimPath(c.token.payload, <<"sub">>)
         /\ p.tenant # Unnamed /\ p.user # Unnamed
  <1>1. /\ c.scheme = provider.scheme
        /\ c.scheme # "headers" => DecodeJwt(c.token, provider) = c.token.payload
    BY LetInByCredential
  <1>2. CASE c.scheme = "headers"
    BY <1>1, <1>2 DEF Resolve, Principal, ClaimOf
  <1>3. CASE c.scheme # "headers"
    BY <1>1, <1>3 DEF Resolve, Principal, ClaimOf
  <1> QED
    BY <1>2, <1>3

\* Without roles nothing but the loop definitions answers.
LEMMA AnswersTakeARole ==
  ASSUME NEW p, p.roles = {}, NEW r, r.route \in Routes \ {"loops"}
  PROVE  Handle(p, r).code # 200
  <1>1. \A permission : ~Has(p, permission)
    BY DEF Has, PermissionsFor
  <1>2. ASSUME r.route \in OnSubjects, Handle(p, r).code = 200 PROVE FALSE
    <2>1. Handle(p, r) = AuthorizeSubject(p, r.tenant, r.user, Declared[r.route])
      BY <1>2, HandlesAre
    <2> QED
      BY <1>1, <1>2, <2>1, CodesAre DEF AuthorizeSubject
  <1>3. ASSUME r.route \in OnResources, Handle(p, r).code = 200 PROVE FALSE
    <2>1. Handle(p, r) = HandleLoaded(p, r)
      BY <1>3, HandlesAre
    <2> QED
      BY <1>1, <1>3, <2>1, CodesAre DEF HandleLoaded, AuthorizeLoaded
  <1>4. ASSUME r.route \in Fixed, Handle(p, r).code = 200 PROVE FALSE
    <2>1. Handle(p, r) = HandleFixed(p, r)
      BY <1>4, HandlesAre
    <2>2. Permitted(p, Declared[r.route])
      BY <1>4, <2>1, CodesAre DEF HandleFixed
    <2> QED
      BY <1>1, <1>4, <2>2, KindsOfRoutes DEF Permitted
  <1>5. ASSUME r.route = "patch_memory", HandlePatch(p, r).code = 200 PROVE FALSE
    <2>1. PICK actions : actions = DerivePatchActions(r.row, r.patch)
      OBVIOUS
    <2>2. actions # {} /\ \A a \in actions : AuthorizeLoaded(p, r.row, Variants[a]).code = 200
      BY <1>5, <2>1, PatchFacts
    <2>3. PICK a \in actions : AuthorizeLoaded(p, r.row, Variants[a]).code = 200
      BY <2>2
    <2>4. PICK row, s : row = r.row /\ s = Variants[a]
      OBVIOUS
    <2>5. RequiredOn(p, row.owner, s) \in PermissionsFor(p.roles)
      BY <2>3, <2>4, LoadedFacts
    <2> QED
      BY <1>1, <2>5 DEF Has
  <1> QED
    BY <1>2, <1>3, <1>4, <1>5, RouteSplit, HandlesAre

-----------------------------------------------------------------------------
(* The requests that are put.                                               *)

\* A node that, if it is an identifier, is the given one.
Says(node, value) == node.kind = "scalar" => node.value = value

TokenFields == {"wellFormed", "key", "algorithm", "expires", "audience", "payload"}

\* A token that speaks of t1 and u1, or of nobody.
SpeaksOfThem(t) ==
  /\ DOMAIN t = TokenFields
  /\ DOMAIN t.payload = {"kind", "fields"} /\ t.payload.kind = "object"
  /\ "tenant_id" \in DOMAIN t.payload.fields /\ Says(t.payload.fields["tenant_id"], t1)
  /\ "sub" \in DOMAIN t.payload.fields /\ Says(t.payload.fields["sub"], u1)

CredentialPut(c) ==
  \/ c.scheme = "none"
  \/ c.scheme = "headers" /\ c.tenant \in {t1, Unnamed} /\ c.user \in {u1, Unnamed}
  \/ c.scheme = "bearer" /\ DOMAIN c = {"scheme", "token"} /\ SpeaksOfThem(c.token)

RequestFields == {"route", "credential", "tenant", "user", "row", "patch"}

ApiPut(q) ==
  q.about = "api" =>
    /\ DOMAIN q.in.request = RequestFields /\ q.in.request.route \in Routes
    /\ q.in.settings.rolesClaim \in RolePaths
    /\ CredentialPut(q.in.request.credential)

LEMMA NodesSay == \A value : Says(Null, value) /\ \A node \in Nodes(value) : Says(node, value)
  BY DEF Nodes, Says, Null, Scalar, List, Object

LEMMA MintedTokens ==
  /\ DOMAIN MintApiToken(NoIdentity) = TokenFields
  /\ \A payload : /\ DOMAIN WithPayload(payload) = TokenFields
                  /\ WithPayload(payload).payload = payload
  BY DEF MintApiToken, TokenFields, WithPayload

\* Claims of a tenant and a user, with others added.
LEMMA WithTheirClaims ==
  ASSUME NEW tenant, Says(tenant, t1), NEW user, Says(user, u1), NEW more
  PROVE  LET fields == And([tenant_id |-> tenant, sub |-> user], more) IN
         /\ SpeaksOfThem(WithPayload(Object(fields)))
         /\ "tenant_id" \in DOMAIN fields
  <1>1. PICK fields : fields = And([tenant_id |-> tenant, sub |-> user], more)
    OBVIOUS
  <1>2. /\ "tenant_id" \in DOMAIN fields /\ fields["tenant_id"] = tenant
        /\ "sub" \in DOMAIN fields /\ fields["sub"] = user
    BY <1>1 DEF And
  <1>3. PICK payload : payload = Object(fields)
    OBVIOUS
  <1>4. DOMAIN payload = {"kind", "fields"} /\ payload.kind = "object" /\ payload.fields = fields
    BY <1>3 DEF Object
  <1>5. SpeaksOfThem(WithPayload(payload))
    BY <1>2, <1>4, MintedTokens DEF SpeaksOfThem
  <1> QED
    BY <1>1, <1>2, <1>3, <1>5

\* The same token past its end, or without a tenant.
LEMMA SpoiltTokens ==
  ASSUME NEW t, SpeaksOfThem(t)
  PROVE  /\ SpeaksOfThem([t EXCEPT !.expires = -Leeway])
         /\ SpeaksOfThem([t EXCEPT !.payload.fields.tenant_id = Null])
  <1>1. SpeaksOfThem([t EXCEPT !.expires = -Leeway])
    BY DEF SpeaksOfThem, TokenFields
  <1>2. PICK s : s = [t EXCEPT !.payload.fields.tenant_id = Null]
    OBVIOUS
  <1>3. DOMAIN s = TokenFields /\ s.payload = [t.payload EXCEPT !.fields.tenant_id = Null]
    BY <1>2 DEF SpeaksOfThem, TokenFields
  <1>4. /\ DOMAIN s.payload = {"kind", "fields"} /\ s.payload.kind = "object"
        /\ s.payload.fields = [t.payload.fields EXCEPT !.tenant_id = Null]
    BY <1>3 DEF SpeaksOfThem
  <1>5. /\ "tenant_id" \in DOMAIN s.payload.fields /\ s.payload.fields["tenant_id"] = Null
        /\ "sub" \in DOMAIN s.payload.fields /\ s.payload.fields["sub"] = t.payload.fields["sub"]
    BY <1>4 DEF SpeaksOfThem
  <1>6. Says(Null, t1) /\ Says(s.payload.fields["sub"], u1)
    BY <1>5, NodesSay DEF SpeaksOfThem
  <1>7. SpeaksOfThem(s)
    BY <1>3, <1>4, <1>5, <1>6 DEF SpeaksOfThem
  <1> QED
    BY <1>1, <1>2, <1>7

LEMMA CallersArePut ==
  ASSUME NEW c \in Callers
  PROVE  CredentialPut(c)
  <1> DEFINE theirs(more) == WithPayload(Object(And([tenant_id |-> Scalar(t1), sub |-> Scalar(u1)], more)))
  <1>1. Says(Scalar(t1), t1) /\ Says(Scalar(u1), u1)
    BY NodesSay DEF Nodes
  <1>2. ASSUME NEW more PROVE SpeaksOfThem(theirs(more))
    BY <1>1, WithTheirClaims
  <1>3. PICK admin : admin = theirs([roles |-> List({"tenant_admin"})])
    OBVIOUS
  <1>4. SpeaksOfThem(admin)
    BY <1>2, <1>3
  <1>5. \/ \E more : c = Bearing(theirs(more))
        \/ c = Bearing([admin EXCEPT !.expires = -Leeway])
        \/ c = Bearing([admin EXCEPT !.payload.fields.tenant_id = Null])
    BY <1>3 DEF Callers
  <1>6. PICK t : c = Bearing(t) /\ SpeaksOfThem(t)
    BY <1>2, <1>4, <1>5, SpoiltTokens
  <1> QED
    BY <1>6 DEF Bearing, CredentialPut

LEMMA TokensArePut ==
  ASSUME NEW t \in Tokens
  PROVE  SpeaksOfThem(t)
  <1>1. CASE t \in Payloads
    <2>1. PICK fields : /\ t = WithPayload(Object(fields))
                        /\ DOMAIN fields = {"tenant_id", "sub", "roles", "app"}
                        /\ fields.tenant_id \in Nodes(t1) /\ fields.sub \in Nodes(u1)
      BY <1>1 DEF Payloads
    <2>2. PICK payload : payload = Object(fields)
      OBVIOUS
    <2>3. DOMAIN payload = {"kind", "fields"} /\ payload.kind = "object" /\ payload.fields = fields
      BY <2>2 DEF Object
    <2>4. Says(fields["tenant_id"], t1) /\ Says(fields["sub"], u1)
      BY <2>1, NodesSay
    <2>5. SpeaksOfThem(WithPayload(payload))
      BY <2>1, <2>3, <2>4, MintedTokens DEF SpeaksOfThem
    <2> QED
      BY <2>1, <2>2, <2>5
  <1>2. CASE t \notin Payloads
    <2>1. /\ DOMAIN t = TokenFields
          /\ t.payload = Object([tenant_id |-> Scalar(t1), sub |-> Scalar(u1)])
      BY <1>2 DEF Tokens, TokenFields
    <2>2. PICK payload : payload = t.payload
      OBVIOUS
    <2>3. /\ DOMAIN payload = {"kind", "fields"} /\ payload.kind = "object"
          /\ payload.fields = [tenant_id |-> Scalar(t1), sub |-> Scalar(u1)]
      BY <2>1, <2>2 DEF Object
    <2>4. Says(Scalar(t1), t1) /\ Says(Scalar(u1), u1)
      BY NodesSay DEF Nodes
    <2> QED
      BY <2>1, <2>2, <2>3, <2>4 DEF SpeaksOfThem
  <1> QED
    BY <1>1, <1>2

LEMMA ApiIsPut ==
  ASSUME AskApi \/ AskIdentity
  PROVE  ApiPut(asked')
  <1>1. CASE AskApi
    <2>1. PICK route \in Routes, c \in Callers, strict \in BOOLEAN :
            \E r \in Asks(route, c) : Ask("api", [request |-> r, settings |-> Trusting(strict)])
      BY <1>1 DEF AskApi
    <2>2. PICK r \in Asks(route, c) : Ask("api", [request |-> r, settings |-> Trusting(strict)])
      BY <2>1
    <2>3. DOMAIN r = RequestFields /\ r.route = route /\ r.credential = c
      BY DEF Asks, RequestFields
    <2>4. asked'.in.request = r /\ asked'.in.settings = Trusting(strict)
      BY <2>2 DEF Ask
    <2>5. Trusting(strict).rolesClaim \in RolePaths
      BY DEF Trusting, RolePaths
    <2> QED
      BY <2>3, <2>4, <2>5, CallersArePut DEF ApiPut
  <1>2. CASE AskIdentity
    <2>1. PICK s \in [auth : {"jwt", "trusted_header"}, requireClaim : BOOLEAN,
                        rolesClaim : {<<"roles">>, <<"app", "roles">>},
                        jwks : {"not used", "reachable", "unreachable"}, met : {{}, {"withdrawn key"}},
                        audience : {Unnamed, "api"}],
               c \in {NoCredential} \cup Headers \cup {Bearing(t) : t \in Tokens} :
            /\ s.jwks # "not used" \/ s.met = {}
            /\ c.scheme = "bearer" /\ c.token \in Payloads =>
                 s.jwks = "not used" /\ s.audience = Unnamed
            /\ Ask("api", [settings |-> s,
                           request |-> [route |-> "get_audit", credential |-> c, tenant |-> t1,
                                        user |-> Unnamed, row |-> NoRecord, patch |-> NoPatch]])
      BY <1>2 DEF AskIdentity
    <2>2. PICK r : r = [route |-> "get_audit", credential |-> c, tenant |-> t1,
                        user |-> Unnamed, row |-> NoRecord, patch |-> NoPatch]
      OBVIOUS
    <2>3. asked'.in.request = r /\ asked'.in.settings = s
      BY <2>1, <2>2 DEF Ask
    <2>4. DOMAIN r = RequestFields /\ r.route \in Routes /\ r.credential = c
      BY <2>2, RouteSplit DEF RequestFields, OnSubjects
    <2>5. s.rolesClaim \in RolePaths
      BY DEF RolePaths
    <2>6. CredentialPut(c)
      <3>1. CASE c = NoCredential
        BY <3>1 DEF CredentialPut, NoCredential
      <3>2. CASE c \in Headers
        BY <3>2 DEF CredentialPut, Headers
      <3>3. CASE \E t \in Tokens : c = Bearing(t)
        <4>1. PICK t : c = Bearing(t) /\ SpeaksOfThem(t)
          BY <3>3, TokensArePut
        <4>2. c.scheme = "bearer" /\ c.token = t /\ DOMAIN c = {"scheme", "token"}
          BY <4>1 DEF Bearing
        <4> QED
          BY <4>1, <4>2 DEF CredentialPut
      <3> QED
        BY <3>1, <3>2, <3>3
    <2> QED
      BY <2>3, <2>4, <2>5, <2>6 DEF ApiPut
  <1> QED
    BY <1>1, <1>2

\* Whoever is let in is u1 of t1.
LEMMA CallerIsTheirs ==
  ASSUME ApiPut(asked), asked.about = "api", ApiCaller # NoPrincipal
  PROVE  ApiCaller.tenant = t1 /\ ApiCaller.user = u1
  <1>1. PICK c, provider : c = asked.in.request.credential /\ provider = ApiProvider
    OBVIOUS
  <1>2. /\ provider.tenantClaim = <<"tenant_id">> /\ provider.userClaim = <<"sub">>
        /\ provider.scheme \in {"bearer", "headers"}
    BY <1>1 DEF ApiProvider, BuildProvider
  <1>3. CredentialPut(c)
    BY <1>1 DEF ApiPut
  <1>4. ApiCaller = Resolve(c, provider)
    BY <1>1 DEF ApiCaller
  <1>5. c.scheme \in {"bearer", "headers"}
    BY <1>2, <1>4, LetInByCredential
  <1>6. /\ c.scheme = "headers" => ApiCaller.tenant = c.tenant /\ ApiCaller.user = c.user
        /\ c.scheme # "headers" =>
             /\ ApiCaller.tenant = ClaimPath(c.token.payload, <<"tenant_id">>)
             /\ ApiCaller.user = ClaimPath(c.token.payload, <<"sub">>)
        /\ ApiCaller.tenant # Unnamed /\ ApiCaller.user # Unnamed
    BY <1>2, <1>4, LetInAs
  <1>7. CASE c.scheme = "headers"
    BY <1>3, <1>6, <1>7 DEF CredentialPut
  <1>8. CASE c.scheme = "bearer"
    <2>1. SpeaksOfThem(c.token)
      BY <1>3, <1>8 DEF CredentialPut
    <2>2. /\ ClaimPath(c.token.payload, <<"tenant_id">>) \in {t1, Unnamed}
          /\ ClaimPath(c.token.payload, <<"sub">>) \in {u1, Unnamed}
      BY <2>1, ClaimsAre DEF SpeaksOfThem, Says, ClaimPath, Below
    <2> QED
      BY <1>6, <1>8, <2>2
  <1> QED
    BY <1>5, <1>7, <1>8

LEMMA AnswersAreApart == ApiPut(asked) => RolesBoundTheAnswer
  <1> SUFFICES ASSUME ApiPut(asked), asked.about = "api", Api.code = 200
               PROVE  RolesBoundTheAnswer
    BY DEF RolesBoundTheAnswer
  <1>1. PICK r, settings : r = asked.in.request /\ settings = asked.in.settings
    OBVIOUS
  <1>2. r.route \in Routes /\ Verdict(r, settings).code = 200
    BY <1>1 DEF ApiPut, Api
  <1>3. /\ ApiCaller # NoPrincipal /\ Api.tenant \in {ApiCaller.tenant, Unnamed}
        /\ Reads(ApiCaller, Api) /\ Decides(ApiCaller, Api) /\ Writes(ApiCaller, r.route)
    BY <1>1, <1>2, AnswersAreBounded DEF ApiCaller, ApiProvider, Api
  <1>4. ApiCaller.tenant = t1 /\ ApiCaller.user = u1
    BY <1>3, CallerIsTheirs
  <1>5. Api.tenant \in {t1, Unnamed}
    BY <1>3, <1>4
  <1>6. Api.users \subseteq {u1} \/ HasRole({"memory_admin", "tenant_admin", "auditor"})
    BY <1>3, <1>4 DEF Reads, HasRole, Administrators
  <1>7. Api.actions \cap {"approve", "reject"} # {} => HasRole({"memory_admin", "tenant_admin"})
    BY <1>3 DEF Decides, HasRole, Administrators
  <1>8. asked.in.request.route \in {"chat", "patch_memory", "delete_memory", "retention_set", "consent"}
          => HasRole({"memory_user", "memory_admin", "tenant_admin"})
    BY <1>1, <1>3 DEF Writes, Writing, HasRole, Administrators
  <1> QED
    BY <1>5, <1>6, <1>7, <1>8 DEF RolesBoundTheAnswer

-----------------------------------------------------------------------------
(* What claims grant.                                                       *)

\* A claim that names no role lets nobody in but where leaving it out is allowed.
LEMMA NoRoleNoAnswer ==
  ASSUME ApiPut(asked), asked.about = "api", ParseRoles(RoleClaim) = {},
         ~(RoleClaim = Missing /\ ~asked.in.settings.requireClaim),
         Api.code = 200, asked.in.request.route # "loops"
  PROVE  FALSE
  <1>1. PICK r, settings : r = asked.in.request /\ settings = asked.in.settings
    OBVIOUS
  <1>2. PICK c, provider : c = r.credential /\ provider = BuildProvider(settings)
    OBVIOUS
  <1>3. /\ provider.tenantClaim = <<"tenant_id">> /\ provider.userClaim = <<"sub">>
        /\ provider.scheme \in {"bearer", "headers"}
        /\ provider.requireClaim = settings.requireClaim
    BY <1>2 DEF BuildProvider
  <1>4. r.route \in Routes \ {"loops"} /\ Verdict(r, settings).code = 200
    BY <1>1 DEF ApiPut, Api
  <1>5. PICK p : p = Resolve(c, provider)
    OBVIOUS
  <1>6. p # NoPrincipal /\ Verdict(r, settings) = Handle(p, r)
    BY <1>2, <1>4, <1>5, CodesAre DEF Verdict
  <1>7. c.scheme = provider.scheme
    BY <1>3, <1>5, <1>6, LetInByCredential
  <1>8. p.roles = EffectiveRoles(ClaimOf(c, provider), provider.requireClaim)
    BY <1>3, <1>5, <1>6, LetInAs
  <1>9. RoleClaim = ClaimOf(c, provider)
    BY <1>1, <1>2, <1>3, <1>7 DEF RoleClaim, ClaimOf, ApiProvider
  <1>10. p.roles = {}
    BY <1>1, <1>3, <1>8, <1>9 DEF EffectiveRoles
  <1> QED
    BY <1>4, <1>6, <1>10, AnswersTakeARole

\* Whoever is let in presented what the deployment takes.
LEMMA LetInFairly ==
  ASSUME ApiPut(asked), asked.about = "api", Api.code # 401
  PROVE  LET c == asked.in.request.credential IN
         /\ c.scheme = IF asked.in.settings.auth = "jwt" THEN "bearer" ELSE "headers"
         /\ c.scheme = "bearer" =>
              /\ c.token.expires > -Leeway
              /\ c.token.key = "withdrawn key" => c.token.key \in asked.in.settings.met
  <1>1. PICK r, settings : r = asked.in.request /\ settings = asked.in.settings
    OBVIOUS
  <1>2. PICK c, provider : c = r.credential /\ provider = BuildProvider(settings)
    OBVIOUS
  <1>3. /\ provider.tenantClaim = <<"tenant_id">>
        /\ provider.scheme = IF settings.auth = "jwt" THEN "bearer" ELSE "headers"
        /\ provider.keys = SigningKeys(settings.jwks, settings.met)
    BY <1>2 DEF BuildProvider
  <1>4. Resolve(c, provider) # NoPrincipal
    BY <1>1, <1>2, CodesAre DEF Api, Verdict
  <1>5. /\ c.scheme = provider.scheme
        /\ c.scheme # "headers" => c.token.expires > -Leeway /\ c.token.key \in provider.keys
    BY <1>3, <1>4, LetInByCredential
  <1>6. "withdrawn key" \in SigningKeys(settings.jwks, settings.met) => "withdrawn key" \in settings.met
    BY DEF SigningKeys
  <1> QED
    BY ZenonT(60), <1>1, <1>2, <1>3, <1>5, <1>6

\* The token with only the claims the deployment is configured for says the same.
LEMMA ConfiguredSaysTheSame ==
  ASSUME NEW c, NEW t, c.token = t, NEW provider, NEW s,
         provider.tenantClaim = <<"tenant_id">>, provider.userClaim = <<"sub">>,
         provider.rolesClaim \in RolePaths,
         c.scheme = "bearer", DOMAIN c = {"scheme", "token"}, DOMAIN t = TokenFields,
         NEW roles,
         roles = LET claim == ClaimNode(t.payload, provider.rolesClaim) IN
                 IF claim = Missing THEN <<>>
                 ELSE IF Len(provider.rolesClaim) = 2 THEN [app |-> Object([roles |-> claim])]
                 ELSE [roles |-> claim],
         s = [t EXCEPT !.payload =
                Object(And([tenant_id |-> ClaimNode(t.payload, <<"tenant_id">>),
                            sub |-> ClaimNode(t.payload, <<"sub">>)], roles))]
  PROVE  Resolve([c EXCEPT !.token = s], provider) = Resolve(c, provider)
  <1>1. PICK fields : fields = And([tenant_id |-> ClaimNode(t.payload, <<"tenant_id">>),
                                    sub |-> ClaimNode(t.payload, <<"sub">>)], roles)
    OBVIOUS
  <1>2. PICK payload : payload = Object(fields)
    OBVIOUS
  <1>3. payload.kind = "object" /\ payload.fields = fields
    BY <1>2 DEF Object
  <1>4. /\ ClaimNode(payload, <<"tenant_id">>) = ClaimNode(t.payload, <<"tenant_id">>)
        /\ ClaimNode(payload, <<"sub">>) = ClaimNode(t.payload, <<"sub">>)
    <2>1. /\ "tenant_id" \in DOMAIN fields /\ "sub" \in DOMAIN fields
          /\ fields["tenant_id"] = ClaimNode(t.payload, <<"tenant_id">>)
          /\ fields["sub"] = ClaimNode(t.payload, <<"sub">>)
      BY <1>1 DEF And
    <2>2. /\ Below(payload, "tenant_id") = fields["tenant_id"]
          /\ Below(payload, "sub") = fields["sub"]
      BY <1>3, <2>1 DEF Below
    <2> QED
      BY ZenonT(60), <2>1, <2>2, ClaimsAre
  <1>5. ClaimNode(payload, provider.rolesClaim) = ClaimNode(t.payload, provider.rolesClaim)
    <2>1. PICK claim : claim = ClaimNode(t.payload, provider.rolesClaim)
      OBVIOUS
    <2>2. PICK one, two : one = <<"roles">> /\ two = <<"app", "roles">>
      OBVIOUS
    <2>3. /\ provider.rolesClaim = one \/ provider.rolesClaim = two
          /\ Len(one) = 1 /\ one[1] = "roles" /\ Len(two) = 2 /\ two[1] = "app" /\ two[2] = "roles"
      BY <2>2 DEF RolePaths
    <2>4. /\ ClaimNode(payload, one) = Below(payload, "roles")
          /\ ClaimNode(payload, two) = Below(Below(payload, "app"), "roles")
      BY <2>3, NodesAre
    <2>5. CASE claim = Missing
      <3>1. roles = <<>> /\ DOMAIN roles = {}
        BY <2>1, <2>5
      <3>2. "roles" \notin DOMAIN fields /\ "app" \notin DOMAIN fields
        BY <1>1, <3>1 DEF And
      <3>3. Below(payload, "roles") = Missing /\ Below(payload, "app") = Missing
        BY <1>3, <3>2 DEF Below
      <3>4. Below(Missing, "roles") = Missing
        BY DEF Below, Missing
      <3> QED
        BY <2>1, <2>5, <2>4, <2>3, <3>3, <3>4
    <2>6. CASE claim # Missing /\ provider.rolesClaim = one
      <3>1. roles = [roles |-> claim]
        BY <2>1, <2>6, <2>3
      <3>2. "roles" \in DOMAIN fields /\ fields["roles"] = claim
        BY <1>1, <3>1 DEF And
      <3>3. Below(payload, "roles") = claim
        BY <1>3, <3>2 DEF Below
      <3> QED
        BY <2>1, <2>6, <2>4, <3>3
    <2>7. CASE claim # Missing /\ provider.rolesClaim = two
      <3>1. PICK inner : inner = Object([roles |-> claim])
        OBVIOUS
      <3>2. roles = [app |-> inner]
        BY <2>1, <2>7, <2>3, <3>1
      <3>3. "app" \in DOMAIN fields /\ fields["app"] = inner
        BY <1>1, <3>2 DEF And
      <3>4. Below(payload, "app") = inner
        BY <1>3, <3>3 DEF Below
      <3>5. Below(inner, "roles") = claim
        BY <3>1 DEF Below, Object
      <3> QED
        BY <2>1, <2>7, <2>4, <3>4, <3>5
    <2> QED
      BY <2>5, <2>6, <2>7, <2>3
  <1>6. /\ s.payload = payload /\ s.wellFormed = t.wellFormed /\ s.key = t.key
        /\ s.algorithm = t.algorithm /\ s.expires = t.expires /\ s.audience = t.audience
    BY <1>1, <1>2 DEF TokenFields
  <1>7. PICK d : d = [c EXCEPT !.token = s]
    OBVIOUS
  <1>8. d.scheme = "bearer" /\ d.token = s
    BY <1>7
  <1>9. \/ DecodeJwt(s, provider) = Missing /\ DecodeJwt(t, provider) = Missing
        \/ DecodeJwt(s, provider) = payload /\ DecodeJwt(t, provider) = t.payload
    BY <1>6 DEF DecodeJwt
  <1>10. /\ ClaimPath(payload, <<"tenant_id">>) = ClaimPath(t.payload, <<"tenant_id">>)
         /\ ClaimPath(payload, <<"sub">>) = ClaimPath(t.payload, <<"sub">>)
    BY <1>4 DEF ClaimPath
  <1>11. Resolve(d, provider) = Resolve(c, provider)
    BY <1>5, <1>8, <1>9, <1>10 DEF Resolve
  <1> QED
    BY <1>7, <1>11

LEMMA ConfiguredIsTheSame ==
  ASSUME ApiPut(asked), asked.about = "api"
  PROVE  Api = Verdict(Configured(asked.in.request), asked.in.settings)
  <1>1. PICK r, settings : r = asked.in.request /\ settings = asked.in.settings
    OBVIOUS
  <1>2. PICK c, provider : c = r.credential /\ provider = BuildProvider(settings)
    OBVIOUS
  <1>3. CASE c.scheme # "bearer"
    <2>1. Configured(r) = r
      BY <1>2, <1>3 DEF Configured
    <2> QED
      BY <1>1, <2>1 DEF Api
  <1>4. CASE c.scheme = "bearer"
    <2>1. /\ provider.tenantClaim = <<"tenant_id">> /\ provider.userClaim = <<"sub">>
          /\ provider.rolesClaim = settings.rolesClaim /\ ApiProvider = provider
      BY <1>1, <1>2 DEF BuildProvider, ApiProvider
    <2>2. provider.rolesClaim \in RolePaths /\ DOMAIN r = RequestFields /\ CredentialPut(c)
      BY <1>1, <1>2, <2>1 DEF ApiPut
    <2>3. DOMAIN c = {"scheme", "token"} /\ DOMAIN c.token = TokenFields
      BY <1>4, <2>2 DEF CredentialPut, SpeaksOfThem
    <2>4. PICK t : t = c.token
      OBVIOUS
    <2>5. PICK roles : roles = LET claim == ClaimNode(t.payload, provider.rolesClaim) IN
                               IF claim = Missing THEN <<>>
                               ELSE IF Len(provider.rolesClaim) = 2 THEN [app |-> Object([roles |-> claim])]
                               ELSE [roles |-> claim]
      OBVIOUS
    <2>6. PICK payload : payload = Object(And([tenant_id |-> ClaimNode(t.payload, <<"tenant_id">>),
                                               sub |-> ClaimNode(t.payload, <<"sub">>)], roles))
      OBVIOUS
    <2>7. PICK s : s = [t EXCEPT !.payload = payload]
      OBVIOUS
    <2>8. RoleClaim = ClaimNode(t.payload, provider.rolesClaim)
      BY <1>1, <1>2, <1>4, <2>1, <2>4 DEF RoleClaim
    <2>9. Configured(r) = [r EXCEPT !.credential.token.payload = payload]
      BY <1>2, <1>4, <2>1, <2>4, <2>5, <2>6, <2>8 DEF Configured
    <2>10. PICK new : new = Configured(r)
      OBVIOUS
    <2>11. /\ new.route = r.route /\ new.tenant = r.tenant /\ new.user = r.user
           /\ new.row = r.row /\ new.patch = r.patch
           /\ new.credential = [c EXCEPT !.token.payload = payload]
      BY <1>2, <2>2, <2>9, <2>10 DEF RequestFields
    <2>12. new.credential = [c EXCEPT !.token = s]
      BY <2>4, <2>7, <2>11
    <2>13. Resolve([c EXCEPT !.token = s], provider) = Resolve(c, provider)
      BY SMTT(20), <1>4, <2>1, <2>2, <2>3, <2>4, <2>5, <2>6, <2>7, ConfiguredSaysTheSame
    <2>14. PICK p : p = Resolve(c, provider)
      OBVIOUS
    <2>15. Handle(p, new) = Handle(p, r)
      BY <2>11 DEF Handle, HandlePatch, HandleLoaded, HandleFixed
    <2>16. Verdict(new, settings) = Verdict(r, settings)
      BY <1>2, <2>11, <2>12, <2>13, <2>14, <2>15 DEF Verdict
    <2> QED
      BY <1>1, <2>10, <2>16 DEF Api
  <1> QED
    BY <1>3, <1>4

LEMMA ClaimsGrantNothing == ApiPut(asked) => UnknownClaimGrantsNothing
  BY NoRoleNoAnswer, LetInFairly, ConfiguredIsTheSame DEF UnknownClaimGrantsNothing

-----------------------------------------------------------------------------
(* What an answer tells of a record.                                        *)

LEMMA HandlersHideForeign ==
  ASSUME NEW p, NEW r, r.route \in Routes, DOMAIN r = RequestFields, r.row.exists,
         NEW gone, gone = [r EXCEPT !.row = NoRecord]
  PROVE  \/ Handle(p, r).code = Handle(p, gone).code
         \/ r.row.tenant = p.tenant
              /\ (r.row.owner = p.user \/ Handle(p, r).code = 200 \/ r.route = "patch_memory")
  <1>1. /\ gone.route = r.route /\ gone.tenant = r.tenant /\ gone.user = r.user
        /\ gone.patch = r.patch /\ ~gone.row.exists
    BY DEF RequestFields, NoRecord
  <1>2. CASE r.route \in OnSubjects
    <2>1. /\ Handle(p, r) = AuthorizeSubject(p, r.tenant, r.user, Declared[r.route])
          /\ Handle(p, gone) = AuthorizeSubject(p, r.tenant, r.user, Declared[r.route])
      BY <1>1, <1>2, HandlesAre
    <2> QED
      BY <2>1
  <1>3. CASE r.route \in OnResources
    <2>1. Handle(p, r) = HandleLoaded(p, r) /\ Handle(p, gone) = HandleLoaded(p, gone)
      BY <1>1, <1>3, HandlesAre
    <2>2. CASE (r.route = "delete_memory" /\ OutOfScope(p, r.tenant, r.user)) \/ r.row.tenant # p.tenant
      BY <1>1, <2>1, <2>2 DEF HandleLoaded
    <2>3. CASE ~(r.route = "delete_memory" /\ OutOfScope(p, r.tenant, r.user)) /\ r.row.tenant = p.tenant
      <3>1. Handle(p, gone) = Refuse(404) /\ Handle(p, r) = AuthorizeLoaded(p, r.row, Declared[r.route])
        BY <1>1, <2>1, <2>3 DEF HandleLoaded
      <3>2. \/ Handle(p, r) = Refuse(404) \/ r.row.owner = p.user
            \/ Handle(p, r) = Proceed(r.row.tenant, {r.row.owner})
        BY <3>1 DEF AuthorizeLoaded
      <3> QED
        BY <2>3, <3>1, <3>2, CodesAre
    <2> QED
      BY <2>2, <2>3
  <1>4. CASE r.route \in Fixed \cup {"loops"}
    <2>1. Handle(p, r) = HandleFixed(p, r) /\ Handle(p, gone) = HandleFixed(p, gone)
      BY <1>1, <1>4, HandlesAre
    <2>2. CASE r.route \notin {"retention_set", "consent"} \/ r.row.tenant # p.tenant
      BY <1>1, <2>1, <2>2 DEF HandleFixed
    <2>3. CASE r.route \in {"retention_set", "consent"} /\ r.row.tenant = p.tenant
      <3>1. \/ HandleFixed(p, r) = HandleFixed(p, gone)
            \/ HandleFixed(p, r) = Proceed(p.tenant, {r.row.owner})
        BY <1>1, <2>3 DEF HandleFixed
      <3> QED
        BY <2>1, <2>3, <3>1, CodesAre
    <2> QED
      BY <2>2, <2>3
  <1>5. CASE r.route = "patch_memory"
    <2>1. Handle(p, r) = HandlePatch(p, r) /\ Handle(p, gone) = HandlePatch(p, gone)
      BY <1>1, <1>5, HandlesAre
    <2>2. CASE r.row.tenant # p.tenant
      BY <1>1, <2>1, <2>2 DEF HandlePatch
    <2> QED
      BY <1>5, <2>2
  <1> QED
    BY <1>2, <1>3, <1>4, <1>5, RouteSplit

LEMMA ForeignIsHidden == ApiPut(asked) => ForeignLooksAbsent
  <1> SUFFICES ASSUME ApiPut(asked), asked.about = "api", asked.in.request.row.exists
               PROVE  ForeignLooksAbsent
    BY DEF ForeignLooksAbsent
  <1>1. PICK r, settings : r = asked.in.request /\ settings = asked.in.settings
    OBVIOUS
  <1>2. PICK gone : gone = [r EXCEPT !.row = NoRecord]
    OBVIOUS
  <1>3. PICK p : p = Resolve(r.credential, BuildProvider(settings))
    OBVIOUS
  <1>4. /\ r.route \in Routes /\ DOMAIN r = RequestFields
        /\ p # NoPrincipal => p.tenant = t1 /\ p.user = u1
    BY <1>1, <1>3, CallerIsTheirs DEF ApiPut, ApiCaller, ApiProvider
  <1>5. /\ gone.route = r.route /\ gone.tenant = r.tenant /\ gone.user = r.user
        /\ gone.credential = r.credential
    BY <1>2, <1>4 DEF RequestFields
  <1>6. CASE p = NoPrincipal \/ (r.route \in InQuery /\ OutOfScope(p, r.tenant, r.user))
    <2>1. Verdict(r, settings) = Verdict(gone, settings)
      BY <1>3, <1>5, <1>6 DEF Verdict
    <2> QED
      BY <1>1, <1>2, <2>1 DEF ForeignLooksAbsent, Api
  <1>7. CASE p # NoPrincipal /\ ~(r.route \in InQuery /\ OutOfScope(p, r.tenant, r.user))
    <2>1. Verdict(r, settings) = Handle(p, r) /\ Verdict(gone, settings) = Handle(p, gone)
      BY <1>3, <1>5, <1>7 DEF Verdict
    <2>2. \/ Handle(p, r).code = Handle(p, gone).code
          \/ r.row.tenant = p.tenant
               /\ (r.row.owner = p.user \/ Handle(p, r).code = 200 \/ r.route = "patch_memory")
      BY <1>1, <1>2, <1>4, HandlersHideForeign
    <2> QED
      BY <1>1, <1>2, <1>4, <1>7, <2>1, <2>2 DEF ForeignLooksAbsent, Api
  <1> QED
    BY <1>6, <1>7

-----------------------------------------------------------------------------
(* The console.                                                             *)

ConsolePut(q) ==
  q.about = "console" =>
    /\ DOMAIN q.in.request = RequestFields /\ q.in.request.route \in Routes
    /\ \/ q.in.web = "authenticated" /\ q.in.auth \in {"jwt", "trusted_header"}
       \/ q.in.web = "demo" /\ q.in.auth \in {"none", "jwt"}

LEMMA ConsoleIsPut ==
  ASSUME AskConsole
  PROVE  ConsolePut(asked')
  <1>1. PICK route \in Routes, session \in Sessions, m \in Modes :
          \E r \in Asks(route, NoCredential) :
            Ask("console", [request |-> r, session |-> session, web |-> m.web, auth |-> m.auth])
    BY DEF AskConsole
  <1>2. PICK r \in Asks(route, NoCredential) :
          Ask("console", [request |-> r, session |-> session, web |-> m.web, auth |-> m.auth])
    BY <1>1
  <1>3. DOMAIN r = RequestFields /\ r.route = route
    BY DEF Asks, RequestFields
  <1>4. /\ asked'.in.request = r /\ asked'.in.web = m.web /\ asked'.in.auth = m.auth
    BY <1>2 DEF Ask
  <1>5. \/ m.web = "authenticated" /\ m.auth \in {"jwt", "trusted_header"}
        \/ m.web = "demo" /\ m.auth \in {"none", "jwt"}
    BY DEF Modes
  <1> QED
    BY <1>3, <1>4, <1>5 DEF ConsolePut

LEMMA PersonasAre ==
  /\ ApiRoleFor["viewer"] = "memory_viewer" /\ ApiRoleFor["developer"] = "memory_user"
  /\ ApiRoleFor["auditor"] = "auditor" /\ ApiRoleFor["memory_admin"] = "memory_admin"
  /\ ApiRoleFor["owner"] = "tenant_admin"
  /\ \A role \in Personas : ApiRoleFor[role] \in Roles \ {"service_worker", "platform_operator"}
  BY RolesAre DEF ApiRoleFor, Personas

LEMMA IdentitiesAre ==
  ASSUME NEW web, NEW session
  PROVE  LET identity == ResolveIdentity(web, session) IN
         /\ identity.role \in Personas
         /\ identity.demo <=> web = "demo"
         /\ web # "demo" /\ identity # NoIdentity => identity.tenant = session.tenant
  BY DEF ResolveIdentity, NoIdentity, Personas

OnlyRole(p, name) == p.roles = {name}

\* The credential the console presents makes the session's own principal, with one role.
LEMMA MintedPrincipal ==
  ASSUME NEW identity, identity.role \in Personas, NEW auth \in {"jwt", "trusted_header"},
         NEW settings, settings = [Trusting(TRUE) EXCEPT !.auth = auth],
         NEW p, p = Resolve(Credential(identity, auth), BuildProvider(settings)), p # NoPrincipal
  PROVE  p.tenant = identity.tenant /\ p.user = identity.user /\ OnlyRole(p, ApiRoleFor[identity.role])
  <1>1. PICK name : name = ApiRoleFor[identity.role]
    OBVIOUS
  <1>2. name \in Roles /\ name # "memory_reader"
    BY <1>1, PersonasAre, RolesAre
  <1>3. PICK provider, c : provider = BuildProvider(settings) /\ c = Credential(identity, auth)
    OBVIOUS
  <1>4. settings.auth = auth /\ settings.requireClaim = TRUE /\ settings.rolesClaim = <<"roles">>
    BY DEF Trusting
  <1>5. /\ provider.tenantClaim = <<"tenant_id">> /\ provider.userClaim = <<"sub">>
        /\ provider.rolesClaim = <<"roles">> /\ provider.requireClaim = TRUE
    BY <1>3, <1>4 DEF BuildProvider
  <1>6. /\ p.roles = EffectiveRoles(ClaimOf(c, provider), provider.requireClaim)
        /\ c.scheme = "headers" => p.tenant = c.tenant /\ p.user = c.user
        /\ c.scheme # "headers" =>
             /\ p.tenant = ClaimPath(c.token.payload, <<"tenant_id">>)
             /\ p.user = ClaimPath(c.token.payload, <<"sub">>)
    BY <1>3, <1>5, LetInAs
  <1>7. CASE auth = "jwt"
    <2>1. PICK payload : payload = Object([tenant_id |-> Scalar(identity.tenant),
                                           sub |-> Scalar(identity.user), roles |-> List({name})])
      OBVIOUS
    <2>2. c.scheme = "bearer" /\ c.token.payload = payload
      BY <1>1, <1>3, <1>7, <2>1 DEF Credential, MintApiToken
    <2>3. /\ Below(payload, "tenant_id") = Scalar(identity.tenant)
          /\ Below(payload, "sub") = Scalar(identity.user) /\ Below(payload, "roles") = List({name})
      BY <2>1 DEF Below, Object
    <2>4. /\ ClaimPath(payload, <<"tenant_id">>) = identity.tenant
          /\ ClaimPath(payload, <<"sub">>) = identity.user
      <3>1. /\ ClaimNode(payload, <<"tenant_id">>) = Scalar(identity.tenant)
            /\ ClaimNode(payload, <<"sub">>) = Scalar(identity.user)
        BY <2>3, ClaimsAre
      <3> QED
        BY <3>1 DEF ClaimPath, Scalar
    <2>5. ClaimNode(payload, <<"roles">>) = List({name})
      BY <2>3, ClaimsAre
    <2>6. ParseRoles(List({name})) = {name}
      BY <1>2 DEF ParseRoles, List
    <2>7. p.roles = {name}
      BY <1>5, <1>6, <2>2, <2>5, <2>6 DEF ClaimOf, EffectiveRoles
    <2> QED
      BY <1>1, <1>6, <2>2, <2>4, <2>7 DEF OnlyRole
  <1>8. CASE auth = "trusted_header"
    <2>1. /\ c.scheme = "headers" /\ c.tenant = identity.tenant /\ c.user = identity.user
          /\ c.roles = Scalar(name)
      BY <1>1, <1>3, <1>8 DEF Credential
    <2>2. ParseRoles(Scalar(name)) = {name}
      BY <1>2 DEF ParseRoles, Scalar
    <2>3. p.roles = {name}
      BY <1>5, <1>6, <2>1, <2>2 DEF ClaimOf, EffectiveRoles
    <2> QED
      BY <1>1, <1>6, <2>1, <2>3 DEF OnlyRole
  <1> QED
    BY <1>7, <1>8

\* What the API answers to a role, the console's own check lets its persona attempt.
LEMMA AnsweredIsAttempted ==
  ASSUME NEW role \in Personas, NEW p, OnlyRole(p, ApiRoleFor[role]),
         NEW r, r.route \in Routes, Handle(p, r).code = 200
  PROVE  CanAttempt(role, r.route, r.patch)
  <1>1. ASSUME NEW permission, Has(p, permission)
        PROVE  permission \in RolePermissions[ApiRoleFor[role]]
    BY <1>1 DEF Has, PermissionsFor, OnlyRole
  <1>2. \A permissions : (\E x \in permissions : Has(p, x)) => RoleHolds(role, permissions)
    BY <1>1 DEF RoleHolds
  <1>3. CASE r.route \in OnSubjects
    <2>1. PICK spec : spec = Declared[r.route]
      OBVIOUS
    <2>2. Handle(p, r) = AuthorizeSubject(p, r.tenant, r.user, spec)
      BY <1>3, <2>1, HandlesAre
    <2>3. Has(p, spec.self) \/ Has(p, spec.tenant)
      BY <2>2, CodesAre DEF AuthorizeSubject
    <2>4. spec.kind = "subject" /\ PermissionsOf(spec) = {spec.self, spec.tenant}
      BY <1>3, <2>1, KindsOfRoutes DEF PermissionsOf, NoPermission
    <2>5. RoleHolds(role, PermissionsOf(spec))
      BY <1>2, <2>3, <2>4
    <2> QED
      BY <2>1, <2>4, <2>5 DEF CanAttempt
  <1>4. CASE r.route \in OnResources
    <2>1. PICK spec, row : spec = Declared[r.route] /\ row = r.row
      OBVIOUS
    <2>2. AuthorizeLoaded(p, row, spec).code = 200
      BY <1>4, <2>1, HandlesAre, CodesAre DEF HandleLoaded
    <2>3. RequiredOn(p, row.owner, spec) \in PermissionsFor(p.roles)
      BY <2>2, LoadedFacts
    <2>4. Has(p, spec.self) \/ Has(p, spec.tenant)
      BY <2>3 DEF RequiredOn, Has
    <2>5. spec.tenant # NoPermission
      BY <1>4, <2>1, KindsOfRoutes, RoutesAre DEF Resource, NoPermission
    <2>6. spec.kind = "resource" /\ PermissionsOf(spec) = {spec.self, spec.tenant}
      BY <1>4, <2>1, <2>5, KindsOfRoutes DEF PermissionsOf
    <2>7. RoleHolds(role, PermissionsOf(spec))
      BY <1>2, <2>4, <2>6
    <2> QED
      BY <2>1, <2>6, <2>7 DEF CanAttempt
  <1>5. CASE r.route \in Fixed
    <2>1. PICK spec : spec = Declared[r.route]
      OBVIOUS
    <2>2. spec.kind = "permission"
      BY <1>5, <2>1, KindsOfRoutes
    <2>3. Handle(p, r) = HandleFixed(p, r)
      BY <1>5, HandlesAre
    <2>4. Has(p, spec.permission)
      BY <2>1, <2>2, <2>3, CodesAre DEF HandleFixed, Permitted
    <2>5. RoleHolds(role, {spec.permission})
      BY <1>2, <2>4
    <2> QED
      BY <2>1, <2>2, <2>5 DEF CanAttempt
  <1>6. CASE r.route = "loops"
    BY <1>6, KindsOfRoutes DEF CanAttempt
  <1>7. CASE r.route = "patch_memory"
    <2>1. HandlePatch(p, r).code = 200
      BY <1>7, HandlesAre
    <2>2. PICK actions : actions = DerivePatchActions(r.row, r.patch)
      OBVIOUS
    <2>3. /\ actions # {} /\ actions \subseteq {"edit", "archive", "restore", "approve", "reject"}
          /\ \A a \in actions : AuthorizeLoaded(p, r.row, Variants[a]).code = 200
      BY <2>1, <2>2, PatchFacts
    <2>4. ASSUME NEW a \in actions
          PROVE  \E x \in PermissionsOf(Variants[a]) : Has(p, x)
      <3>1. PICK row, s : row = r.row /\ s = Variants[a]
        OBVIOUS
      <3>2. RequiredOn(p, row.owner, s) \in PermissionsFor(p.roles)
        BY <2>3, <3>1, LoadedFacts
      <3>3. s.tenant # NoPermission /\ (RequiredOn(p, row.owner, s) \in {s.self, s.tenant} \ {NoPermission})
        BY <2>3, <3>1, VariantsAre DEF RequiredOn, Resource, NoPermission
      <3> QED
        BY <3>1, <3>2, <3>3 DEF Has, PermissionsOf
    <2>5. r.patch.edit \/ r.patch.status # Unnamed
      BY <2>1, CodesAre DEF HandlePatch
    <2>6. r.patch.edit => RoleHolds(role, PermissionsOf(Variants["edit"]))
      BY <1>2, <2>2, <2>4 DEF DerivePatchActions
    <2>7. ASSUME r.patch.status # Unnamed
          PROVE  RoleHolds(role, UNION {PermissionsOf(Variants[a]) : a \in CandidateActions(r.patch.status)})
      <3>1. PICK a : a = Transition(r.row.status, r.patch.status)
        OBVIOUS
      <3>2. a \in actions
        BY <2>2, <2>7, <3>1 DEF DerivePatchActions
      <3>3. a \in CandidateActions(r.patch.status)
        BY <2>3, <3>1, <3>2 DEF Transition, CandidateActions
      <3>4. \E x \in UNION {PermissionsOf(Variants[b]) : b \in CandidateActions(r.patch.status)} : Has(p, x)
        BY <2>4, <3>2, <3>3
      <3> QED
        BY <1>2, <3>4
    <2>8. CanPatch(role, r.patch)
      BY <2>5, <2>6, <2>7 DEF CanPatch
    <2> QED
      BY <1>7, <2>8, KindsOfRoutes DEF CanAttempt
  <1> QED
    BY <1>3, <1>4, <1>5, <1>6, <1>7, RouteSplit

LEMMA ConsoleRefusesRightly == ConsolePut(asked) => ConsoleRefusesNothingAllowed
  <1> SUFFICES ASSUME ConsolePut(asked), asked.about = "console", asked.in.auth # "none",
                      NEW identity, identity = ResolveIdentity(asked.in.web, asked.in.session),
                      Verdict(Upstream(identity, asked.in.auth, asked.in.request), Behind).code = 200
               PROVE  CanAttempt(identity.role, asked.in.request.route, asked.in.request.patch)
    BY DEF ConsoleRefusesNothingAllowed
  <1>1. PICK r, auth, settings : r = asked.in.request /\ auth = asked.in.auth /\ settings = Behind
    OBVIOUS
  <1>2. PICK u : u = Upstream(identity, auth, r)
    OBVIOUS
  <1>3. /\ u.route = r.route /\ u.patch = r.patch /\ u.credential = Credential(identity, auth)
        /\ r.route \in Routes
    BY <1>1, <1>2 DEF ConsolePut, RequestFields, Upstream
  <1>4. PICK p : p = Resolve(u.credential, BuildProvider(settings))
    OBVIOUS
  <1>5. p # NoPrincipal /\ Handle(p, u).code = 200
    BY <1>1, <1>2, <1>4, CodesAre DEF Verdict
  <1>6. identity.role \in Personas
    BY IdentitiesAre
  <1>7. auth \in {"jwt", "trusted_header"} /\ settings = [Trusting(TRUE) EXCEPT !.auth = auth]
    BY <1>1 DEF ConsolePut, Behind
  <1>8. OnlyRole(p, ApiRoleFor[identity.role])
    BY <1>3, <1>4, <1>5, <1>6, <1>7, MintedPrincipal
  <1>9. CanAttempt(identity.role, u.route, u.patch)
    BY <1>3, <1>5, <1>6, <1>8, AnsweredIsAttempted
  <1> QED
    BY <1>1, <1>3, <1>9

\* No persona reads or runs what belongs to the deployment.
LEMMA PersonasStayOut ==
  ASSUME NEW role \in Personas, NEW route \in ProcessWide \ {"loops"}
  PROVE  Declared[route].permission \notin RolePermissions[ApiRoleFor[role]]
  <1>1. PICK name : name = ApiRoleFor[role]
    OBVIOUS
  <1>2. name \in {"memory_viewer", "memory_user", "auditor", "memory_admin", "tenant_admin"}
    BY <1>1, PersonasAre DEF Personas
  <1>3. Declared[route].permission \in {"ops:traces:read", "ops:evals:run", "ops:evals:read",
                                         "ops:readiness", "worker:read"}
    BY RoutesAre DEF ProcessWide, Needs
  <1>4. RolePermissions[name] \subseteq
          SelfMemory \cup TenantMemory \cup RetentionAdmin \cup EvidenceReads
            \cup {"settings:manage", "memory:read:self", "memory:read:tenant", "audit:read:self",
                  "retention:read"}
    BY <1>2 DEF RolePermissions
  <1>5. Declared[route].permission \notin
          SelfMemory \cup TenantMemory \cup RetentionAdmin \cup EvidenceReads
            \cup {"settings:manage", "memory:read:self", "memory:read:tenant", "audit:read:self",
                  "retention:read"}
    BY <1>3 DEF SelfMemory, TenantMemory, RetentionAdmin, EvidenceReads
  <1> QED
    BY <1>1, <1>4, <1>5

\* What the console passes on does not depend on the scope the browser names.
LEMMA ScopeIsReplaced ==
  ASSUME NEW identity, NEW auth, NEW r, DOMAIN r = RequestFields,
         NEW other, DOMAIN other = RequestFields,
         other.route = r.route, other.row = r.row, other.patch = r.patch
  PROVE  Upstream(identity, auth, other) = Upstream(identity, auth, r)
  <1>1. PICK x, y : x = Upstream(identity, auth, other) /\ y = Upstream(identity, auth, r)
    OBVIOUS
  <1>2. DOMAIN x = RequestFields /\ DOMAIN y = RequestFields
    BY <1>1 DEF Upstream
  <1>3. /\ x.route = r.route /\ x.row = r.row /\ x.patch = r.patch
        /\ x.credential = Credential(identity, auth) /\ x.tenant = identity.tenant
        /\ x.user = identity.user
    BY <1>1, <1>2 DEF Upstream, RequestFields
  <1>4. /\ y.route = r.route /\ y.row = r.row /\ y.patch = r.patch
        /\ y.credential = Credential(identity, auth) /\ y.tenant = identity.tenant
        /\ y.user = identity.user
    BY <1>1 DEF Upstream, RequestFields
  <1>5. \A f \in RequestFields : x[f] = y[f]
    BY <1>3, <1>4 DEF RequestFields
  <1>6. x = [f \in RequestFields |-> x[f]] /\ y = [f \in RequestFields |-> y[f]]
    BY <1>1, <1>2 DEF Upstream
  <1>7. x = y
    BY <1>5, <1>6
  <1> QED
    BY <1>1, <1>7

LEMMA SessionsKeepTheirScope == ConsolePut(asked) => SessionScopeIsKept
  <1> SUFFICES ASSUME ConsolePut(asked), asked.about = "console"
               PROVE  SessionScopeIsKept
    BY DEF SessionScopeIsKept
  <1>1. PICK r, session, web, auth, settings :
          /\ r = asked.in.request /\ session = asked.in.session /\ web = asked.in.web
          /\ auth = asked.in.auth /\ settings = Behind
    OBVIOUS
  <1>2. PICK identity, other : /\ identity = ResolveIdentity(web, session)
                               /\ other = [r EXCEPT !.tenant = t1, !.user = u1]
    OBVIOUS
  <1>3. DOMAIN r = RequestFields /\ r.route \in Routes
    BY <1>1 DEF ConsolePut
  <1>4. /\ Upstream(identity, auth, other) = Upstream(identity, auth, r)
        /\ other.route = r.route /\ other.patch = r.patch
    <2>1. /\ DOMAIN other = RequestFields /\ other.route = r.route /\ other.row = r.row
          /\ other.patch = r.patch
      BY <1>2, <1>3 DEF RequestFields
    <2> QED
      BY <1>3, <2>1, ScopeIsReplaced
  <1>5. Console(r) = Console(other)
    BY <1>1, <1>2, <1>4 DEF Console, Proxy
  <1>6. ASSUME Console(r).code = 200
        PROVE  /\ Console(r).tenant \in {session.tenant, Unnamed}
               /\ r.route \in ProcessWide => r.route = "loops"
    <2>1. PICK u : u = Upstream(identity, auth, r)
      OBVIOUS
    <2>2. /\ identity # NoIdentity /\ CanAttempt(identity.role, r.route, r.patch)
          /\ ~(identity.demo /\ auth # "none") /\ Console(r) = Verdict(u, settings)
      BY <1>1, <1>2, <1>6, <2>1, CodesAre DEF Console, Proxy
    <2>3. u.route = r.route /\ u.credential = Credential(identity, auth)
      BY <1>3, <2>1 DEF Upstream, RequestFields
    <2>4. PICK p : p = Resolve(u.credential, BuildProvider(settings))
      OBVIOUS
    <2>5. p # NoPrincipal
      BY <1>6, <2>2, <2>4, CodesAre DEF Verdict
    <2>6. settings = [Trusting(TRUE) EXCEPT !.auth = auth] /\ settings.auth = auth
      BY <1>1 DEF Behind, Trusting
    <2>7. auth \in {"jwt", "trusted_header"}
      <3>1. CASE auth = "none"
        <4>1. u.credential.scheme = "none"
          BY <2>3, <3>1 DEF Credential, NoCredential
        <4>2. BuildProvider(settings).scheme = "headers"
          BY <2>6, <3>1 DEF BuildProvider
        <4> QED
          BY <2>4, <2>5, <4>1, <4>2 DEF Resolve
      <3> QED
        BY <1>1, <3>1 DEF ConsolePut
    <2>8. web = "authenticated" /\ identity.tenant = session.tenant
      BY <1>1, <1>2, <2>2, <2>7, IdentitiesAre DEF ConsolePut
    <2>9. identity.role \in Personas
      BY <1>2, IdentitiesAre
    <2>10. /\ p.tenant = identity.tenant /\ p.user = identity.user
           /\ OnlyRole(p, ApiRoleFor[identity.role])
      <3>1. p = Resolve(Credential(identity, auth), BuildProvider(settings))
        BY <2>3, <2>4
      <3>2. settings = [Trusting(TRUE) EXCEPT !.auth = auth]
        BY <2>6
      <3> QED
        BY ZenonT(60), <2>5, <2>7, <2>9, <3>1, <3>2, MintedPrincipal
    <2>11. Verdict(u, settings).tenant \in {p.tenant, Unnamed}
      BY <1>3, <1>6, <2>2, <2>3, <2>4, AnswersAreBounded
    <2>12. r.route \in ProcessWide \ {"loops"} => FALSE
      <3>1. SUFFICES ASSUME r.route \in ProcessWide \ {"loops"} PROVE FALSE
        OBVIOUS
      <3>2. Declared[r.route].kind = "permission"
        BY <3>1, KindsOfRoutes DEF ProcessWide, Fixed
      <3>3. RoleHolds(identity.role, {Declared[r.route].permission})
        BY <2>2, <3>2 DEF CanAttempt
      <3>4. Declared[r.route].permission \notin RolePermissions[ApiRoleFor[identity.role]]
        BY <2>9, <3>1, PersonasStayOut
      <3> QED
        BY <3>3, <3>4 DEF RoleHolds
    <2> QED
      BY <2>2, <2>8, <2>10, <2>11, <2>12
  <1> QED
    BY <1>1, <1>2, <1>5, <1>6 DEF SessionScopeIsKept

-----------------------------------------------------------------------------
(* Start-up.                                                                *)

EnvFields ==
  {"profile", "governance", "ablate", "gate", "storage", "dsn", "auth", "roleClaim", "cors",
   "publicEvals", "apiDocs", "llm", "embeddings", "vectorIndex", "keys", "modules"}

StartPut(q) == q.about = "start" => DOMAIN q.in = EnvFields

LEMMA StartIsPut ==
  ASSUME AskStart
  PROVE  StartPut(asked')
  <1>1. PICK env \in GovernedBy \cup ProvidedBy \cup SetUpBy : Ask("start", env)
    BY DEF AskStart
  <1>2. DOMAIN Plain = EnvFields
    BY DEF Plain, EnvFields
  <1>3. \E e : env = And(e, Plain) /\ DOMAIN e \subseteq EnvFields
    <2>1. CASE env \in GovernedBy
      <3>1. PICK e : env = And(e, Plain) /\ DOMAIN e = {"governance", "ablate", "gate"}
        BY <2>1 DEF GovernedBy
      <3> QED
        BY <3>1 DEF EnvFields
    <2>2. CASE env \in ProvidedBy
      <3>1. PICK e : /\ env = And(e, Plain)
                     /\ DOMAIN e = {"profile", "llm", "embeddings", "vectorIndex", "keys", "modules"}
        BY <2>2 DEF ProvidedBy
      <3> QED
        BY <3>1 DEF EnvFields
    <2>3. CASE env \in SetUpBy
      <3>1. PICK e : /\ env = And(e, Plain)
                     /\ DOMAIN e = {"profile", "storage", "dsn", "auth", "roleClaim", "cors",
                                    "publicEvals"}
        BY <2>3 DEF SetUpBy
      <3> QED
        BY <3>1 DEF EnvFields
    <2> QED
      BY <2>1, <2>2, <2>3
  <1>4. PICK e : env = And(e, Plain) /\ DOMAIN e \subseteq EnvFields
    BY <1>3
  <1>5. DOMAIN And(e, Plain) = DOMAIN e \cup DOMAIN Plain
    BY DEF And
  <1>6. DOMAIN env = EnvFields
    BY <1>2, <1>4, <1>5
  <1>7. asked'.in = env
    BY <1>1 DEF Ask
  <1> QED
    BY <1>6, <1>7 DEF StartPut

\* Database and index answer, and nothing is known of the workers.
AllAnswers(world) == world.database = TRUE /\ world.index = TRUE /\ world.runs.access = FALSE

\* What the probe makes of the providers, while everything answers.
LEMMA ReportsAre ==
  ASSUME NEW s, NEW env, NEW world, AllAnswers(world)
  PROVE  LET report == ReadinessReport(s, env, world) IN
         /\ s.profile = "production" /\ ProviderErrors(s, env) = {} => report.ready = TRUE
         /\ s.profile = "production" => report.degraded = FALSE
         /\ s.profile # "production" => (report.degraded <=> ProviderErrors(s, env) # {})
  <1>1. PICK fault : fault = ProviderFault(s)
    OBVIOUS
  <1>2. PICK llm, emb, vec :
          /\ llm = CheckLlmProvider(s, env) /\ emb = CheckEmbeddingProvider(s, env)
          /\ vec = CheckVectorBackend(s, env, TRUE)
    OBVIOUS
  <1>3. /\ s.profile = "production" => fault = "error"
        /\ s.profile # "production" => fault = "degraded"
    BY <1>1 DEF ProviderFault
  <1>4. llm \in {"ok", fault} /\ emb \in {"ok", fault} /\ vec \in {"ok", fault}
    BY <1>1, <1>2 DEF CheckLlmProvider, CheckEmbeddingProvider, CheckVectorBackend
  <1>5. ProviderErrors(s, env) = {} <=> llm = "ok" /\ emb = "ok" /\ vec = "ok"
    <2>1. fault # "ok"
      BY <1>3
    <2>2. llm = "ok" <=> ~(s.llm # "stub" /\ (s.llm \notin env.keys \/ LlmModule[s.llm] \notin env.modules))
      BY <1>1, <1>2, <2>1 DEF CheckLlmProvider
    <2>3. emb = "ok" <=> ~(s.embeddings = "openai" /\ ("openai" \notin env.keys \/ "openai" \notin env.modules))
      BY <1>1, <1>2, <2>1 DEF CheckEmbeddingProvider
    <2>4. vec = "ok" <=> ~(s.vectorIndex # "memory" /\ VectorModule[s.vectorIndex] \notin env.modules)
      BY <1>1, <1>2, <2>1 DEF CheckVectorBackend
    <2>5. ProviderErrors(s, env) = (IF llm = "ok" THEN {} ELSE {"llm"})
                                     \cup (IF emb = "ok" THEN {} ELSE {"embeddings"})
                                     \cup (IF vec = "ok" THEN {} ELSE {"vector index"})
      BY <2>2, <2>3, <2>4 DEF ProviderErrors
    <2> QED
      BY <2>5
  <1>6. PICK checks : checks = [storage |-> CheckStorage(world.database),
                                schema |-> CheckSchema(s, world.database),
                                vector_backend |-> CheckVectorBackend(s, env, world.index),
                                worker_runtime |-> CheckWorkerRuntime(world.runs),
                                llm_provider |-> CheckLlmProvider(s, env),
                                embedding_provider |-> CheckEmbeddingProvider(s, env)]
    OBVIOUS
  <1>7. ReadinessReport(s, env, world) =
          [ready |-> \A c \in DOMAIN checks : checks[c] # "error",
           degraded |-> \E c \in DOMAIN checks : checks[c] = "degraded", checks |-> checks]
    BY <1>6 DEF ReadinessReport
  <1>8. /\ DOMAIN checks = {"storage", "schema", "vector_backend", "worker_runtime",
                            "llm_provider", "embedding_provider"}
        /\ checks["storage"] = "ok" /\ checks["schema"] \in {"ok", "skipped"}
        /\ checks["worker_runtime"] = "skipped" /\ checks["vector_backend"] = vec
        /\ checks["llm_provider"] = llm /\ checks["embedding_provider"] = emb
    BY <1>2, <1>6 DEF AllAnswers, CheckStorage, CheckSchema, CheckWorkerRuntime
  <1>9. /\ ReadinessReport(s, env, world).ready = \A c \in DOMAIN checks : checks[c] # "error"
        /\ ReadinessReport(s, env, world).degraded = \E c \in DOMAIN checks : checks[c] = "degraded"
    BY <1>7
  <1>10. CASE s.profile = "production"
    <2>1. (\A c \in DOMAIN checks : checks[c] # "error") <=> (llm = "ok" /\ emb = "ok" /\ vec = "ok")
      BY <1>3, <1>4, <1>8, <1>10
    <2>2. \A c \in DOMAIN checks : checks[c] # "degraded"
      BY <1>3, <1>4, <1>8, <1>10
    <2> QED
      BY <1>5, <1>9, <1>10, <2>1, <2>2
  <1>11. CASE s.profile # "production"
    <2>1. (\E c \in DOMAIN checks : checks[c] = "degraded") <=> ~(llm = "ok" /\ emb = "ok" /\ vec = "ok")
      BY <1>3, <1>4, <1>8, <1>11
    <2> QED
      BY <1>5, <1>9, <1>11, <2>1
  <1> QED
    BY <1>10, <1>11

\* A process that starts under the production profile has every control.
LEMMA StartedIsComplete ==
  ASSUME NEW env, NEW s, s = Settings(env), Starts(env), s.profile = "production"
  PROVE  /\ s.controls = Controls /\ s.gates = Gates
         /\ s.storage = "postgres" /\ ~s.demoDsn /\ ~s.anyOrigin
         /\ s.auth # "none" /\ s.roleClaim /\ ProviderErrors(s, env) = {}
  <1>1. BasicErrors(s) = {} /\ ProviderErrors(s, env) = {} /\ GovernanceErrors(s, env) = {}
    BY DEF Starts, ReadinessErrors
  <1>2. s.controls = Controls /\ s.gates = Gates
    <2>1. s.controls \subseteq Controls /\ s.gates \subseteq Gates
      BY DEF Settings
    <2>2. Controls \ s.controls = {} /\ Gates \ s.gates = {}
      BY <1>1 DEF GovernanceErrors
    <2> QED
      BY <2>1, <2>2
  <1>3. /\ "storage" \notin BasicErrors(s) /\ "auth" \notin BasicErrors(s) /\ "cors" \notin BasicErrors(s)
        /\ "dsn" \notin BasicErrors(s) /\ "role claim" \notin BasicErrors(s)
    BY <1>1
  <1>4. s.storage = "postgres" /\ s.auth # "none" /\ ~s.anyOrigin
    BY <1>3 DEF BasicErrors
  <1>5. ~s.demoDsn /\ s.roleClaim
    BY <1>3, <1>4 DEF BasicErrors
  <1> QED
    BY <1>1, <1>2, <1>4, <1>5

\* The dev profile changes nothing of the providers.
LEMMA DevHasTheSameProviders ==
  ASSUME NEW env, DOMAIN env = EnvFields, NEW dev, dev = [env EXCEPT !.profile = "dev"]
  PROVE  /\ Settings(dev).profile = "dev"
         /\ ProviderErrors(Settings(dev), dev) = ProviderErrors(Settings(env), env)
  <1>1. /\ dev.profile = "dev" /\ dev.llm = env.llm /\ dev.embeddings = env.embeddings
        /\ dev.vectorIndex = env.vectorIndex /\ dev.keys = env.keys /\ dev.modules = env.modules
    BY DEF EnvFields
  <1>2. PICK s, d : s = Settings(env) /\ d = Settings(dev)
    OBVIOUS
  <1>3. d.profile = "dev" /\ d.llm = s.llm /\ d.embeddings = s.embeddings /\ d.vectorIndex = s.vectorIndex
    BY <1>1, <1>2 DEF Settings, Choice
  <1>4. ProviderErrors(d, dev) = ProviderErrors(s, env)
    BY <1>1, <1>3 DEF ProviderErrors
  <1> QED
    BY <1>2, <1>3, <1>4

LEMMA StartedIsWhatItClaims == StartPut(asked) => ProductionIsWhatItClaims
  <1> SUFFICES ASSUME StartPut(asked), asked.about = "start" PROVE ProductionIsWhatItClaims
    BY DEF ProductionIsWhatItClaims
  <1>1. PICK env, s, world, dev :
          /\ env = asked.in /\ s = Settings(env) /\ dev = [env EXCEPT !.profile = "dev"]
          /\ world = [database |-> TRUE, index |-> TRUE,
                      runs |-> [access |-> FALSE, any |-> FALSE, age |-> 0, deadLetters |-> FALSE]]
    OBVIOUS
  <1>2. AllAnswers(world)
    BY <1>1 DEF AllAnswers
  <1>3. DOMAIN env = EnvFields
    BY <1>1 DEF StartPut
  <1>4. ASSUME Starts(env), s.profile = "production"
        PROVE  /\ s.controls = Controls /\ s.gates = Gates
               /\ s.storage = "postgres" /\ ~s.demoDsn /\ ~s.anyOrigin
               /\ s.auth # "none" /\ s.roleClaim
               /\ Readyz(s, env, world) = [ready |-> TRUE, degraded |-> FALSE]
    <2>1. /\ s.controls = Controls /\ s.gates = Gates
          /\ s.storage = "postgres" /\ ~s.demoDsn /\ ~s.anyOrigin
          /\ s.auth # "none" /\ s.roleClaim /\ ProviderErrors(s, env) = {}
      BY <1>1, <1>4, StartedIsComplete
    <2>2. PICK report : report = ReadinessReport(s, env, world)
      OBVIOUS
    <2>3. report.ready = TRUE
      BY <1>2, <1>4, <2>1, <2>2, ReportsAre
    <2>4. report.degraded = FALSE
      BY <1>2, <1>4, <2>2, ReportsAre
    <2>5. Readyz(s, env, world) = [ready |-> TRUE, degraded |-> FALSE]
      BY <1>4, <2>2, <2>3, <2>4 DEF Readyz
    <2> QED
      BY <2>1, <2>5
  <1>5. ReadinessReport(Settings(dev), dev, world).degraded <=> ProviderErrors(s, env) # {}
    <2>1. PICK d : d = Settings(dev)
      OBVIOUS
    <2>2. d.profile = "dev" /\ ProviderErrors(d, dev) = ProviderErrors(s, env)
      BY <1>1, <1>3, <2>1, DevHasTheSameProviders
    <2>3. ReadinessReport(d, dev, world).degraded <=> ProviderErrors(d, dev) # {}
      BY <1>2, <2>2, ReportsAre
    <2> QED
      BY <2>1, <2>2, <2>3
  <1> QED
    BY <1>1, <1>4, <1>5 DEF ProductionIsWhatItClaims

-----------------------------------------------------------------------------
(* The migrations.  Run and Pass are recursive functions, so they first     *)
(* have to exist and are then known step by step.                           *)
IsRun(f, db, body, n) == f = [k \in 0..n |-> IF k = 0 THEN db ELSE Apply(f[k - 1], body[k])]

LEMMA RunsExist ==
  ASSUME NEW db, NEW body
  PROVE  \A n \in Nat : \E f : IsRun(f, db, body, n)
  <1> DEFINE S == {n \in Nat : \E f : IsRun(f, db, body, n)}
  <1>1. 0 \in S
    <2>1. PICK f : f = [k \in 0..0 |-> db]
      OBVIOUS
    <2>2. IsRun(f, db, body, 0)
      BY <2>1 DEF IsRun
    <2> QED
      BY <2>2
  <1>2. ASSUME NEW n \in S PROVE n + 1 \in S
    <2>1. PICK f : IsRun(f, db, body, n)
      OBVIOUS
    <2>2. PICK g : g = [k \in 0..n + 1 |-> IF k = n + 1 THEN Apply(f[n], body[n + 1]) ELSE f[k]]
      OBVIOUS
    <2>3. \A k \in 0..n : g[k] = f[k]
      BY <2>2
    <2>4. ASSUME NEW k \in 0..n + 1
          PROVE  g[k] = IF k = 0 THEN db ELSE Apply(g[k - 1], body[k])
      <3>1. CASE k = n + 1
        BY <2>2, <2>3, <3>1
      <3>2. CASE k \in 0..n
        <4>1. g[k] = f[k] /\ (k # 0 => g[k - 1] = f[k - 1])
          BY <2>3, <3>2
        <4> QED
          BY <2>1, <3>2, <4>1 DEF IsRun
      <3> QED
        BY <2>4, <3>1, <3>2
    <2>5. g = [k \in 0..n + 1 |-> g[k]]
      BY <2>2
    <2>6. IsRun(g, db, body, n + 1)
      BY <2>4, <2>5 DEF IsRun
    <2> QED
      BY <2>6
  <1> HIDE DEF S
  <1>3. S \in SUBSET Nat
    BY DEF S
  <1>4. S = Nat
    BY <1>1, <1>2, <1>3, SetInduction
  <1> QED
    BY <1>4 DEF S

\* A longer run begins like a shorter one.
LEMMA RunsAgree ==
  ASSUME NEW db, NEW body, NEW n \in Nat, NEW f, IsRun(f, db, body, n),
         NEW m \in Nat, n <= m, NEW g, IsRun(g, db, body, m)
  PROVE  \A k \in 0..n : f[k] = g[k]
  <1> DEFINE S == {k \in Nat : k <= n => f[k] = g[k]}
  <1>1. 0 \in S
    BY DEF IsRun
  <1>2. ASSUME NEW k \in S PROVE k + 1 \in S
    <2> SUFFICES ASSUME k + 1 <= n PROVE f[k + 1] = g[k + 1]
      OBVIOUS
    <2>1. f[k] = g[k] /\ k + 1 \in 0..n /\ k + 1 \in 0..m /\ k + 1 # 0 /\ (k + 1) - 1 = k
      OBVIOUS
    <2>2. f[k + 1] = Apply(f[(k + 1) - 1], body[k + 1])
      BY <2>1 DEF IsRun
    <2>3. g[k + 1] = Apply(g[(k + 1) - 1], body[k + 1])
      BY <2>1 DEF IsRun
    <2> QED
      BY <2>1, <2>2, <2>3
  <1> HIDE DEF S
  <1>3. S \in SUBSET Nat
    BY DEF S
  <1>4. S = Nat
    BY <1>1, <1>2, <1>3, SetInduction
  <1> QED
    BY <1>4 DEF S

LEMMA RunIsARun ==
  ASSUME NEW db, NEW body, NEW n \in Nat
  PROVE  \E f : IsRun(f, db, body, n) /\ Run(db, body, n) = f[n]
  <1>1. \E f : f = [k \in 0..n |-> IF k = 0 THEN db ELSE Apply(f[k - 1], body[k])]
    <2>1. PICK f : IsRun(f, db, body, n)
      BY RunsExist
    <2> QED
      BY <2>1 DEF IsRun
  <1>2. Run(db, body, n) = (CHOOSE f : f = [k \in 0..n |-> IF k = 0 THEN db ELSE Apply(f[k - 1], body[k])])[n]
    BY DEF Run
  <1> QED
    BY <1>1, <1>2 DEF IsRun

LEMMA RunStep ==
  ASSUME NEW db, NEW body, NEW n \in Nat
  PROVE  Run(db, body, n + 1) = Apply(Run(db, body, n), body[n + 1])
  <1>1. PICK f : IsRun(f, db, body, n) /\ Run(db, body, n) = f[n]
    BY RunIsARun
  <1>2. PICK g : IsRun(g, db, body, n + 1) /\ Run(db, body, n + 1) = g[n + 1]
    BY RunIsARun
  <1>3. f[n] = g[n]
    BY <1>1, <1>2, RunsAgree
  <1>4. n + 1 \in 0..n + 1 /\ n + 1 # 0 /\ (n + 1) - 1 = n
    OBVIOUS
  <1>5. g[n + 1] = Apply(g[(n + 1) - 1], body[n + 1])
    BY <1>2, <1>4 DEF IsRun
  <1> QED
    BY <1>1, <1>2, <1>3, <1>4, <1>5

LEMMA RunBegins ==
  ASSUME NEW db, NEW body
  PROVE  Run(db, body, 0) = db
  <1>1. PICK f : IsRun(f, db, body, 0) /\ Run(db, body, 0) = f[0]
    BY RunIsARun
  <1> QED
    BY <1>1 DEF IsRun

-----------------------------------------------------------------------------
(* What one statement does.                                                 *)
TableState == [exists: BOOLEAN, enabled: BOOLEAN, forced: BOOLEAN,
               policy: {"none", "tenant", "parent"}]

Versions == {"009", "010", "011", "012"}

Database == [marked: SUBSET Versions, failed: BOOLEAN, table: [Tables -> TableState]]

Sound(db) == db \in Database /\ ~db.failed

OnlyTable(db, d, t) ==
  /\ d.marked = db.marked
  /\ \A u \in Tables \ {t} : d.table[u] = db.table[u]

Replacing(db, t, r) == [db EXCEPT !.table[t] = r]

LEMMA Replaced ==
  ASSUME NEW db, Sound(db), NEW t \in Tables, NEW r \in TableState
  PROVE  /\ Sound(Replacing(db, t, r)) /\ OnlyTable(db, Replacing(db, t, r), t)
         /\ Replacing(db, t, r).table[t] = r
  <1>1. db \in Database /\ db.table \in [Tables -> TableState]
    BY DEF Sound, Database
  <1>2. PICK d : d = Replacing(db, t, r)
    OBVIOUS
  <1>3. d.table = [db.table EXCEPT ![t] = r] /\ d.marked = db.marked /\ d.failed = db.failed
    BY <1>1, <1>2 DEF Database, Replacing
  <1>4. d.table \in [Tables -> TableState]
    BY <1>1, <1>3
  <1>5. d \in Database
    BY <1>1, <1>2, <1>4 DEF Database, Replacing
  <1> QED
    BY <1>1, <1>2, <1>3, <1>5 DEF Sound, OnlyTable

LEMMA Creates ==
  ASSUME NEW db, Sound(db), NEW t \in Tables, NEW d, d = Apply(db, Statement("create", t))
  PROVE  /\ Sound(d) /\ OnlyTable(db, d, t) /\ d.table[t].exists
         /\ d.table[t].enabled = db.table[t].enabled /\ d.table[t].forced = db.table[t].forced
         /\ d.table[t].policy = db.table[t].policy
  <1>1. PICK r : r = [db.table[t] EXCEPT !.exists = TRUE]
    OBVIOUS
  <1>2. d = Replacing(db, t, r)
    BY <1>1 DEF Apply, Statement, Sound, Replacing
  <1>3. db.table[t] \in TableState
    BY DEF Sound, Database
  <1>4. r \in TableState
    BY <1>1, <1>3 DEF TableState
  <1>5. Sound(d) /\ OnlyTable(db, d, t) /\ d.table[t] = r
    BY <1>2, <1>4, Replaced
  <1> QED
    BY <1>1, <1>3, <1>5 DEF TableState

LEMMA Enables ==
  ASSUME NEW db, Sound(db), NEW t \in Tables, db.table[t].exists,
         NEW d, d = Apply(db, Statement("enable", t))
  PROVE  /\ Sound(d) /\ OnlyTable(db, d, t) /\ d.table[t].exists
         /\ d.table[t].enabled /\ d.table[t].forced = db.table[t].forced
         /\ d.table[t].policy = db.table[t].policy
  <1>1. PICK r : r = [db.table[t] EXCEPT !.enabled = TRUE]
    OBVIOUS
  <1>2. d = Replacing(db, t, r)
    BY <1>1 DEF Apply, Statement, Sound, Replacing
  <1>3. db.table[t] \in TableState
    BY DEF Sound, Database
  <1>4. r \in TableState
    BY <1>1, <1>3 DEF TableState
  <1>5. Sound(d) /\ OnlyTable(db, d, t) /\ d.table[t] = r
    BY <1>2, <1>4, Replaced
  <1> QED
    BY <1>1, <1>3, <1>5 DEF TableState

LEMMA Forces ==
  ASSUME NEW db, Sound(db), NEW t \in Tables, db.table[t].exists,
         NEW d, d = Apply(db, Statement("force", t))
  PROVE  /\ Sound(d) /\ OnlyTable(db, d, t) /\ d.table[t].exists
         /\ d.table[t].enabled = db.table[t].enabled /\ d.table[t].forced
         /\ d.table[t].policy = db.table[t].policy
  <1>1. PICK r : r = [db.table[t] EXCEPT !.forced = TRUE]
    OBVIOUS
  <1>2. d = Replacing(db, t, r)
    BY <1>1 DEF Apply, Statement, Sound, Replacing
  <1>3. db.table[t] \in TableState
    BY DEF Sound, Database
  <1>4. r \in TableState
    BY <1>1, <1>3 DEF TableState
  <1>5. Sound(d) /\ OnlyTable(db, d, t) /\ d.table[t] = r
    BY <1>2, <1>4, Replaced
  <1> QED
    BY <1>1, <1>3, <1>5 DEF TableState

LEMMA Drops ==
  ASSUME NEW db, Sound(db), NEW t \in Tables, db.table[t].exists,
         NEW d, d = Apply(db, Statement("drop", t))
  PROVE  /\ Sound(d) /\ OnlyTable(db, d, t) /\ d.table[t].exists
         /\ d.table[t].enabled = db.table[t].enabled /\ d.table[t].forced = db.table[t].forced
         /\ d.table[t].policy = "none"
  <1>1. PICK r : r = [db.table[t] EXCEPT !.policy = "none"]
    OBVIOUS
  <1>2. d = Replacing(db, t, r)
    BY <1>1 DEF Apply, Statement, Sound, Replacing
  <1>3. db.table[t] \in TableState
    BY DEF Sound, Database
  <1>4. r \in TableState
    BY <1>1, <1>3 DEF TableState
  <1>5. Sound(d) /\ OnlyTable(db, d, t) /\ d.table[t] = r
    BY <1>2, <1>4, Replaced
  <1> QED
    BY <1>1, <1>3, <1>5 DEF TableState

LEMMA Protects ==
  ASSUME NEW db, Sound(db), NEW t \in Tables, db.table[t].exists, db.table[t].policy = "none",
         NEW p \in {"tenant", "parent"}, NEW d, d = Apply(db, Statement(p, t))
  PROVE  /\ Sound(d) /\ OnlyTable(db, d, t) /\ d.table[t].exists
         /\ d.table[t].enabled = db.table[t].enabled /\ d.table[t].forced = db.table[t].forced
         /\ d.table[t].policy = p
  <1>1. PICK r : r = [db.table[t] EXCEPT !.policy = p]
    OBVIOUS
  <1>2. d = Replacing(db, t, r)
    BY <1>1 DEF Apply, Statement, Sound, Replacing
  <1>3. db.table[t] \in TableState
    BY DEF Sound, Database
  <1>4. r \in TableState
    BY <1>1, <1>3 DEF TableState
  <1>5. Sound(d) /\ OnlyTable(db, d, t) /\ d.table[t] = r
    BY <1>2, <1>4, Replaced
  <1> QED
    BY <1>1, <1>3, <1>5 DEF TableState

LEMMA Marks ==
  ASSUME NEW db, Sound(db), NEW v \in Versions, NEW d, d = Apply(db, Statement("mark", v))
  PROVE  Sound(d) /\ d.table = db.table /\ d.marked = db.marked \cup {v}
  <1>1. d = [db EXCEPT !.marked = @ \cup {v}]
    BY DEF Apply, Statement, Sound
  <1>2. db \in Database
    BY DEF Sound
  <1> QED
    BY <1>1, <1>2 DEF Sound, Database

LEMMA Alters ==
  ASSUME NEW db, Sound(db), NEW t \in Tables, db.table[t].exists, ~Blocked(db, t)
  PROVE  Apply(db, Statement("alter", t)) = db
  <1>1. PICK b : b = Blocked(db, t)
    OBVIOUS
  <1>2. db \in Database /\ db.failed = FALSE /\ b = FALSE
    BY <1>1 DEF Sound, Database, Blocked
  <1>3. Apply(db, Statement("alter", t)) = [db EXCEPT !.failed = b]
    BY <1>1, <1>2 DEF Apply, Statement
  <1>4. [db EXCEPT !.failed = FALSE] = db
    BY <1>2 DEF Database
  <1> QED
    BY <1>2, <1>3, <1>4

-----------------------------------------------------------------------------
(* What a database is at rest, and what a pass makes of it.                 *)
RunTables == {"loop_runs", "loop_events", "worker_runs"}

PolicyOf(t) == IF t = "loop_events" THEN "parent" ELSE "tenant"

Closed(db, t) == db.table[t].exists /\ db.table[t].enabled /\ db.table[t].forced

Guarded(db, t) == Closed(db, t) /\ db.table[t].policy = PolicyOf(t)

\* No statement of any migration opens a table again.
Gains(db, d) ==
  /\ Sound(d) /\ ("012" \in d.marked => "012" \in db.marked)
  /\ d.table["audit_chain_heads"].exists => db.table["audit_chain_heads"].exists
  /\ \A t \in Tables : /\ db.table[t].exists => d.table[t].exists
                       /\ db.table[t].enabled => d.table[t].enabled
                       /\ db.table[t].forced => d.table[t].forced

Rest(db) ==
  /\ Sound(db)
  /\ db.table["audit_chain_heads"].exists => Closed(db, "audit_chain_heads")
  /\ "012" \in db.marked => \A t \in OfTenants : Closed(db, t)

LEMMA GainsKeepRest ==
  ASSUME NEW db, NEW d, Rest(db), Gains(db, d)
  PROVE  Rest(d)
  BY DEF Rest, Gains, Closed, Tables, OfTenants

LEMMA GainsAddUp ==
  ASSUME NEW db, NEW d, NEW e, Gains(db, d), Gains(d, e)
  PROVE  Gains(db, e)
  BY DEF Gains, Tables

LEMMA NothingIsAGain == ASSUME NEW db, Sound(db) PROVE Gains(db, db)
  BY DEF Gains

\* A change of one table gains, unless it makes the chain heads.
LEMMA OneTableGains ==
  ASSUME NEW db, Sound(db), NEW d, Sound(d), NEW t \in Tables, OnlyTable(db, d, t),
         d.table[t].exists, db.table[t].exists \/ t # "audit_chain_heads",
         db.table[t].enabled => d.table[t].enabled,
         db.table[t].forced => d.table[t].forced
  PROVE  Gains(db, d)
  BY DEF Gains, OnlyTable, Tables

-----------------------------------------------------------------------------
(* The statements that isolate one table.                                   *)
LEMMA IsolateIsolates ==
  ASSUME NEW a, NEW body, NEW o \in Nat, NEW t \in Tables,
         \A j \in 1..4 : body[o + j] = Isolate(t, PolicyOf(t))[j],
         Sound(Run(a, body, o)), Run(a, body, o).table[t].exists
  PROVE  /\ \A j \in 0..4 : Gains(Run(a, body, o), Run(a, body, o + j))
         /\ OnlyTable(Run(a, body, o), Run(a, body, o + 4), t)
         /\ Guarded(Run(a, body, o + 4), t)
  <1>1. PICK p \in {"tenant", "parent"} : p = PolicyOf(t)
    BY DEF PolicyOf
  <1>2. PICK d0, d1, d2, d3, d4 :
          /\ d0 = Run(a, body, o) /\ d1 = Run(a, body, o + 1) /\ d2 = Run(a, body, o + 2)
          /\ d3 = Run(a, body, o + 3) /\ d4 = Run(a, body, o + 4)
    OBVIOUS
  <1>3. /\ body[o + 1] = Statement("enable", t) /\ body[o + 2] = Statement("force", t)
        /\ body[o + 3] = Statement("drop", t) /\ body[o + 4] = Statement(p, t)
    BY <1>1 DEF Isolate
  <1>4. d1 = Apply(d0, Statement("enable", t))
    <2>1. Run(a, body, o + 1) = Apply(Run(a, body, o), body[o + 1])
      BY RunStep
    <2> QED
      BY <1>2, <1>3, <2>1
  <1>5. d2 = Apply(d1, Statement("force", t))
    <2>1. o + 1 \in Nat /\ (o + 1) + 1 = o + 2
      OBVIOUS
    <2> QED
      BY <1>2, <1>3, <2>1, RunStep
  <1>6. d3 = Apply(d2, Statement("drop", t))
    <2>1. o + 2 \in Nat /\ (o + 2) + 1 = o + 3
      OBVIOUS
    <2> QED
      BY <1>2, <1>3, <2>1, RunStep
  <1>7. d4 = Apply(d3, Statement(p, t))
    <2>1. o + 3 \in Nat /\ (o + 3) + 1 = o + 4
      OBVIOUS
    <2> QED
      BY <1>2, <1>3, <2>1, RunStep
  <1>8. Sound(d0) /\ d0.table[t].exists
    BY <1>2
  <1>9. /\ Sound(d1) /\ OnlyTable(d0, d1, t) /\ d1.table[t].exists
        /\ d1.table[t].enabled /\ d1.table[t].forced = d0.table[t].forced
    BY <1>4, <1>8, Enables
  <1>10. /\ Sound(d2) /\ OnlyTable(d1, d2, t) /\ d2.table[t].exists
         /\ d2.table[t].enabled = d1.table[t].enabled /\ d2.table[t].forced
    BY <1>5, <1>9, Forces
  <1>11. /\ Sound(d3) /\ OnlyTable(d2, d3, t) /\ d3.table[t].exists
         /\ d3.table[t].enabled = d2.table[t].enabled /\ d3.table[t].forced = d2.table[t].forced
         /\ d3.table[t].policy = "none"
    BY <1>6, <1>10, Drops
  <1>12. /\ Sound(d4) /\ OnlyTable(d3, d4, t) /\ d4.table[t].exists
         /\ d4.table[t].enabled = d3.table[t].enabled /\ d4.table[t].forced = d3.table[t].forced
         /\ d4.table[t].policy = p
    BY <1>7, <1>11, Protects
  <1>13. Gains(d0, d0) /\ Gains(d0, d1) /\ Gains(d1, d2) /\ Gains(d2, d3) /\ Gains(d3, d4)
    BY <1>8, <1>9, <1>10, <1>11, <1>12, NothingIsAGain, OneTableGains
  <1>14. Gains(d0, d2) /\ Gains(d0, d3) /\ Gains(d0, d4)
    BY <1>13, GainsAddUp
  <1>15. OnlyTable(d0, d4, t)
    BY <1>9, <1>10, <1>11, <1>12 DEF OnlyTable
  <1>16. Guarded(d4, t)
    BY <1>1, <1>9, <1>10, <1>11, <1>12 DEF Guarded, Closed
  <1>17. ASSUME NEW j \in 0..4 PROVE Gains(Run(a, body, o), Run(a, body, o + j))
    <2>1. j = 0 \/ j = 1 \/ j = 2 \/ j = 3 \/ j = 4
      OBVIOUS
    <2>2. o + 0 = o
      OBVIOUS
    <2> QED
      BY <1>2, <1>13, <1>14, <2>1, <2>2
  <1> QED
    BY <1>2, <1>15, <1>16, <1>17

-----------------------------------------------------------------------------
(* The files, statement by statement.                                       *)
LEMMA FilesAre ==
  /\ DOMAIN Migrations = 1..10 /\ Len(Migrations) = 10
  /\ Migrations[1] = CoreTables /\ Migrations[2] = IndexesRls /\ Migrations[3] = RlsPolicies
  /\ Migrations[4] = LoopEngineering /\ Migrations[5] = WorkerRuntimeTables
  /\ Migrations[6] = ScopeIdsToText /\ Migrations[7] = OperationalEvidenceRls
  /\ Migrations[8] = TransactionalAuditChain /\ Migrations[9] = AuditChainHeads
  /\ Migrations[10] = MemoryRevision
  BY DEF Migrations

LEMMA CoreTablesAre ==
  LET body == CoreTables.body IN
  /\ ~CoreTables.atomic /\ Len(body) = 4
  /\ body[1] = Statement("create", "memory_records")
  /\ body[2] = Statement("create", "memory_audit_logs")
  /\ body[3] = Statement("create", "memory_feedback")
  /\ body[4] = Statement("create", "memory_settings")
  BY DEF CoreTables, Migration, Each, OfMemory

LEMMA RlsPoliciesAre ==
  LET body == RlsPolicies.body IN
  /\ ~RlsPolicies.atomic /\ Len(body) = 16
  /\ \A j \in 1..4 : /\ body[0 + j] = Isolate("memory_records", "tenant")[j]
                     /\ body[4 + j] = Isolate("memory_audit_logs", "tenant")[j]
                     /\ body[8 + j] = Isolate("memory_feedback", "tenant")[j]
                     /\ body[12 + j] = Isolate("memory_settings", "tenant")[j]
  BY DEF RlsPolicies, Migration, Isolate

LEMMA ScopeIdsToTextAre ==
  LET body == ScopeIdsToText.body IN
  /\ ScopeIdsToText.atomic /\ Len(body) = 18
  /\ body[1] = Statement("drop", "memory_records")
  /\ body[2] = Statement("drop", "memory_audit_logs")
  /\ body[3] = Statement("drop", "memory_feedback")
  /\ body[4] = Statement("drop", "memory_settings")
  /\ body[5] = Statement("drop", "loop_runs")
  /\ body[6] = Statement("drop", "loop_events")
  /\ body[7] = Statement("drop", "worker_runs")
  /\ body[8] = Statement("alter", "memory_records")
  /\ body[9] = Statement("alter", "memory_audit_logs")
  /\ body[10] = Statement("alter", "memory_feedback")
  /\ body[11] = Statement("alter", "memory_settings")
  /\ body[12] = Statement("alter", "loop_runs")
  /\ body[13] = Statement("alter", "loop_events")
  /\ body[14] = Statement("alter", "worker_runs")
  /\ body[15] = Statement("tenant", "memory_records")
  /\ body[16] = Statement("tenant", "memory_audit_logs")
  /\ body[17] = Statement("tenant", "memory_feedback")
  /\ body[18] = Statement("tenant", "memory_settings")
  BY DEF ScopeIdsToText, Migration, Each, OfMemory, OfRuns

LEMMA IndexesRlsAre ==
  LET body == IndexesRls.body IN
  /\ ~IndexesRls.atomic /\ Len(body) = 2
  /\ body[1] = Statement("enable", "memory_records")
  /\ body[2] = Statement("enable", "memory_audit_logs")
  BY DEF IndexesRls, Migration, Each

LEMMA LoopEngineeringIs ==
  LET body == LoopEngineering.body IN
  /\ ~LoopEngineering.atomic /\ Len(body) = 2
  /\ body[1] = Statement("create", "loop_runs")
  /\ body[2] = Statement("create", "loop_events")
  BY DEF LoopEngineering, Migration, Each

LEMMA WorkerRuntimeTablesAre ==
  LET body == WorkerRuntimeTables.body IN
  /\ ~WorkerRuntimeTables.atomic /\ Len(body) = 2
  /\ body[1] = Statement("create", "worker_leases")
  /\ body[2] = Statement("create", "worker_runs")
  BY DEF WorkerRuntimeTables, Migration, Each

LEMMA OperationalEvidenceRlsIs ==
  LET body == OperationalEvidenceRls.body IN
  /\ OperationalEvidenceRls.atomic /\ Len(body) = 13
  /\ \A j \in 1..4 : /\ body[0 + j] = Isolate("loop_runs", "tenant")[j]
                     /\ body[4 + j] = Isolate("loop_events", "parent")[j]
                     /\ body[8 + j] = Isolate("worker_runs", "tenant")[j]
  /\ body[13] = Statement("mark", "009")
  BY DEF OperationalEvidenceRls, Migration, Isolate, Marker

LEMMA AuditChainHeadsAre ==
  LET body == AuditChainHeads.body IN
  /\ AuditChainHeads.atomic /\ Len(body) = 6
  /\ body[1] = Statement("create", "audit_chain_heads")
  /\ \A j \in 1..4 : body[1 + j] = Isolate("audit_chain_heads", "tenant")[j]
  /\ body[6] = Statement("mark", "011")
  BY DEF AuditChainHeads, Migration, Isolate, Marker, Each

LEMMA MarkersAre ==
  /\ TransactionalAuditChain.atomic /\ Len(TransactionalAuditChain.body) = 1
  /\ TransactionalAuditChain.body[1] = Statement("mark", "010")
  /\ MemoryRevision.atomic /\ Len(MemoryRevision.body) = 1
  /\ MemoryRevision.body[1] = Statement("mark", "012")
  BY DEF TransactionalAuditChain, MemoryRevision, Migration, Marker

-----------------------------------------------------------------------------
(* A file as a whole or in part.                                            *)
LEMMA PlainFile ==
  ASSUME NEW db, NEW file, ~file.atomic, NEW n
  PROVE  ApplyFile(db, file, n) = Run(db, file.body, n)
  BY DEF ApplyFile

LEMMA TransactionLeavesNothing ==
  ASSUME NEW db, Sound(db), NEW file, file.atomic, NEW n, n < Len(file.body),
         Sound(Run(db, file.body, n))
  PROVE  ApplyFile(db, file, n) = db
  <1>1. PICK f : f = Run(db, file.body, n).failed
    OBVIOUS
  <1>2. f = FALSE
    BY <1>1 DEF Sound, Database
  <1>3. db.failed = FALSE /\ db \in Database
    BY DEF Sound, Database
  <1>4. [db EXCEPT !.failed = FALSE] = db
    BY <1>3 DEF Database
  <1>5. ApplyFile(db, file, n) = [db EXCEPT !.failed = f]
    BY <1>1 DEF ApplyFile
  <1> QED
    BY <1>2, <1>4, <1>5

LEMMA TransactionInFull ==
  ASSUME NEW db, NEW file, file.atomic, NEW n \in Nat, n = Len(file.body),
         Sound(Run(db, file.body, n))
  PROVE  ApplyFile(db, file, n) = Run(db, file.body, n)
  BY DEF ApplyFile, Sound

-----------------------------------------------------------------------------
(* One statement of a file after those before it.                           *)
LEMMA StepCreates ==
  ASSUME NEW a, NEW body, NEW n \in Nat, NEW t \in Tables, NEW m, m = n + 1,
         body[m] = Statement("create", t), Sound(Run(a, body, n)),
         t # "audit_chain_heads"
  PROVE  /\ Gains(Run(a, body, n), Run(a, body, m)) /\ Sound(Run(a, body, m))
         /\ OnlyTable(Run(a, body, n), Run(a, body, m), t)
         /\ Run(a, body, m).table[t].exists
         /\ Run(a, body, m).table[t].policy = Run(a, body, n).table[t].policy
         /\ Run(a, body, m).table[t].enabled = Run(a, body, n).table[t].enabled
         /\ Run(a, body, m).table[t].forced = Run(a, body, n).table[t].forced
  <1>1. Run(a, body, n + 1) = Apply(Run(a, body, n), body[n + 1])
    BY RunStep
  <1>2. PICK d, e : d = Run(a, body, n) /\ e = Run(a, body, m)
    OBVIOUS
  <1>3. e = Apply(d, Statement("create", t))
    BY <1>1, <1>2
  <1>4. /\ Sound(e) /\ OnlyTable(d, e, t) /\ e.table[t].exists
        /\ e.table[t].enabled = d.table[t].enabled /\ e.table[t].forced = d.table[t].forced
        /\ e.table[t].policy = d.table[t].policy
    BY <1>2, <1>3, Creates
  <1>5. Gains(d, e)
    BY <1>2, <1>4, OneTableGains
  <1> QED
    BY <1>2, <1>4, <1>5

LEMMA StepEnables ==
  ASSUME NEW a, NEW body, NEW n \in Nat, NEW t \in Tables, NEW m, m = n + 1,
         body[m] = Statement("enable", t), Sound(Run(a, body, n)),
         Run(a, body, n).table[t].exists
  PROVE  /\ Gains(Run(a, body, n), Run(a, body, m)) /\ Sound(Run(a, body, m))
         /\ OnlyTable(Run(a, body, n), Run(a, body, m), t)
  <1>1. Run(a, body, n + 1) = Apply(Run(a, body, n), body[n + 1])
    BY RunStep
  <1>2. PICK d, e : d = Run(a, body, n) /\ e = Run(a, body, m)
    OBVIOUS
  <1>3. e = Apply(d, Statement("enable", t))
    BY <1>1, <1>2
  <1>4. /\ Sound(e) /\ OnlyTable(d, e, t) /\ e.table[t].exists
        /\ e.table[t].enabled /\ e.table[t].forced = d.table[t].forced
    BY <1>2, <1>3, Enables
  <1>5. Gains(d, e)
    BY <1>2, <1>4, OneTableGains
  <1> QED
    BY <1>2, <1>4, <1>5

LEMMA StepDrops ==
  ASSUME NEW a, NEW body, NEW n \in Nat, NEW t \in Tables, NEW m, m = n + 1,
         body[m] = Statement("drop", t), Sound(Run(a, body, n)),
         Run(a, body, n).table[t].exists
  PROVE  /\ Gains(Run(a, body, n), Run(a, body, m)) /\ Sound(Run(a, body, m))
         /\ OnlyTable(Run(a, body, n), Run(a, body, m), t)
         /\ Run(a, body, m).table[t].policy = "none"
  <1>1. Run(a, body, n + 1) = Apply(Run(a, body, n), body[n + 1])
    BY RunStep
  <1>2. PICK d, e : d = Run(a, body, n) /\ e = Run(a, body, m)
    OBVIOUS
  <1>3. e = Apply(d, Statement("drop", t))
    BY <1>1, <1>2
  <1>4. /\ Sound(e) /\ OnlyTable(d, e, t) /\ e.table[t].exists
        /\ e.table[t].enabled = d.table[t].enabled /\ e.table[t].forced = d.table[t].forced
        /\ e.table[t].policy = "none"
    BY <1>2, <1>3, Drops
  <1>5. Gains(d, e)
    BY <1>2, <1>4, OneTableGains
  <1> QED
    BY <1>2, <1>4, <1>5

LEMMA StepAlters ==
  ASSUME NEW a, NEW body, NEW n \in Nat, NEW t \in Tables, NEW m, m = n + 1,
         body[m] = Statement("alter", t), Sound(Run(a, body, n)),
         Run(a, body, n).table[t].exists, ~Blocked(Run(a, body, n), t)
  PROVE  Run(a, body, m) = Run(a, body, n)
  <1>1. Run(a, body, n + 1) = Apply(Run(a, body, n), body[n + 1])
    BY RunStep
  <1>2. PICK d : d = Run(a, body, n)
    OBVIOUS
  <1>3. Apply(d, Statement("alter", t)) = d
    BY <1>2, Alters
  <1> QED
    BY <1>1, <1>2, <1>3

LEMMA StepProtects ==
  ASSUME NEW a, NEW body, NEW n \in Nat, NEW t \in Tables, NEW m, m = n + 1,
         body[m] = Statement("tenant", t), Sound(Run(a, body, n)),
         Run(a, body, n).table[t].exists, Run(a, body, n).table[t].policy = "none"
  PROVE  /\ Gains(Run(a, body, n), Run(a, body, m)) /\ Sound(Run(a, body, m))
         /\ OnlyTable(Run(a, body, n), Run(a, body, m), t)
         /\ Run(a, body, m).table[t].policy = "tenant"
  <1>1. Run(a, body, n + 1) = Apply(Run(a, body, n), body[n + 1])
    BY RunStep
  <1>2. PICK d, e : d = Run(a, body, n) /\ e = Run(a, body, m)
    OBVIOUS
  <1>3. e = Apply(d, Statement("tenant", t))
    BY <1>1, <1>2
  <1>4. /\ Sound(e) /\ OnlyTable(d, e, t) /\ e.table[t].exists
        /\ e.table[t].enabled = d.table[t].enabled /\ e.table[t].forced = d.table[t].forced
        /\ e.table[t].policy = "tenant"
    BY <1>2, <1>3, Protects
  <1>5. Gains(d, e)
    BY <1>2, <1>4, OneTableGains
  <1> QED
    BY <1>2, <1>4, <1>5

LEMMA StepMarks ==
  ASSUME NEW a, NEW body, NEW n \in Nat, NEW v \in Versions, NEW m, m = n + 1,
         body[m] = Statement("mark", v), Sound(Run(a, body, n))
  PROVE  /\ Sound(Run(a, body, m)) /\ Run(a, body, m).table = Run(a, body, n).table
         /\ v # "012" => Gains(Run(a, body, n), Run(a, body, m))
         /\ v \in Run(a, body, m).marked
  <1>1. Run(a, body, n + 1) = Apply(Run(a, body, n), body[n + 1])
    BY RunStep
  <1>2. PICK d, e : d = Run(a, body, n) /\ e = Run(a, body, m)
    OBVIOUS
  <1>3. e = Apply(d, Statement("mark", v))
    BY <1>1, <1>2
  <1>4. Sound(e) /\ e.table = d.table /\ e.marked = d.marked \cup {v}
    BY <1>2, <1>3, Marks
  <1>5. v # "012" => Gains(d, e)
    BY <1>4 DEF Gains
  <1> QED
    BY <1>2, <1>4, <1>5

-----------------------------------------------------------------------------
(* What is made by the first k files of a pass.                             *)
MemoryTables == {"memory_records", "memory_audit_logs", "memory_feedback", "memory_settings"}

Made(db, k) ==
  /\ k >= 1 => \A t \in MemoryTables : db.table[t].exists
  /\ k >= 3 => \A t \in MemoryTables : Guarded(db, t)
  /\ k >= 4 => db.table["loop_runs"].exists /\ db.table["loop_events"].exists
  /\ k >= 5 => db.table["worker_runs"].exists
  /\ k >= 7 => \A t \in RunTables : Guarded(db, t)
  /\ k >= 9 => Guarded(db, "audit_chain_heads")
  /\ k >= 10 => "012" \in db.marked

FileKept(db, k, n) ==
  /\ Rest(ApplyFile(db, Migrations[k], n))
  /\ n = Len(Migrations[k].body) => Made(ApplyFile(db, Migrations[k], n), k)

\* A guarded table stays guarded while another is worked on.
LEMMA OthersStayGuarded ==
  ASSUME NEW db, NEW d, NEW t \in Tables, OnlyTable(db, d, t), NEW u \in Tables \ {t}
  PROVE  /\ Guarded(db, u) => Guarded(d, u)
         /\ d.table[u].exists = db.table[u].exists
         /\ d.table[u].policy = db.table[u].policy
  BY DEF OnlyTable, Guarded, Closed

GuardsMemory(db) == \A t \in MemoryTables : Guarded(db, t)

LEMMA MemoryStaysGuarded ==
  ASSUME NEW db, NEW d, NEW t \in Tables \ MemoryTables, OnlyTable(db, d, t), GuardsMemory(db)
  PROVE  GuardsMemory(d)
  BY DEF OnlyTable, Guarded, Closed, GuardsMemory, MemoryTables, Tables

LEMMA File1IsKept ==
  ASSUME NEW db, Rest(db), Made(db, 0), NEW n \in 0..Len(Migrations[1].body)
  PROVE  FileKept(db, 1, n)
  <1>1. PICK body : body = CoreTables.body
    OBVIOUS
  <1>2. Migrations[1] = CoreTables /\ Len(body) = 4 /\ ~CoreTables.atomic
    BY <1>1, FilesAre, CoreTablesAre
  <1>3. Run(db, body, 0) = db /\ Sound(db)
    BY RunBegins DEF Rest
  <1>4. /\ Gains(Run(db, body, 0), Run(db, body, 1)) /\ Sound(Run(db, body, 1))
        /\ OnlyTable(Run(db, body, 0), Run(db, body, 1), "memory_records")
        /\ Run(db, body, 1).table["memory_records"].exists
    <2>1. body[1] = Statement("create", "memory_records") /\ "memory_records" \in Tables
      BY <1>1, CoreTablesAre DEF Tables
    <2> QED
      BY 1 = 0 + 1, 0 \in Nat, <1>3, <2>1, StepCreates
  <1>5. /\ Gains(Run(db, body, 1), Run(db, body, 2)) /\ Sound(Run(db, body, 2))
        /\ OnlyTable(Run(db, body, 1), Run(db, body, 2), "memory_audit_logs")
        /\ Run(db, body, 2).table["memory_audit_logs"].exists
    <2>1. body[2] = Statement("create", "memory_audit_logs") /\ "memory_audit_logs" \in Tables
      BY <1>1, CoreTablesAre DEF Tables
    <2> QED
      BY 2 = 1 + 1, 1 \in Nat, <1>3, <1>4, <2>1, StepCreates
  <1>6. /\ Gains(Run(db, body, 2), Run(db, body, 3)) /\ Sound(Run(db, body, 3))
        /\ OnlyTable(Run(db, body, 2), Run(db, body, 3), "memory_feedback")
        /\ Run(db, body, 3).table["memory_feedback"].exists
    <2>1. body[3] = Statement("create", "memory_feedback") /\ "memory_feedback" \in Tables
      BY <1>1, CoreTablesAre DEF Tables
    <2> QED
      BY 3 = 2 + 1, 2 \in Nat, <1>3, <1>5, <2>1, StepCreates
  <1>7. /\ Gains(Run(db, body, 3), Run(db, body, 4)) /\ Sound(Run(db, body, 4))
        /\ OnlyTable(Run(db, body, 3), Run(db, body, 4), "memory_settings")
        /\ Run(db, body, 4).table["memory_settings"].exists
    <2>1. body[4] = Statement("create", "memory_settings") /\ "memory_settings" \in Tables
      BY <1>1, CoreTablesAre DEF Tables
    <2> QED
      BY 4 = 3 + 1, 3 \in Nat, <1>3, <1>6, <2>1, StepCreates
  <1>8. \A j \in 0..4 : Gains(db, Run(db, body, j))
    <2>1. Gains(db, Run(db, body, 0))
      BY <1>3, NothingIsAGain
    <2>2. Gains(db, Run(db, body, 1))
      BY <1>4, <2>1, GainsAddUp
    <2>3. Gains(db, Run(db, body, 2))
      BY <1>5, <2>2, GainsAddUp
    <2>4. Gains(db, Run(db, body, 3))
      BY <1>6, <2>3, GainsAddUp
    <2>5. Gains(db, Run(db, body, 4))
      BY <1>7, <2>4, GainsAddUp
    <2>6. ASSUME NEW j \in 0..4 PROVE j = 0 \/ j = 1 \/ j = 2 \/ j = 3 \/ j = 4
      OBVIOUS
    <2> QED
      BY <2>1, <2>2, <2>3, <2>4, <2>5, <2>6
  <1>9. Rest(Run(db, body, n))
    BY <1>1, <1>2, <1>8, GainsKeepRest
  <1>10. Made(Run(db, body, 4), 1)
    <2>1. /\ Run(db, body, 4).table["memory_records"].exists
          /\ Run(db, body, 4).table["memory_audit_logs"].exists
          /\ Run(db, body, 4).table["memory_feedback"].exists
      <3>1. Run(db, body, 2).table["memory_records"].exists
        BY <1>4, <1>5 DEF Gains, Tables
      <3>2. /\ Run(db, body, 3).table["memory_records"].exists
            /\ Run(db, body, 3).table["memory_audit_logs"].exists
        BY <3>1, <1>5, <1>6 DEF Gains, Tables
      <3> QED
        BY <3>2, <1>6, <1>7 DEF Gains, Tables
    <2>2. \A t \in MemoryTables : Run(db, body, 4).table[t].exists
      BY <2>1, <1>7 DEF MemoryTables
    <2> QED
      BY <2>2 DEF Made
  <1>11. ApplyFile(db, Migrations[1], n) = Run(db, body, n)
    BY <1>1, <1>2, PlainFile
  <1> QED
    BY <1>1, <1>2, <1>9, <1>10, <1>11 DEF FileKept

LEMMA File2IsKept ==
  ASSUME NEW db, Rest(db), Made(db, 1), NEW n \in 0..Len(Migrations[2].body)
  PROVE  FileKept(db, 2, n)
  <1>1. PICK body : body = IndexesRls.body
    OBVIOUS
  <1>2. Migrations[2] = IndexesRls /\ Len(body) = 2 /\ ~IndexesRls.atomic
    BY <1>1, FilesAre, IndexesRlsAre
  <1>3. Run(db, body, 0) = db /\ Sound(db)
    BY RunBegins DEF Rest
  <1>4. Run(db, body, 0).table["memory_records"].exists
    BY <1>3 DEF Made, MemoryTables, Gains, Tables
  <1>5. /\ Gains(Run(db, body, 0), Run(db, body, 1)) /\ Sound(Run(db, body, 1))
        /\ OnlyTable(Run(db, body, 0), Run(db, body, 1), "memory_records")
    <2>1. body[1] = Statement("enable", "memory_records") /\ "memory_records" \in Tables
      BY <1>1, IndexesRlsAre DEF Tables
    <2> QED
      BY 1 = 0 + 1, 0 \in Nat, <1>3, <1>4, <2>1, StepEnables
  <1>6. Run(db, body, 1).table["memory_audit_logs"].exists
    BY <1>3, <1>5 DEF Made, MemoryTables, Gains, Tables
  <1>7. /\ Gains(Run(db, body, 1), Run(db, body, 2)) /\ Sound(Run(db, body, 2))
        /\ OnlyTable(Run(db, body, 1), Run(db, body, 2), "memory_audit_logs")
    <2>1. body[2] = Statement("enable", "memory_audit_logs") /\ "memory_audit_logs" \in Tables
      BY <1>1, IndexesRlsAre DEF Tables
    <2> QED
      BY 2 = 1 + 1, 1 \in Nat, <1>3, <1>6, <1>5, <2>1, StepEnables
  <1>8. \A j \in 0..2 : Gains(db, Run(db, body, j))
    <2>1. Gains(db, Run(db, body, 0))
      BY <1>3, NothingIsAGain
    <2>2. Gains(db, Run(db, body, 1))
      BY <1>5, <2>1, GainsAddUp
    <2>3. Gains(db, Run(db, body, 2))
      BY <1>7, <2>2, GainsAddUp
    <2>4. ASSUME NEW j \in 0..2 PROVE j = 0 \/ j = 1 \/ j = 2
      OBVIOUS
    <2> QED
      BY <2>1, <2>2, <2>3, <2>4
  <1>9. Rest(Run(db, body, n))
    BY <1>1, <1>2, <1>8, GainsKeepRest
  <1>10. Made(Run(db, body, 2), 2)
    BY <1>3, <1>5, <1>7 DEF Made, MemoryTables, Gains, Tables
  <1>11. ApplyFile(db, Migrations[2], n) = Run(db, body, n)
    BY <1>1, <1>2, PlainFile
  <1> QED
    BY <1>1, <1>2, <1>9, <1>10, <1>11 DEF FileKept

LEMMA File4IsKept ==
  ASSUME NEW db, Rest(db), Made(db, 3), NEW n \in 0..Len(Migrations[4].body)
  PROVE  FileKept(db, 4, n)
  <1>1. PICK body : body = LoopEngineering.body
    OBVIOUS
  <1>2. Migrations[4] = LoopEngineering /\ Len(body) = 2 /\ ~LoopEngineering.atomic
    BY <1>1, FilesAre, LoopEngineeringIs
  <1>3. Run(db, body, 0) = db /\ Sound(db)
    BY RunBegins DEF Rest
  <1>4. /\ Gains(Run(db, body, 0), Run(db, body, 1)) /\ Sound(Run(db, body, 1))
        /\ OnlyTable(Run(db, body, 0), Run(db, body, 1), "loop_runs")
        /\ Run(db, body, 1).table["loop_runs"].exists
    <2>1. body[1] = Statement("create", "loop_runs") /\ "loop_runs" \in Tables
      BY <1>1, LoopEngineeringIs DEF Tables
    <2> QED
      BY 1 = 0 + 1, 0 \in Nat, <1>3, <2>1, StepCreates
  <1>5. /\ Gains(Run(db, body, 1), Run(db, body, 2)) /\ Sound(Run(db, body, 2))
        /\ OnlyTable(Run(db, body, 1), Run(db, body, 2), "loop_events")
        /\ Run(db, body, 2).table["loop_events"].exists
    <2>1. body[2] = Statement("create", "loop_events") /\ "loop_events" \in Tables
      BY <1>1, LoopEngineeringIs DEF Tables
    <2> QED
      BY 2 = 1 + 1, 1 \in Nat, <1>3, <1>4, <2>1, StepCreates
  <1>6. \A j \in 0..2 : Gains(db, Run(db, body, j))
    <2>1. Gains(db, Run(db, body, 0))
      BY <1>3, NothingIsAGain
    <2>2. Gains(db, Run(db, body, 1))
      BY <1>4, <2>1, GainsAddUp
    <2>3. Gains(db, Run(db, body, 2))
      BY <1>5, <2>2, GainsAddUp
    <2>4. ASSUME NEW j \in 0..2 PROVE j = 0 \/ j = 1 \/ j = 2
      OBVIOUS
    <2> QED
      BY <2>1, <2>2, <2>3, <2>4
  <1>7. Rest(Run(db, body, n))
    BY <1>1, <1>2, <1>6, GainsKeepRest
  <1>8. Made(Run(db, body, 2), 4)
    <2>1. GuardsMemory(Run(db, body, 0))
      BY <1>3 DEF Made, GuardsMemory
    <2>2. GuardsMemory(Run(db, body, 1))
      BY <1>4, <2>1, MemoryStaysGuarded DEF MemoryTables, Tables
    <2>3. GuardsMemory(Run(db, body, 2))
      BY <1>5, <2>2, MemoryStaysGuarded DEF MemoryTables, Tables
    <2>4. \A t \in MemoryTables : Guarded(Run(db, body, 2), t) /\ Run(db, body, 2).table[t].exists
      BY <2>3 DEF GuardsMemory, Guarded, Closed
    <2> QED
      BY <1>3, <1>4, <1>5, <2>4 DEF Made, Gains, Tables
  <1>9. ApplyFile(db, Migrations[4], n) = Run(db, body, n)
    BY <1>1, <1>2, PlainFile
  <1> QED
    BY <1>1, <1>2, <1>7, <1>8, <1>9 DEF FileKept

LEMMA File5IsKept ==
  ASSUME NEW db, Rest(db), Made(db, 4), NEW n \in 0..Len(Migrations[5].body)
  PROVE  FileKept(db, 5, n)
  <1>1. PICK body : body = WorkerRuntimeTables.body
    OBVIOUS
  <1>2. Migrations[5] = WorkerRuntimeTables /\ Len(body) = 2 /\ ~WorkerRuntimeTables.atomic
    BY <1>1, FilesAre, WorkerRuntimeTablesAre
  <1>3. Run(db, body, 0) = db /\ Sound(db)
    BY RunBegins DEF Rest
  <1>4. /\ Gains(Run(db, body, 0), Run(db, body, 1)) /\ Sound(Run(db, body, 1))
        /\ OnlyTable(Run(db, body, 0), Run(db, body, 1), "worker_leases")
        /\ Run(db, body, 1).table["worker_leases"].exists
    <2>1. body[1] = Statement("create", "worker_leases") /\ "worker_leases" \in Tables
      BY <1>1, WorkerRuntimeTablesAre DEF Tables
    <2> QED
      BY 1 = 0 + 1, 0 \in Nat, <1>3, <2>1, StepCreates
  <1>5. /\ Gains(Run(db, body, 1), Run(db, body, 2)) /\ Sound(Run(db, body, 2))
        /\ OnlyTable(Run(db, body, 1), Run(db, body, 2), "worker_runs")
        /\ Run(db, body, 2).table["worker_runs"].exists
    <2>1. body[2] = Statement("create", "worker_runs") /\ "worker_runs" \in Tables
      BY <1>1, WorkerRuntimeTablesAre DEF Tables
    <2> QED
      BY 2 = 1 + 1, 1 \in Nat, <1>3, <1>4, <2>1, StepCreates
  <1>6. \A j \in 0..2 : Gains(db, Run(db, body, j))
    <2>1. Gains(db, Run(db, body, 0))
      BY <1>3, NothingIsAGain
    <2>2. Gains(db, Run(db, body, 1))
      BY <1>4, <2>1, GainsAddUp
    <2>3. Gains(db, Run(db, body, 2))
      BY <1>5, <2>2, GainsAddUp
    <2>4. ASSUME NEW j \in 0..2 PROVE j = 0 \/ j = 1 \/ j = 2
      OBVIOUS
    <2> QED
      BY <2>1, <2>2, <2>3, <2>4
  <1>7. Rest(Run(db, body, n))
    BY <1>1, <1>2, <1>6, GainsKeepRest
  <1>8. Made(Run(db, body, 2), 5)
    <2>1. GuardsMemory(Run(db, body, 0))
      BY <1>3 DEF Made, GuardsMemory
    <2>2. GuardsMemory(Run(db, body, 1))
      BY <1>4, <2>1, MemoryStaysGuarded DEF MemoryTables, Tables
    <2>3. GuardsMemory(Run(db, body, 2))
      BY <1>5, <2>2, MemoryStaysGuarded DEF MemoryTables, Tables
    <2>4. \A t \in MemoryTables : Guarded(Run(db, body, 2), t) /\ Run(db, body, 2).table[t].exists
      BY <2>3 DEF GuardsMemory, Guarded, Closed
    <2> QED
      BY <1>3, <1>4, <1>5, <2>4 DEF Made, Gains, Tables
  <1>9. ApplyFile(db, Migrations[5], n) = Run(db, body, n)
    BY <1>1, <1>2, PlainFile
  <1> QED
    BY <1>1, <1>2, <1>7, <1>8, <1>9 DEF FileKept

LEMMA File3IsKept ==
  ASSUME NEW db, Rest(db), Made(db, 2), NEW n \in 0..Len(Migrations[3].body)
  PROVE  FileKept(db, 3, n)
  <1>1. PICK body : body = RlsPolicies.body
    OBVIOUS
  <1>2. Migrations[3] = RlsPolicies /\ Len(body) = 16 /\ ~RlsPolicies.atomic
    BY <1>1, FilesAre, RlsPoliciesAre
  <1>3. Run(db, body, 0) = db /\ Sound(db)
    BY RunBegins DEF Rest
  <1>4. /\ db.table["memory_records"].exists /\ db.table["memory_audit_logs"].exists
        /\ db.table["memory_feedback"].exists /\ db.table["memory_settings"].exists
    BY DEF Made, MemoryTables
  <1>5. /\ \A j \in 0..4 : Gains(Run(db, body, 0), Run(db, body, 0 + j))
        /\ OnlyTable(Run(db, body, 0), Run(db, body, 4), "memory_records")
        /\ Guarded(Run(db, body, 4), "memory_records") /\ Gains(db, Run(db, body, 4))
    <2>1. \A j \in 1..4 : body[0 + j] = Isolate("memory_records", PolicyOf("memory_records"))[j]
      BY <1>1, RlsPoliciesAre DEF PolicyOf
    <2>2. Sound(Run(db, body, 0)) /\ Run(db, body, 0).table["memory_records"].exists
      BY <1>3, <1>4 DEF Gains, Tables
    <2>3. 0 \in Nat /\ "memory_records" \in Tables /\ 0 + 4 = 4
      BY DEF Tables
    <2>4. /\ \A j \in 0..4 : Gains(Run(db, body, 0), Run(db, body, 0 + j))
          /\ OnlyTable(Run(db, body, 0), Run(db, body, 0 + 4), "memory_records")
          /\ Guarded(Run(db, body, 0 + 4), "memory_records")
      BY <2>1, <2>2, <2>3, IsolateIsolates
    <2>5. Gains(Run(db, body, 0), Run(db, body, 0 + 4))
      BY <2>4
    <2>6. Gains(db, Run(db, body, 0))
      BY <1>3, NothingIsAGain
    <2>7. Gains(db, Run(db, body, 0 + 4))
      BY <2>5, <2>6, GainsAddUp
    <2> QED
      BY <2>3, <2>4, <2>7
  <1>6. /\ \A j \in 0..4 : Gains(Run(db, body, 4), Run(db, body, 4 + j))
        /\ OnlyTable(Run(db, body, 4), Run(db, body, 8), "memory_audit_logs")
        /\ Guarded(Run(db, body, 8), "memory_audit_logs") /\ Gains(db, Run(db, body, 8))
    <2>1. \A j \in 1..4 : body[4 + j] = Isolate("memory_audit_logs", PolicyOf("memory_audit_logs"))[j]
      BY <1>1, RlsPoliciesAre DEF PolicyOf
    <2>2. Sound(Run(db, body, 4)) /\ Run(db, body, 4).table["memory_audit_logs"].exists
      BY <1>3, <1>4, <1>5 DEF Gains, Tables
    <2>3. 4 \in Nat /\ "memory_audit_logs" \in Tables /\ 4 + 4 = 8
      BY DEF Tables
    <2>4. /\ \A j \in 0..4 : Gains(Run(db, body, 4), Run(db, body, 4 + j))
          /\ OnlyTable(Run(db, body, 4), Run(db, body, 4 + 4), "memory_audit_logs")
          /\ Guarded(Run(db, body, 4 + 4), "memory_audit_logs")
      BY <2>1, <2>2, <2>3, IsolateIsolates
    <2>5. Gains(Run(db, body, 4), Run(db, body, 4 + 4))
      BY <2>4
    <2>6. Gains(db, Run(db, body, 4))
      BY <1>3, <1>5
    <2>7. Gains(db, Run(db, body, 4 + 4))
      BY <2>5, <2>6, GainsAddUp
    <2> QED
      BY <2>3, <2>4, <2>7
  <1>7. /\ \A j \in 0..4 : Gains(Run(db, body, 8), Run(db, body, 8 + j))
        /\ OnlyTable(Run(db, body, 8), Run(db, body, 12), "memory_feedback")
        /\ Guarded(Run(db, body, 12), "memory_feedback") /\ Gains(db, Run(db, body, 12))
    <2>1. \A j \in 1..4 : body[8 + j] = Isolate("memory_feedback", PolicyOf("memory_feedback"))[j]
      BY <1>1, RlsPoliciesAre DEF PolicyOf
    <2>2. Sound(Run(db, body, 8)) /\ Run(db, body, 8).table["memory_feedback"].exists
      BY <1>3, <1>4, <1>6 DEF Gains, Tables
    <2>3. 8 \in Nat /\ "memory_feedback" \in Tables /\ 8 + 4 = 12
      BY DEF Tables
    <2>4. /\ \A j \in 0..4 : Gains(Run(db, body, 8), Run(db, body, 8 + j))
          /\ OnlyTable(Run(db, body, 8), Run(db, body, 8 + 4), "memory_feedback")
          /\ Guarded(Run(db, body, 8 + 4), "memory_feedback")
      BY <2>1, <2>2, <2>3, IsolateIsolates
    <2>5. Gains(Run(db, body, 8), Run(db, body, 8 + 4))
      BY <2>4
    <2>6. Gains(db, Run(db, body, 8))
      BY <1>3, <1>6
    <2>7. Gains(db, Run(db, body, 8 + 4))
      BY <2>5, <2>6, GainsAddUp
    <2> QED
      BY <2>3, <2>4, <2>7
  <1>8. /\ \A j \in 0..4 : Gains(Run(db, body, 12), Run(db, body, 12 + j))
        /\ OnlyTable(Run(db, body, 12), Run(db, body, 16), "memory_settings")
        /\ Guarded(Run(db, body, 16), "memory_settings") /\ Gains(db, Run(db, body, 16))
    <2>1. \A j \in 1..4 : body[12 + j] = Isolate("memory_settings", PolicyOf("memory_settings"))[j]
      BY <1>1, RlsPoliciesAre DEF PolicyOf
    <2>2. Sound(Run(db, body, 12)) /\ Run(db, body, 12).table["memory_settings"].exists
      BY <1>3, <1>4, <1>7 DEF Gains, Tables
    <2>3. 12 \in Nat /\ "memory_settings" \in Tables /\ 12 + 4 = 16
      BY DEF Tables
    <2>4. /\ \A j \in 0..4 : Gains(Run(db, body, 12), Run(db, body, 12 + j))
          /\ OnlyTable(Run(db, body, 12), Run(db, body, 12 + 4), "memory_settings")
          /\ Guarded(Run(db, body, 12 + 4), "memory_settings")
      BY <2>1, <2>2, <2>3, IsolateIsolates
    <2>5. Gains(Run(db, body, 12), Run(db, body, 12 + 4))
      BY <2>4
    <2>6. Gains(db, Run(db, body, 12))
      BY <1>3, <1>7
    <2>7. Gains(db, Run(db, body, 12 + 4))
      BY <2>5, <2>6, GainsAddUp
    <2> QED
      BY <2>3, <2>4, <2>7
  <1>9. Gains(db, Run(db, body, n))
    <2>1. PICK j \in 0..4 : n = 0 + j \/ n = 4 + j \/ n = 8 + j \/ n = 12 + j
      BY <1>1, <1>2
    <2>2. Gains(db, Run(db, body, 0))
      BY <1>3, NothingIsAGain
    <2>3. CASE n = 0 + j
      BY <1>5, <2>2, <2>3, GainsAddUp
    <2>4. CASE n = 4 + j
      BY <1>5, <1>6, <2>4, GainsAddUp
    <2>5. CASE n = 8 + j
      BY <1>6, <1>7, <2>5, GainsAddUp
    <2>6. CASE n = 12 + j
      BY <1>7, <1>8, <2>6, GainsAddUp
    <2> QED
      BY <2>1, <2>3, <2>4, <2>5, <2>6
  <1>10. Rest(Run(db, body, n))
    BY <1>9, GainsKeepRest
  <1>11. Made(Run(db, body, 16), 3)
    <2>1. Guarded(Run(db, body, 16), "memory_settings")
      BY <1>8
    <2>2. Guarded(Run(db, body, 12), "memory_feedback") /\ Guarded(Run(db, body, 16), "memory_feedback")
      BY <1>7, <1>8, OthersStayGuarded DEF Tables
    <2>3. Guarded(Run(db, body, 8), "memory_audit_logs") /\ Guarded(Run(db, body, 12), "memory_audit_logs")
      BY <1>6, <1>7, OthersStayGuarded DEF Tables
    <2>4. Guarded(Run(db, body, 16), "memory_audit_logs")
      BY <1>8, <2>3, OthersStayGuarded DEF Tables
    <2>5. Guarded(Run(db, body, 4), "memory_records") /\ Guarded(Run(db, body, 8), "memory_records")
      BY <1>5, <1>6, OthersStayGuarded DEF Tables
    <2>6. Guarded(Run(db, body, 12), "memory_records") /\ Guarded(Run(db, body, 16), "memory_records")
      BY <1>7, <1>8, <2>5, OthersStayGuarded DEF Tables
    <2>7. \A t \in MemoryTables : Guarded(Run(db, body, 16), t) /\ Run(db, body, 16).table[t].exists
      BY <2>1, <2>2, <2>4, <2>6 DEF MemoryTables, Guarded, Closed
    <2> QED
      BY <2>7 DEF Made
  <1>12. ApplyFile(db, Migrations[3], n) = Run(db, body, n)
    BY <1>1, <1>2, PlainFile
  <1> QED
    BY <1>1, <1>2, <1>10, <1>11, <1>12 DEF FileKept

LEMMA File6IsKept ==
  ASSUME NEW db, Rest(db), Made(db, 5), NEW n \in 0..Len(Migrations[6].body)
  PROVE  FileKept(db, 6, n)
  <1>1. PICK body : body = ScopeIdsToText.body
    OBVIOUS
  <1>2. Migrations[6] = ScopeIdsToText /\ Len(body) = 18 /\ ScopeIdsToText.atomic
    BY <1>1, FilesAre, ScopeIdsToTextAre
  <1>3. Run(db, body, 0) = db /\ Sound(db) /\ Gains(db, Run(db, body, 0))
    BY RunBegins, NothingIsAGain DEF Rest
  <1>4. /\ \A t \in MemoryTables : db.table[t].exists
        /\ \A t \in RunTables : db.table[t].exists
    BY DEF Made, RunTables
  <1>5. /\ Gains(db, Run(db, body, 1)) /\ Sound(Run(db, body, 1))
        /\ Run(db, body, 1).table["memory_records"].policy = "none"
    <2>1. body[1] = Statement("drop", "memory_records") /\ "memory_records" \in Tables
      BY <1>1, ScopeIdsToTextAre DEF Tables
    <2>2. Sound(Run(db, body, 0)) /\ Run(db, body, 0).table["memory_records"].exists
      BY <1>3, <1>4, <1>3, <2>1 DEF Gains, MemoryTables, RunTables
    <2>3. /\ Gains(Run(db, body, 0), Run(db, body, 1)) /\ Sound(Run(db, body, 1))
          /\ OnlyTable(Run(db, body, 0), Run(db, body, 1), "memory_records")
          /\ Run(db, body, 1).table["memory_records"].policy = "none"
      BY 1 = 0 + 1, 0 \in Nat, <2>1, <2>2, StepDrops
    <2>4. Gains(db, Run(db, body, 1))
      BY <1>3, <2>3, GainsAddUp
    <2> QED
      BY <1>3, <2>3, <2>4 DEF OnlyTable, Tables
  <1>6. /\ Gains(db, Run(db, body, 2)) /\ Sound(Run(db, body, 2))
        /\ Run(db, body, 2).table["memory_records"].policy = "none"
        /\ Run(db, body, 2).table["memory_audit_logs"].policy = "none"
    <2>1. body[2] = Statement("drop", "memory_audit_logs") /\ "memory_audit_logs" \in Tables
      BY <1>1, ScopeIdsToTextAre DEF Tables
    <2>2. Sound(Run(db, body, 1)) /\ Run(db, body, 1).table["memory_audit_logs"].exists
      BY <1>3, <1>4, <1>5, <2>1 DEF Gains, MemoryTables, RunTables
    <2>3. /\ Gains(Run(db, body, 1), Run(db, body, 2)) /\ Sound(Run(db, body, 2))
          /\ OnlyTable(Run(db, body, 1), Run(db, body, 2), "memory_audit_logs")
          /\ Run(db, body, 2).table["memory_audit_logs"].policy = "none"
      BY 2 = 1 + 1, 1 \in Nat, <2>1, <2>2, StepDrops
    <2>4. Gains(db, Run(db, body, 2))
      BY <1>5, <2>3, GainsAddUp
    <2> QED
      BY <1>5, <2>3, <2>4 DEF OnlyTable, Tables
  <1>7. /\ Gains(db, Run(db, body, 3)) /\ Sound(Run(db, body, 3))
        /\ Run(db, body, 3).table["memory_records"].policy = "none"
        /\ Run(db, body, 3).table["memory_audit_logs"].policy = "none"
        /\ Run(db, body, 3).table["memory_feedback"].policy = "none"
    <2>1. body[3] = Statement("drop", "memory_feedback") /\ "memory_feedback" \in Tables
      BY <1>1, ScopeIdsToTextAre DEF Tables
    <2>2. Sound(Run(db, body, 2)) /\ Run(db, body, 2).table["memory_feedback"].exists
      BY <1>3, <1>4, <1>6, <2>1 DEF Gains, MemoryTables, RunTables
    <2>3. /\ Gains(Run(db, body, 2), Run(db, body, 3)) /\ Sound(Run(db, body, 3))
          /\ OnlyTable(Run(db, body, 2), Run(db, body, 3), "memory_feedback")
          /\ Run(db, body, 3).table["memory_feedback"].policy = "none"
      BY 3 = 2 + 1, 2 \in Nat, <2>1, <2>2, StepDrops
    <2>4. Gains(db, Run(db, body, 3))
      BY <1>6, <2>3, GainsAddUp
    <2> QED
      BY <1>6, <2>3, <2>4 DEF OnlyTable, Tables
  <1>8. /\ Gains(db, Run(db, body, 4)) /\ Sound(Run(db, body, 4))
        /\ Run(db, body, 4).table["memory_records"].policy = "none"
        /\ Run(db, body, 4).table["memory_audit_logs"].policy = "none"
        /\ Run(db, body, 4).table["memory_feedback"].policy = "none"
        /\ Run(db, body, 4).table["memory_settings"].policy = "none"
    <2>1. body[4] = Statement("drop", "memory_settings") /\ "memory_settings" \in Tables
      BY <1>1, ScopeIdsToTextAre DEF Tables
    <2>2. Sound(Run(db, body, 3)) /\ Run(db, body, 3).table["memory_settings"].exists
      BY <1>3, <1>4, <1>7, <2>1 DEF Gains, MemoryTables, RunTables
    <2>3. /\ Gains(Run(db, body, 3), Run(db, body, 4)) /\ Sound(Run(db, body, 4))
          /\ OnlyTable(Run(db, body, 3), Run(db, body, 4), "memory_settings")
          /\ Run(db, body, 4).table["memory_settings"].policy = "none"
      BY 4 = 3 + 1, 3 \in Nat, <2>1, <2>2, StepDrops
    <2>4. Gains(db, Run(db, body, 4))
      BY <1>7, <2>3, GainsAddUp
    <2> QED
      BY <1>7, <2>3, <2>4 DEF OnlyTable, Tables
  <1>9. /\ Gains(db, Run(db, body, 5)) /\ Sound(Run(db, body, 5))
        /\ Run(db, body, 5).table["memory_records"].policy = "none"
        /\ Run(db, body, 5).table["memory_audit_logs"].policy = "none"
        /\ Run(db, body, 5).table["memory_feedback"].policy = "none"
        /\ Run(db, body, 5).table["memory_settings"].policy = "none"
    <2>1. body[5] = Statement("drop", "loop_runs") /\ "loop_runs" \in Tables
      BY <1>1, ScopeIdsToTextAre DEF Tables
    <2>2. Sound(Run(db, body, 4)) /\ Run(db, body, 4).table["loop_runs"].exists
      BY <1>3, <1>4, <1>8, <2>1 DEF Gains, MemoryTables, RunTables
    <2>3. /\ Gains(Run(db, body, 4), Run(db, body, 5)) /\ Sound(Run(db, body, 5))
          /\ OnlyTable(Run(db, body, 4), Run(db, body, 5), "loop_runs")
          /\ Run(db, body, 5).table["loop_runs"].policy = "none"
      BY 5 = 4 + 1, 4 \in Nat, <2>1, <2>2, StepDrops
    <2>4. Gains(db, Run(db, body, 5))
      BY <1>8, <2>3, GainsAddUp
    <2> QED
      BY <1>8, <2>3, <2>4 DEF OnlyTable, Tables
  <1>10. /\ Gains(db, Run(db, body, 6)) /\ Sound(Run(db, body, 6))
        /\ Run(db, body, 6).table["memory_records"].policy = "none"
        /\ Run(db, body, 6).table["memory_audit_logs"].policy = "none"
        /\ Run(db, body, 6).table["memory_feedback"].policy = "none"
        /\ Run(db, body, 6).table["memory_settings"].policy = "none"
        /\ Run(db, body, 6).table["loop_events"].policy = "none"
    <2>1. body[6] = Statement("drop", "loop_events") /\ "loop_events" \in Tables
      BY <1>1, ScopeIdsToTextAre DEF Tables
    <2>2. Sound(Run(db, body, 5)) /\ Run(db, body, 5).table["loop_events"].exists
      BY <1>3, <1>4, <1>9, <2>1 DEF Gains, MemoryTables, RunTables
    <2>3. /\ Gains(Run(db, body, 5), Run(db, body, 6)) /\ Sound(Run(db, body, 6))
          /\ OnlyTable(Run(db, body, 5), Run(db, body, 6), "loop_events")
          /\ Run(db, body, 6).table["loop_events"].policy = "none"
      BY 6 = 5 + 1, 5 \in Nat, <2>1, <2>2, StepDrops
    <2>4. Gains(db, Run(db, body, 6))
      BY <1>9, <2>3, GainsAddUp
    <2> QED
      BY <1>9, <2>3, <2>4 DEF OnlyTable, Tables
  <1>11. /\ Gains(db, Run(db, body, 7)) /\ Sound(Run(db, body, 7))
        /\ Run(db, body, 7).table["memory_records"].policy = "none"
        /\ Run(db, body, 7).table["memory_audit_logs"].policy = "none"
        /\ Run(db, body, 7).table["memory_feedback"].policy = "none"
        /\ Run(db, body, 7).table["memory_settings"].policy = "none"
        /\ Run(db, body, 7).table["loop_events"].policy = "none"
    <2>1. body[7] = Statement("drop", "worker_runs") /\ "worker_runs" \in Tables
      BY <1>1, ScopeIdsToTextAre DEF Tables
    <2>2. Sound(Run(db, body, 6)) /\ Run(db, body, 6).table["worker_runs"].exists
      BY <1>3, <1>4, <1>10, <2>1 DEF Gains, MemoryTables, RunTables
    <2>3. /\ Gains(Run(db, body, 6), Run(db, body, 7)) /\ Sound(Run(db, body, 7))
          /\ OnlyTable(Run(db, body, 6), Run(db, body, 7), "worker_runs")
          /\ Run(db, body, 7).table["worker_runs"].policy = "none"
      BY 7 = 6 + 1, 6 \in Nat, <2>1, <2>2, StepDrops
    <2>4. Gains(db, Run(db, body, 7))
      BY <1>10, <2>3, GainsAddUp
    <2> QED
      BY <1>10, <2>3, <2>4 DEF OnlyTable, Tables
  <1>12. \A k \in 7..14 : Run(db, body, k) = Run(db, body, 7)
    <2>1. PICK d : d = Run(db, body, 7)
      OBVIOUS
    <2>2. Sound(d) /\ \A t \in MemoryTables \cup RunTables : d.table[t].exists
      BY <1>4, <1>11, <2>1 DEF Gains, MemoryTables, RunTables, Tables
    <2>3. \A t \in MemoryTables \cup {"loop_events"} : d.table[t].policy = "none"
      BY <1>11, <2>1 DEF MemoryTables
    <2>4. ToSet(OfMemory) = MemoryTables
      BY DEF ToSet, OfMemory, MemoryTables
    <2>5. \A t \in MemoryTables \cup RunTables : ~Blocked(d, t)
      BY <2>3, <2>4 DEF Blocked
    <2>6. Run(db, body, 8) = d
      <3>1. /\ body[8] = Statement("alter", "memory_records")
            /\ "memory_records" \in Tables /\ "memory_records" \in MemoryTables \cup RunTables
        BY <1>1, ScopeIdsToTextAre DEF Tables, MemoryTables, RunTables
      <3>2. /\ Sound(Run(db, body, 7)) /\ Run(db, body, 7).table["memory_records"].exists
            /\ ~Blocked(Run(db, body, 7), "memory_records")
        BY <2>1, <2>2, <2>5, <3>1
      <3> QED
        BY 8 = 7 + 1, 7 \in Nat, <2>1, <3>1, <3>2, StepAlters
    <2>7. Run(db, body, 9) = d
      <3>1. /\ body[9] = Statement("alter", "memory_audit_logs")
            /\ "memory_audit_logs" \in Tables /\ "memory_audit_logs" \in MemoryTables \cup RunTables
        BY <1>1, ScopeIdsToTextAre DEF Tables, MemoryTables, RunTables
      <3>2. /\ Sound(Run(db, body, 8)) /\ Run(db, body, 8).table["memory_audit_logs"].exists
            /\ ~Blocked(Run(db, body, 8), "memory_audit_logs")
        BY <2>6, <2>2, <2>5, <3>1
      <3> QED
        BY 9 = 8 + 1, 8 \in Nat, <2>6, <3>1, <3>2, StepAlters
    <2>8. Run(db, body, 10) = d
      <3>1. /\ body[10] = Statement("alter", "memory_feedback")
            /\ "memory_feedback" \in Tables /\ "memory_feedback" \in MemoryTables \cup RunTables
        BY <1>1, ScopeIdsToTextAre DEF Tables, MemoryTables, RunTables
      <3>2. /\ Sound(Run(db, body, 9)) /\ Run(db, body, 9).table["memory_feedback"].exists
            /\ ~Blocked(Run(db, body, 9), "memory_feedback")
        BY <2>7, <2>2, <2>5, <3>1
      <3> QED
        BY 10 = 9 + 1, 9 \in Nat, <2>7, <3>1, <3>2, StepAlters
    <2>9. Run(db, body, 11) = d
      <3>1. /\ body[11] = Statement("alter", "memory_settings")
            /\ "memory_settings" \in Tables /\ "memory_settings" \in MemoryTables \cup RunTables
        BY <1>1, ScopeIdsToTextAre DEF Tables, MemoryTables, RunTables
      <3>2. /\ Sound(Run(db, body, 10)) /\ Run(db, body, 10).table["memory_settings"].exists
            /\ ~Blocked(Run(db, body, 10), "memory_settings")
        BY <2>8, <2>2, <2>5, <3>1
      <3> QED
        BY 11 = 10 + 1, 10 \in Nat, <2>8, <3>1, <3>2, StepAlters
    <2>10. Run(db, body, 12) = d
      <3>1. /\ body[12] = Statement("alter", "loop_runs")
            /\ "loop_runs" \in Tables /\ "loop_runs" \in MemoryTables \cup RunTables
        BY <1>1, ScopeIdsToTextAre DEF Tables, MemoryTables, RunTables
      <3>2. /\ Sound(Run(db, body, 11)) /\ Run(db, body, 11).table["loop_runs"].exists
            /\ ~Blocked(Run(db, body, 11), "loop_runs")
        BY <2>9, <2>2, <2>5, <3>1
      <3> QED
        BY 12 = 11 + 1, 11 \in Nat, <2>9, <3>1, <3>2, StepAlters
    <2>11. Run(db, body, 13) = d
      <3>1. /\ body[13] = Statement("alter", "loop_events")
            /\ "loop_events" \in Tables /\ "loop_events" \in MemoryTables \cup RunTables
        BY <1>1, ScopeIdsToTextAre DEF Tables, MemoryTables, RunTables
      <3>2. /\ Sound(Run(db, body, 12)) /\ Run(db, body, 12).table["loop_events"].exists
            /\ ~Blocked(Run(db, body, 12), "loop_events")
        BY <2>10, <2>2, <2>5, <3>1
      <3> QED
        BY 13 = 12 + 1, 12 \in Nat, <2>10, <3>1, <3>2, StepAlters
    <2>12. Run(db, body, 14) = d
      <3>1. /\ body[14] = Statement("alter", "worker_runs")
            /\ "worker_runs" \in Tables /\ "worker_runs" \in MemoryTables \cup RunTables
        BY <1>1, ScopeIdsToTextAre DEF Tables, MemoryTables, RunTables
      <3>2. /\ Sound(Run(db, body, 13)) /\ Run(db, body, 13).table["worker_runs"].exists
            /\ ~Blocked(Run(db, body, 13), "worker_runs")
        BY <2>11, <2>2, <2>5, <3>1
      <3> QED
        BY 14 = 13 + 1, 13 \in Nat, <2>11, <3>1, <3>2, StepAlters
    <2>13. ASSUME NEW k \in 7..14 PROVE Run(db, body, k) = d
      <3>1. k = 7 \/ k = 8 \/ k = 9 \/ k = 10 \/ k = 11 \/ k = 12 \/ k = 13 \/ k = 14
        OBVIOUS
      <3> QED
        BY <2>1, <2>6, <2>7, <2>8, <2>9, <2>10, <2>11, <2>12, <3>1
    <2> QED
      BY <2>1, <2>13
  <1>13. /\ Gains(db, Run(db, body, 15)) /\ Sound(Run(db, body, 15))
        /\ Run(db, body, 15).table["memory_records"].policy = "tenant"
        /\ Run(db, body, 15).table["memory_audit_logs"].policy = "none"
        /\ Run(db, body, 15).table["memory_feedback"].policy = "none"
        /\ Run(db, body, 15).table["memory_settings"].policy = "none"
    <2>1. body[15] = Statement("tenant", "memory_records") /\ "memory_records" \in Tables
      BY <1>1, ScopeIdsToTextAre DEF Tables
    <2>2. Sound(Run(db, body, 14)) /\ Run(db, body, 14).table["memory_records"].exists
      BY <1>3, <1>4, <1>11, <1>12, <2>1 DEF Gains, MemoryTables, RunTables
    <2>3. /\ Gains(Run(db, body, 14), Run(db, body, 15)) /\ Sound(Run(db, body, 15))
          /\ OnlyTable(Run(db, body, 14), Run(db, body, 15), "memory_records")
          /\ Run(db, body, 15).table["memory_records"].policy = "tenant"
      BY 15 = 14 + 1, 14 \in Nat, <1>11, <1>12, <2>1, <2>2, StepProtects
    <2>4. Gains(db, Run(db, body, 15))
      BY <1>11, <1>12, <2>3, GainsAddUp
    <2> QED
      BY <1>11, <1>12, <2>3, <2>4 DEF OnlyTable, Tables
  <1>14. /\ Gains(db, Run(db, body, 16)) /\ Sound(Run(db, body, 16))
        /\ Run(db, body, 16).table["memory_records"].policy = "tenant"
        /\ Run(db, body, 16).table["memory_audit_logs"].policy = "tenant"
        /\ Run(db, body, 16).table["memory_feedback"].policy = "none"
        /\ Run(db, body, 16).table["memory_settings"].policy = "none"
    <2>1. body[16] = Statement("tenant", "memory_audit_logs") /\ "memory_audit_logs" \in Tables
      BY <1>1, ScopeIdsToTextAre DEF Tables
    <2>2. Sound(Run(db, body, 15)) /\ Run(db, body, 15).table["memory_audit_logs"].exists
      BY <1>3, <1>4, <1>13, <2>1 DEF Gains, MemoryTables, RunTables
    <2>3. /\ Gains(Run(db, body, 15), Run(db, body, 16)) /\ Sound(Run(db, body, 16))
          /\ OnlyTable(Run(db, body, 15), Run(db, body, 16), "memory_audit_logs")
          /\ Run(db, body, 16).table["memory_audit_logs"].policy = "tenant"
      BY 16 = 15 + 1, 15 \in Nat, <1>13, <2>1, <2>2, StepProtects
    <2>4. Gains(db, Run(db, body, 16))
      BY <1>13, <2>3, GainsAddUp
    <2> QED
      BY <1>13, <2>3, <2>4 DEF OnlyTable, Tables
  <1>15. /\ Gains(db, Run(db, body, 17)) /\ Sound(Run(db, body, 17))
        /\ Run(db, body, 17).table["memory_records"].policy = "tenant"
        /\ Run(db, body, 17).table["memory_audit_logs"].policy = "tenant"
        /\ Run(db, body, 17).table["memory_feedback"].policy = "tenant"
        /\ Run(db, body, 17).table["memory_settings"].policy = "none"
    <2>1. body[17] = Statement("tenant", "memory_feedback") /\ "memory_feedback" \in Tables
      BY <1>1, ScopeIdsToTextAre DEF Tables
    <2>2. Sound(Run(db, body, 16)) /\ Run(db, body, 16).table["memory_feedback"].exists
      BY <1>3, <1>4, <1>14, <2>1 DEF Gains, MemoryTables, RunTables
    <2>3. /\ Gains(Run(db, body, 16), Run(db, body, 17)) /\ Sound(Run(db, body, 17))
          /\ OnlyTable(Run(db, body, 16), Run(db, body, 17), "memory_feedback")
          /\ Run(db, body, 17).table["memory_feedback"].policy = "tenant"
      BY 17 = 16 + 1, 16 \in Nat, <1>14, <2>1, <2>2, StepProtects
    <2>4. Gains(db, Run(db, body, 17))
      BY <1>14, <2>3, GainsAddUp
    <2> QED
      BY <1>14, <2>3, <2>4 DEF OnlyTable, Tables
  <1>16. /\ Gains(db, Run(db, body, 18)) /\ Sound(Run(db, body, 18))
        /\ Run(db, body, 18).table["memory_records"].policy = "tenant"
        /\ Run(db, body, 18).table["memory_audit_logs"].policy = "tenant"
        /\ Run(db, body, 18).table["memory_feedback"].policy = "tenant"
        /\ Run(db, body, 18).table["memory_settings"].policy = "tenant"
    <2>1. body[18] = Statement("tenant", "memory_settings") /\ "memory_settings" \in Tables
      BY <1>1, ScopeIdsToTextAre DEF Tables
    <2>2. Sound(Run(db, body, 17)) /\ Run(db, body, 17).table["memory_settings"].exists
      BY <1>3, <1>4, <1>15, <2>1 DEF Gains, MemoryTables, RunTables
    <2>3. /\ Gains(Run(db, body, 17), Run(db, body, 18)) /\ Sound(Run(db, body, 18))
          /\ OnlyTable(Run(db, body, 17), Run(db, body, 18), "memory_settings")
          /\ Run(db, body, 18).table["memory_settings"].policy = "tenant"
      BY 18 = 17 + 1, 17 \in Nat, <1>15, <2>1, <2>2, StepProtects
    <2>4. Gains(db, Run(db, body, 18))
      BY <1>15, <2>3, GainsAddUp
    <2> QED
      BY <1>15, <2>3, <2>4 DEF OnlyTable, Tables
  <1>17. Sound(Run(db, body, n))
    <2>1. n \in 0..7 \/ n \in 7..14 \/ n \in 15..18
      BY <1>1, <1>2
    <2>2. CASE n \in 0..7
      BY <1>3, <1>5, <1>6, <1>7, <1>8, <1>9, <1>10, <1>11, <2>2
    <2>3. CASE n \in 7..14
      BY <1>11, <1>12, <2>3
    <2>4. CASE n \in 15..18
      BY <1>13, <1>14, <1>15, <1>16, <2>4
    <2> QED
      BY <2>1, <2>2, <2>3, <2>4
  <1>18. Made(Run(db, body, 18), 6)
    <2>1. \A t \in MemoryTables : Closed(Run(db, body, 18), t)
      BY <1>16 DEF Made, Guarded, Closed, Gains, MemoryTables, Tables
    <2>2. \A t \in MemoryTables : Guarded(Run(db, body, 18), t)
      BY <1>16, <2>1 DEF Guarded, PolicyOf, MemoryTables
    <2>3. \A t \in RunTables : Run(db, body, 18).table[t].exists
      BY <1>4, <1>16 DEF Gains, RunTables, Tables
    <2> QED
      BY <2>1, <2>2, <2>3 DEF Made, RunTables, Closed
  <1>19. CASE n = 18
    <2>1. ApplyFile(db, Migrations[6], 18) = Run(db, body, 18)
      <3>1. ScopeIdsToText.atomic /\ 18 = Len(ScopeIdsToText.body) /\ 18 \in Nat
        BY <1>1, <1>2
      <3>2. Sound(Run(db, ScopeIdsToText.body, 18))
        BY <1>1, <1>16
      <3>3. ApplyFile(db, ScopeIdsToText, 18) = Run(db, ScopeIdsToText.body, 18)
        BY <3>1, <3>2, TransactionInFull
      <3> QED
        BY <1>1, <1>2, <3>3
    <2>2. Rest(Run(db, body, 18))
      BY <1>16, GainsKeepRest
    <2> QED
      BY <1>1, <1>2, <1>18, <1>19, <2>1, <2>2 DEF FileKept
  <1>20. CASE n < 18
    <2>1. ApplyFile(db, Migrations[6], n) = db
      BY <1>1, <1>2, <1>3, <1>17, <1>20, TransactionLeavesNothing
    <2> QED
      BY <1>1, <1>2, <1>20, <2>1 DEF FileKept
  <1> QED
    BY <1>1, <1>2, <1>19, <1>20

LEMMA File7IsKept ==
  ASSUME NEW db, Rest(db), Made(db, 6), NEW n \in 0..Len(Migrations[7].body)
  PROVE  FileKept(db, 7, n)
  <1>1. PICK body : body = OperationalEvidenceRls.body
    OBVIOUS
  <1>2. Migrations[7] = OperationalEvidenceRls /\ Len(body) = 13 /\ OperationalEvidenceRls.atomic
    BY <1>1, FilesAre, OperationalEvidenceRlsIs
  <1>3. Run(db, body, 0) = db /\ Sound(db) /\ GuardsMemory(Run(db, body, 0))
    BY RunBegins DEF Rest, Made, GuardsMemory
  <1>4. /\ db.table["loop_runs"].exists /\ db.table["loop_events"].exists
        /\ db.table["worker_runs"].exists
    BY DEF Made
  <1>5. /\ \A j \in 0..4 : Gains(Run(db, body, 0), Run(db, body, 0 + j))
        /\ OnlyTable(Run(db, body, 0), Run(db, body, 4), "loop_runs")
        /\ Guarded(Run(db, body, 4), "loop_runs") /\ Gains(db, Run(db, body, 4))
        /\ GuardsMemory(Run(db, body, 4))
    <2>1. \A j \in 1..4 : body[0 + j] = Isolate("loop_runs", PolicyOf("loop_runs"))[j]
      BY <1>1, OperationalEvidenceRlsIs DEF PolicyOf
    <2>2. Sound(Run(db, body, 0)) /\ Run(db, body, 0).table["loop_runs"].exists
      BY <1>3, <1>4 DEF Gains, Tables
    <2>3. 0 \in Nat /\ "loop_runs" \in Tables \ MemoryTables /\ 0 + 4 = 4
      BY DEF Tables, MemoryTables
    <2>4. /\ \A j \in 0..4 : Gains(Run(db, body, 0), Run(db, body, 0 + j))
          /\ OnlyTable(Run(db, body, 0), Run(db, body, 0 + 4), "loop_runs")
          /\ Guarded(Run(db, body, 0 + 4), "loop_runs")
      BY <2>1, <2>2, <2>3, IsolateIsolates
    <2>5. Gains(Run(db, body, 0), Run(db, body, 0 + 4))
      BY <2>4
    <2>6. Gains(db, Run(db, body, 0)) /\ GuardsMemory(Run(db, body, 0))
      BY <1>3, NothingIsAGain
    <2>7. Gains(db, Run(db, body, 0 + 4))
      BY <2>5, <2>6, GainsAddUp
    <2>8. GuardsMemory(Run(db, body, 0 + 4))
      BY <2>3, <2>4, <2>6, MemoryStaysGuarded
    <2> QED
      BY <2>3, <2>4, <2>7, <2>8
  <1>6. /\ \A j \in 0..4 : Gains(Run(db, body, 4), Run(db, body, 4 + j))
        /\ OnlyTable(Run(db, body, 4), Run(db, body, 8), "loop_events")
        /\ Guarded(Run(db, body, 8), "loop_events") /\ Gains(db, Run(db, body, 8))
        /\ GuardsMemory(Run(db, body, 8))
    <2>1. \A j \in 1..4 : body[4 + j] = Isolate("loop_events", PolicyOf("loop_events"))[j]
      BY <1>1, OperationalEvidenceRlsIs DEF PolicyOf
    <2>2. Sound(Run(db, body, 4)) /\ Run(db, body, 4).table["loop_events"].exists
      BY <1>3, <1>4, <1>5 DEF Gains, Tables
    <2>3. 4 \in Nat /\ "loop_events" \in Tables \ MemoryTables /\ 4 + 4 = 8
      BY DEF Tables, MemoryTables
    <2>4. /\ \A j \in 0..4 : Gains(Run(db, body, 4), Run(db, body, 4 + j))
          /\ OnlyTable(Run(db, body, 4), Run(db, body, 4 + 4), "loop_events")
          /\ Guarded(Run(db, body, 4 + 4), "loop_events")
      BY <2>1, <2>2, <2>3, IsolateIsolates
    <2>5. Gains(Run(db, body, 4), Run(db, body, 4 + 4))
      BY <2>4
    <2>6. Gains(db, Run(db, body, 4)) /\ GuardsMemory(Run(db, body, 4))
      BY <1>3, <1>5
    <2>7. Gains(db, Run(db, body, 4 + 4))
      BY <2>5, <2>6, GainsAddUp
    <2>8. GuardsMemory(Run(db, body, 4 + 4))
      BY <2>3, <2>4, <2>6, MemoryStaysGuarded
    <2> QED
      BY <2>3, <2>4, <2>7, <2>8
  <1>7. /\ \A j \in 0..4 : Gains(Run(db, body, 8), Run(db, body, 8 + j))
        /\ OnlyTable(Run(db, body, 8), Run(db, body, 12), "worker_runs")
        /\ Guarded(Run(db, body, 12), "worker_runs") /\ Gains(db, Run(db, body, 12))
        /\ GuardsMemory(Run(db, body, 12))
    <2>1. \A j \in 1..4 : body[8 + j] = Isolate("worker_runs", PolicyOf("worker_runs"))[j]
      BY <1>1, OperationalEvidenceRlsIs DEF PolicyOf
    <2>2. Sound(Run(db, body, 8)) /\ Run(db, body, 8).table["worker_runs"].exists
      BY <1>3, <1>4, <1>6 DEF Gains, Tables
    <2>3. 8 \in Nat /\ "worker_runs" \in Tables \ MemoryTables /\ 8 + 4 = 12
      BY DEF Tables, MemoryTables
    <2>4. /\ \A j \in 0..4 : Gains(Run(db, body, 8), Run(db, body, 8 + j))
          /\ OnlyTable(Run(db, body, 8), Run(db, body, 8 + 4), "worker_runs")
          /\ Guarded(Run(db, body, 8 + 4), "worker_runs")
      BY <2>1, <2>2, <2>3, IsolateIsolates
    <2>5. Gains(Run(db, body, 8), Run(db, body, 8 + 4))
      BY <2>4
    <2>6. Gains(db, Run(db, body, 8)) /\ GuardsMemory(Run(db, body, 8))
      BY <1>3, <1>6
    <2>7. Gains(db, Run(db, body, 8 + 4))
      BY <2>5, <2>6, GainsAddUp
    <2>8. GuardsMemory(Run(db, body, 8 + 4))
      BY <2>3, <2>4, <2>6, MemoryStaysGuarded
    <2> QED
      BY <2>3, <2>4, <2>7, <2>8
  <1>8. /\ Sound(Run(db, body, 13)) /\ Run(db, body, 13).table = Run(db, body, 12).table
        /\ Gains(Run(db, body, 12), Run(db, body, 13))
    <2>1. Sound(Run(db, body, 12)) /\ body[13] = Statement("mark", "009")
      BY <1>1, <1>7, OperationalEvidenceRlsIs DEF Gains
    <2> QED
      BY 13 = 12 + 1, 12 \in Nat, <2>1, StepMarks DEF Versions
  <1>9. Sound(Run(db, body, n))
    <2>1. (\E j \in 0..4 : n = 0 + j \/ n = 4 + j \/ n = 8 + j) \/ n = 13
      BY <1>1, <1>2
    <2> QED
      BY <1>5, <1>6, <1>7, <1>8, <2>1 DEF Gains
  <1>10. Made(Run(db, body, 13), 7)
    <2>1. Guarded(Run(db, body, 12), "worker_runs")
      BY <1>7
    <2>2. Guarded(Run(db, body, 8), "loop_events") /\ Guarded(Run(db, body, 12), "loop_events")
      BY <1>6, <1>7, OthersStayGuarded DEF Tables
    <2>3. Guarded(Run(db, body, 4), "loop_runs") /\ Guarded(Run(db, body, 8), "loop_runs")
      BY <1>5, <1>6, OthersStayGuarded DEF Tables
    <2>4. Guarded(Run(db, body, 12), "loop_runs")
      BY <1>7, <2>3, OthersStayGuarded DEF Tables
    <2>5. \A t \in RunTables : Guarded(Run(db, body, 13), t) /\ Run(db, body, 13).table[t].exists
      BY <1>8, <2>1, <2>2, <2>4 DEF RunTables, Guarded, Closed
    <2>6. \A t \in MemoryTables : Guarded(Run(db, body, 13), t) /\ Run(db, body, 13).table[t].exists
      BY <1>7, <1>8 DEF GuardsMemory, Guarded, Closed
    <2> QED
      BY <2>5, <2>6 DEF Made, RunTables
  <1>11. CASE n = 13
    <2>1. ApplyFile(db, Migrations[7], 13) = Run(db, body, 13)
      <3>1. OperationalEvidenceRls.atomic /\ 13 = Len(OperationalEvidenceRls.body) /\ 13 \in Nat
        BY <1>1, <1>2
      <3>2. Sound(Run(db, OperationalEvidenceRls.body, 13))
        BY <1>1, <1>8
      <3>3. ApplyFile(db, OperationalEvidenceRls, 13) = Run(db, OperationalEvidenceRls.body, 13)
        BY <3>1, <3>2, TransactionInFull
      <3> QED
        BY <1>1, <1>2, <3>3
    <2>2. Rest(Run(db, body, 13))
      BY <1>7, <1>8, GainsAddUp, GainsKeepRest
    <2> QED
      BY <1>1, <1>2, <1>10, <1>11, <2>1, <2>2 DEF FileKept
  <1>12. CASE n < 13
    <2>1. ApplyFile(db, Migrations[7], n) = db
      BY <1>1, <1>2, <1>3, <1>9, <1>12, TransactionLeavesNothing
    <2> QED
      BY <1>1, <1>2, <1>12, <2>1 DEF FileKept
  <1> QED
    BY <1>1, <1>2, <1>11, <1>12

LEMMA File8IsKept ==
  ASSUME NEW db, Rest(db), Made(db, 7), NEW n \in 0..Len(Migrations[8].body)
  PROVE  FileKept(db, 8, n)
  <1>1. PICK file : file = TransactionalAuditChain
    OBVIOUS
  <1>2. Migrations[8] = file /\ Len(file.body) = 1 /\ file.atomic /\ file.body[1] = Statement("mark", "010")
    BY <1>1, FilesAre, MarkersAre
  <1>3. Run(db, file.body, 0) = db /\ Sound(db)
    BY RunBegins DEF Rest
  <1>4. PICK d : d = Run(db, file.body, 1)
    OBVIOUS
  <1>5. Sound(d) /\ d.table = db.table /\ Gains(db, d)
    <2>1. Sound(Run(db, file.body, 0)) /\ "010" \in Versions /\ "010" # "012"
      BY <1>3 DEF Versions
    <2> QED
      BY 1 = 0 + 1, 0 \in Nat, <1>2, <1>3, <1>4, <2>1, StepMarks
  <1>6. CASE n = 1
    <2>1. Sound(Run(db, file.body, 1)) /\ 1 \in Nat /\ 1 = Len(file.body)
      BY <1>2, <1>4, <1>5
    <2>2. ApplyFile(db, file, 1) = Run(db, file.body, 1)
      BY <1>2, <2>1, TransactionInFull, ZenonT(60)
    <2>3. Rest(d)
      BY <1>5, GainsKeepRest
    <2>4. Made(d, 8)
      BY <1>5 DEF Made, Guarded, Closed
    <2> QED
      BY <1>2, <1>4, <1>6, <2>2, <2>3, <2>4 DEF FileKept
  <1>7. CASE n = 0
    <2>1. n < Len(file.body) /\ Sound(Run(db, file.body, n))
      BY <1>2, <1>3, <1>7
    <2>2. ApplyFile(db, file, n) = db
      BY <1>2, <1>3, <2>1, TransactionLeavesNothing
    <2> QED
      BY <1>2, <1>7, <2>2 DEF FileKept
  <1> QED
    BY <1>2, <1>6, <1>7

LEMMA File9IsKept ==
  ASSUME NEW db, Rest(db), Made(db, 8), NEW n \in 0..Len(Migrations[9].body)
  PROVE  FileKept(db, 9, n)
  <1>1. PICK file, body : file = AuditChainHeads /\ body = file.body
    OBVIOUS
  <1>2. /\ Migrations[9] = file /\ Len(body) = 6 /\ file.atomic
        /\ body[1] = Statement("create", "audit_chain_heads")
        /\ \A j \in 1..4 : body[1 + j] = Isolate("audit_chain_heads", "tenant")[j]
        /\ body[6] = Statement("mark", "011")
    BY <1>1, FilesAre, AuditChainHeadsAre
  <1>3. Run(db, body, 0) = db /\ Sound(db)
    BY RunBegins DEF Rest
  <1>4. PICK d, e, f : d = Run(db, body, 1) /\ e = Run(db, body, 5) /\ f = Run(db, body, 6)
    OBVIOUS
  <1>5. Sound(d) /\ OnlyTable(db, d, "audit_chain_heads") /\ d.table["audit_chain_heads"].exists
    <2>1. Run(db, body, 0 + 1) = Apply(Run(db, body, 0), body[0 + 1])
      BY RunStep
    <2>2. d = Apply(db, Statement("create", "audit_chain_heads"))
      BY <1>2, <1>3, <1>4, <2>1
    <2> QED
      BY <1>3, <2>2, Creates DEF Tables
  <1>6. /\ \A j \in 0..4 : Sound(Run(db, body, 1 + j))
        /\ OnlyTable(d, e, "audit_chain_heads") /\ Guarded(e, "audit_chain_heads") /\ Sound(e)
    <2>1. \A j \in 1..4 : body[1 + j] = Isolate("audit_chain_heads", PolicyOf("audit_chain_heads"))[j]
      BY <1>2 DEF PolicyOf
    <2>2. Sound(Run(db, body, 1)) /\ Run(db, body, 1).table["audit_chain_heads"].exists
      BY <1>4, <1>5
    <2>3. 1 \in Nat /\ "audit_chain_heads" \in Tables /\ 1 + 4 = 5
      BY DEF Tables
    <2>4. /\ \A j \in 0..4 : Gains(Run(db, body, 1), Run(db, body, 1 + j))
          /\ OnlyTable(Run(db, body, 1), Run(db, body, 1 + 4), "audit_chain_heads")
          /\ Guarded(Run(db, body, 1 + 4), "audit_chain_heads")
      BY <2>1, <2>2, <2>3, IsolateIsolates
    <2>5. \A j \in 0..4 : Sound(Run(db, body, 1 + j))
      BY <2>4 DEF Gains
    <2>6. Sound(Run(db, body, 1 + 4))
      BY <2>5
    <2> QED
      BY <1>4, <2>3, <2>4, <2>5, <2>6
  <1>7. Sound(f) /\ f.table = e.table /\ ("012" \in f.marked => "012" \in e.marked)
    <2>1. Sound(Run(db, body, 5)) /\ "011" \in Versions /\ "011" # "012"
      BY <1>4, <1>6 DEF Versions
    <2>2. /\ Sound(Run(db, body, 6)) /\ Run(db, body, 6).table = Run(db, body, 5).table
          /\ Gains(Run(db, body, 5), Run(db, body, 6))
      BY 6 = 5 + 1, 5 \in Nat, <1>2, <2>1, StepMarks
    <2> QED
      BY <1>4, <2>2 DEF Gains
  <1>8. \A t \in Tables \ {"audit_chain_heads"} : f.table[t] = db.table[t]
    BY <1>5, <1>6, <1>7 DEF OnlyTable
  <1>9. Guarded(f, "audit_chain_heads") /\ ("012" \in f.marked => "012" \in db.marked)
    BY <1>5, <1>6, <1>7 DEF OnlyTable, Guarded, Closed
  <1>10. Rest(f)
    BY <1>7, <1>8, <1>9 DEF Rest, Closed, Guarded, OfTenants
  <1>11. Made(f, 9)
    BY <1>8, <1>9 DEF Made, Guarded, Closed, MemoryTables, RunTables, Tables
  <1>12. CASE n = 6
    <2>1. Sound(Run(db, file.body, 6)) /\ 6 \in Nat /\ 6 = Len(file.body)
      BY <1>1, <1>2, <1>4, <1>7
    <2>2. ApplyFile(db, file, 6) = Run(db, file.body, 6)
      <3>1. file.atomic
        BY <1>2
      <3> QED
        BY <2>1, <3>1, TransactionInFull
    <2> QED
      BY <1>1, <1>2, <1>4, <1>10, <1>11, <1>12, <2>2 DEF FileKept
  <1>13. CASE n \in 0..5
    <2>1. n = 0 \/ \E j \in 0..4 : n = 1 + j
      BY <1>13
    <2>2. Sound(Run(db, body, n))
      BY <1>3, <1>6, <2>1
    <2>3. n < Len(file.body) /\ Sound(Run(db, file.body, n))
      BY <1>1, <1>2, <1>13, <2>2
    <2>4. ApplyFile(db, file, n) = db
      BY <1>2, <1>3, <2>3, TransactionLeavesNothing
    <2> QED
      BY <1>1, <1>2, <1>13, <2>4 DEF FileKept
  <1> QED
    BY <1>1, <1>2, <1>12, <1>13

LEMMA File10IsKept ==
  ASSUME NEW db, Rest(db), Made(db, 9), NEW n \in 0..Len(Migrations[10].body)
  PROVE  FileKept(db, 10, n)
  <1>1. PICK file : file = MemoryRevision
    OBVIOUS
  <1>2. Migrations[10] = file /\ Len(file.body) = 1 /\ file.atomic /\ file.body[1] = Statement("mark", "012")
    BY <1>1, FilesAre, MarkersAre
  <1>3. Run(db, file.body, 0) = db /\ Sound(db)
    BY RunBegins DEF Rest
  <1>4. PICK d : d = Run(db, file.body, 1)
    OBVIOUS
  <1>5. Sound(d) /\ d.table = db.table /\ "012" \in d.marked
    <2>1. Sound(Run(db, file.body, 0)) /\ "012" \in Versions
      BY <1>3 DEF Versions
    <2> QED
      BY 1 = 0 + 1, 0 \in Nat, <1>2, <1>3, <1>4, <2>1, StepMarks
  <1>6. CASE n = 1
    <2>1. Sound(Run(db, file.body, 1)) /\ 1 \in Nat /\ 1 = Len(file.body)
      BY <1>2, <1>4, <1>5
    <2>2. ApplyFile(db, file, 1) = Run(db, file.body, 1)
      BY <1>2, <2>1, TransactionInFull, ZenonT(60)
    <2>3. \A t \in OfTenants : Closed(db, t)
      BY DEF Made, Guarded, OfTenants, Tables, MemoryTables, RunTables
    <2>4. Rest(d)
      BY <1>5, <2>3 DEF Rest, Closed
    <2>5. Made(d, 10)
      BY <1>5 DEF Made, Guarded, Closed
    <2> QED
      BY <1>2, <1>4, <1>6, <2>2, <2>4, <2>5 DEF FileKept
  <1>7. CASE n = 0
    <2>1. n < Len(file.body) /\ Sound(Run(db, file.body, n))
      BY <1>2, <1>3, <1>7
    <2>2. ApplyFile(db, file, n) = db
      BY <1>2, <1>3, <2>1, TransactionLeavesNothing
    <2> QED
      BY <1>2, <1>7, <2>2 DEF FileKept
  <1> QED
    BY <1>2, <1>6, <1>7

LEMMA FilesAreKept ==
  ASSUME NEW db, Rest(db), NEW k \in 1..10, Made(db, k - 1), NEW n \in 0..Len(Migrations[k].body)
  PROVE  FileKept(db, k, n)
  <1>1. k = 1 \/ k = 2 \/ k = 3 \/ k = 4 \/ k = 5 \/ k = 6 \/ k = 7 \/ k = 8 \/ k = 9 \/ k = 10
    OBVIOUS
  <1> QED
    BY <1>1, File1IsKept, File2IsKept, File3IsKept, File4IsKept, File5IsKept, File6IsKept,
       File7IsKept, File8IsKept, File9IsKept, File10IsKept

-----------------------------------------------------------------------------
(* A pass, and any number of passes.                                        *)
NextFile(d, k, stop) ==
  ApplyFile(d, Migrations[k], IF k = stop.file THEN stop.after ELSE Len(Migrations[k].body))

IsPass(f, d, stop, n) ==
  f = [k \in 0..n |-> IF k = 0 THEN d ELSE NextFile(f[k - 1], k, stop)]

LEMMA PassesExist ==
  ASSUME NEW d, NEW stop
  PROVE  \A n \in Nat : \E f : IsPass(f, d, stop, n)
  <1> DEFINE S == {n \in Nat : \E f : IsPass(f, d, stop, n)}
  <1>1. 0 \in S
    <2>1. PICK f : f = [k \in 0..0 |-> d]
      OBVIOUS
    <2>2. IsPass(f, d, stop, 0)
      BY <2>1 DEF IsPass
    <2> QED
      BY <2>2
  <1>2. ASSUME NEW n \in S PROVE n + 1 \in S
    <2>1. PICK f : IsPass(f, d, stop, n)
      OBVIOUS
    <2>2. PICK g : g = [k \in 0..n + 1 |-> IF k = n + 1 THEN NextFile(f[n], n + 1, stop) ELSE f[k]]
      OBVIOUS
    <2>3. \A k \in 0..n : g[k] = f[k]
      BY <2>2
    <2>4. ASSUME NEW k \in 0..n + 1
          PROVE  g[k] = IF k = 0 THEN d ELSE NextFile(g[k - 1], k, stop)
      <3>1. CASE k = n + 1
        BY <2>2, <2>3, <3>1
      <3>2. CASE k \in 0..n
        <4>1. g[k] = f[k] /\ (k # 0 => g[k - 1] = f[k - 1])
          BY <2>3, <3>2
        <4> QED
          BY <2>1, <3>2, <4>1 DEF IsPass
      <3> QED
        BY <2>4, <3>1, <3>2
    <2>5. g = [k \in 0..n + 1 |-> g[k]]
      BY <2>2
    <2>6. IsPass(g, d, stop, n + 1)
      BY <2>4, <2>5 DEF IsPass
    <2> QED
      BY <2>6
  <1> HIDE DEF S
  <1>3. S \in SUBSET Nat
    BY DEF S
  <1>4. S = Nat
    BY <1>1, <1>2, <1>3, SetInduction
  <1> QED
    BY <1>4 DEF S

LEMMA StopsAre ==
  ASSUME NEW stop \in Stops
  PROVE  stop.file \in 1..10 /\ stop.after \in 0..Len(Migrations[stop.file].body)
  <1>1. PICK k \in 1..10 : stop \in {[file |-> k, after |-> n] : n \in 0..Len(Migrations[k].body)}
    BY FilesAre DEF Stops
  <1>2. PICK n \in 0..Len(Migrations[k].body) : stop = [file |-> k, after |-> n]
    BY <1>1
  <1> QED
    BY <1>2

LEMMA BodiesHaveLengths == \A k \in 1..10 : Len(Migrations[k].body) \in Nat
  BY FilesAre, CoreTablesAre, IndexesRlsAre, RlsPoliciesAre, LoopEngineeringIs, WorkerRuntimeTablesAre,
     ScopeIdsToTextAre, OperationalEvidenceRlsIs, AuditChainHeadsAre, MarkersAre

(* A pass over the migrations that starts from a database at rest and stops *)
(* anywhere leaves one at rest; a whole pass leaves every table guarded and *)
(* the marker set.                                                          *)
LEMMA PassKeepsRest ==
  ASSUME NEW db, Rest(db), NEW stop \in Stops
  PROVE  Rest(Pass(db, stop)) /\ (stop = Whole => Made(Pass(db, stop), 10))
  <1>1. PICK last \in 1..10 : last = stop.file /\ stop.after \in 0..Len(Migrations[last].body)
    BY StopsAre
  <1>2. PICK d : d = [db EXCEPT !.failed = FALSE]
    OBVIOUS
  <1>3. d = db
    BY <1>2 DEF Rest, Sound, Database
  <1>4. \E f : IsPass(f, d, stop, last)
    BY PassesExist
  <1>5. \E f : f = [k \in 0..last |-> IF k = 0 THEN d
                      ELSE ApplyFile(f[k - 1], Migrations[k],
                                     IF k = stop.file THEN stop.after ELSE Len(Migrations[k].body))]
    <2>1. PICK f : IsPass(f, d, stop, last)
      BY <1>4
    <2> QED
      BY <2>1 DEF IsPass, NextFile
  <1>6. Pass(db, stop) =
          (CHOOSE f : f = [k \in 0..last |-> IF k = 0 THEN d
                      ELSE ApplyFile(f[k - 1], Migrations[k],
                                     IF k = stop.file THEN stop.after ELSE Len(Migrations[k].body))])[last]
    BY <1>1, <1>2 DEF Pass
  <1>7. PICK f : IsPass(f, d, stop, last) /\ Pass(db, stop) = f[last]
    BY <1>5, <1>6 DEF IsPass, NextFile
  <1>8. f[0] = db
    BY <1>3, <1>7 DEF IsPass
  <1>9. ASSUME NEW k \in 1..last PROVE f[k] = NextFile(f[k - 1], k, stop)
    BY <1>7, <1>9 DEF IsPass
  <1> DEFINE S == {k \in Nat : k < last => Rest(f[k]) /\ Made(f[k], k)}
  <1>10. 0 \in S
    BY <1>8 DEF Made
  <1>11. ASSUME NEW k \in S PROVE k + 1 \in S
    <2> SUFFICES ASSUME k + 1 < last PROVE Rest(f[k + 1]) /\ Made(f[k + 1], k + 1)
      OBVIOUS
    <2>1. PICK j : j = k + 1
      OBVIOUS
    <2>2. j \in 1..last /\ j # last /\ j \in 1..10 /\ j - 1 = k /\ k \in Nat /\ k < last
      BY <2>1, <1>1
    <2>3. PICK a, n : a = f[k] /\ n = Len(Migrations[j].body)
      OBVIOUS
    <2>4. Rest(a) /\ Made(a, j - 1)
      BY <2>2, <2>3
    <2>5. n \in 0..Len(Migrations[j].body)
      <3>1. n \in Nat
        BY <2>2, <2>3, BodiesHaveLengths
      <3>2. n \in 0..n
        BY <3>1
      <3> QED
        BY <2>3, <3>2, Zenon
    <2>6. FileKept(a, j, n)
      BY <2>2, <2>4, <2>5, FilesAreKept
    <2>7. f[j] = NextFile(f[j - 1], j, stop) /\ f[j - 1] = a
      BY <1>9, <2>2, <2>3
    <2>8. f[j] = ApplyFile(a, Migrations[j], n)
      BY <1>1, <2>2, <2>3, <2>7 DEF NextFile
    <2> QED
      BY <2>1, <2>3, <2>6, <2>8 DEF FileKept
  <1>12. S = Nat
    <2> HIDE DEF S
    <2>1. S \in SUBSET Nat
      BY DEF S
    <2> QED
      BY <1>10, <1>11, <2>1, SetInduction
  <1>13. PICK a, n : a = f[last - 1] /\ n = stop.after
    OBVIOUS
  <1>14. Rest(a) /\ Made(a, last - 1)
    <2>1. last - 1 \in Nat /\ last - 1 < last
      OBVIOUS
    <2> QED
      BY <1>12, <1>13, <2>1
  <1>15. FileKept(a, last, n)
    BY <1>1, <1>13, <1>14, FilesAreKept
  <1>16. f[last] = ApplyFile(a, Migrations[last], n)
    BY <1>1, <1>9, <1>13 DEF NextFile
  <1>17. stop = Whole => last = 10 /\ n = Len(Migrations[last].body)
    BY <1>1, <1>13, FilesAre DEF Whole
  <1> QED
    BY <1>7, <1>15, <1>16, <1>17 DEF FileKept

LEMMA EmptyIsAtRest == Rest(EmptyDatabase)
  BY DEF EmptyDatabase, Rest, Sound, Database, TableState, Closed, Tables

-----------------------------------------------------------------------------
(* What a database at rest lets a connection see.                           *)
RlsRoles == {"owner", "member"}

DbRoles == {"superuser", "owner", "member"}

LEMMA VisibleAreScopes ==
  ASSUME NEW db, NEW role, NEW scope, NEW t
  PROVE  Visible(db, role, scope, t) \subseteq Scopes
  BY DEF Visible

LEMMA ClosedShowsOwn ==
  ASSUME NEW db, NEW role \in RlsRoles, NEW scope, NEW t \in Tables,
         db.table[t].exists => Closed(db, t)
  PROVE  Visible(db, role, scope, t) \subseteq {scope}
  BY DEF Visible, Bound, Closed, RlsRoles

LEMMA AtRestIsClosed ==
  ASSUME NEW db, Rest(db), CurrentSchema(db), NEW t \in OfTenants
  PROVE  Closed(db, t)
  BY DEF Rest, CurrentSchema

AllGuarded(db) == \A t \in OfTenants : Guarded(db, t)

LEMMA WholeIsGuarded ==
  ASSUME NEW db, Made(db, 10)
  PROVE  AllGuarded(db) /\ CurrentSchema(db)
  BY DEF AllGuarded, Made, CurrentSchema, OfTenants, Tables, MemoryTables, RunTables

LEMMA GuardedShowsOwn ==
  ASSUME NEW db, AllGuarded(db), NEW role \in RlsRoles, NEW x, NEW t \in OfTenants
  PROVE  Visible(db, role, x, t) = {x} \cap Scopes
  <1>1. Guarded(db, t) /\ Guarded(db, "loop_runs")
    BY DEF AllGuarded, OfTenants, Tables
  <1>2. /\ db.table[t].exists /\ Bound(db, role, t)
        /\ db.table[t].policy = PolicyOf(t)
    BY <1>1 DEF Guarded, Closed, Bound, RlsRoles
  <1>3. Bound(db, role, "loop_runs") /\ db.table["loop_runs"].policy = "tenant"
    BY <1>1 DEF Guarded, Closed, Bound, RlsRoles, PolicyOf
  <1>4. CASE t = "loop_events"
    BY <1>2, <1>3, <1>4 DEF Visible, PolicyOf
  <1>5. CASE t # "loop_events"
    BY <1>2, <1>5 DEF Visible, PolicyOf
  <1> QED
    BY <1>4, <1>5

LEMMA SuperusersSeeAll ==
  ASSUME NEW db, AllGuarded(db), NEW x, NEW t \in OfTenants
  PROVE  Visible(db, "superuser", x, t) = Scopes
  BY DEF Visible, Bound, AllGuarded, Guarded, Closed

-----------------------------------------------------------------------------
(* The evidence calls.                                                      *)
Callable(active, wanted) ==
  active \in Scopes \cup {NoTenant, NoSession} /\ wanted \in Scopes \cup {NoTenant}

LEMMA EvidenceStaysApart ==
  ASSUME NEW db, NEW role, NEW active, NEW wanted, Callable(active, wanted)
  PROVE  EvidenceReadsApart(db, role, active, wanted)
  <1>1. wanted # "refused" /\ "refused" \notin Scopes /\ NoTenant # "refused"
    BY ScopeAssumption DEF Callable
  <1>2. ASSUME NEW shown PROVE Filtered(shown, wanted) \subseteq Unanswered \cup {wanted}
    BY DEF Filtered
  <1>3. UpsertSettings(db, role, active, wanted) \subseteq {wanted}
    BY DEF UpsertSettings
  <1>4. PICK shown : shown = Shown(db, role, active, wanted, "loop_runs")
    OBVIOUS
  <1>5. shown = Unanswered \/ shown \subseteq Scopes
    BY <1>4, VisibleAreScopes DEF Shown
  <1>6. PICK runs : runs = ListLoopRuns(db, role, active, wanted)
    OBVIOUS
  <1>7. runs = Filtered(shown, wanted)
    BY <1>4, <1>6 DEF ListLoopRuns
  <1>8. \A x : x \in runs /\ x # "refused" <=> wanted # NoTenant /\ x = wanted /\ x \in shown
    BY <1>1, <1>5, <1>7 DEF Filtered, Unanswered
  <1>9. AddLoopRun(db, role, active, wanted) <=> runs = {wanted}
    <2>1. AddLoopRun(db, role, active, wanted) <=> wanted # NoTenant /\ wanted \in shown
      BY <1>4 DEF AddLoopRun
    <2>2. runs = {wanted} => wanted # NoTenant /\ wanted \in shown
      BY <1>1, <1>8
    <2>3. wanted # NoTenant /\ wanted \in shown => runs = {wanted}
      BY <1>1, <1>5, <1>7 DEF Filtered, Unanswered
    <2> QED
      BY <2>1, <2>2, <2>3
  <1>10. ASSUME NEW run \in Scopes
         PROVE  /\ AddLoopEvent(db, role, active, wanted, run) <=> run \in runs
                /\ AddLoopEvent(db, role, active, wanted, run)
                     => UpdateLoopRun(db, role, active, wanted, run)
    <2>1. UpdateLoopRun(db, role, active, wanted, run) <=> wanted # NoTenant /\ run \in shown
      BY <1>4 DEF UpdateLoopRun
    <2>2. AddLoopEvent(db, role, active, wanted, run)
            <=> wanted = run /\ UpdateLoopRun(db, role, active, wanted, run)
      BY DEF AddLoopEvent
    <2> QED
      BY <1>1, <1>8, <2>1, <2>2
  <1>11. /\ ListLoopEvents(db, role, active, wanted) \subseteq Unanswered \cup {wanted}
         /\ ListWorkerRuns(db, role, active, wanted) \subseteq Unanswered \cup {wanted}
         /\ Metrics(db, role, active, wanted) \subseteq Unanswered \cup {wanted}
         /\ runs \subseteq Unanswered \cup {wanted}
    <2>1. runs \subseteq Unanswered \cup {wanted}
      BY <1>2, <1>7
    <2>2. /\ ListLoopEvents(db, role, active, wanted) \subseteq Unanswered \cup {wanted}
          /\ ListWorkerRuns(db, role, active, wanted) \subseteq Unanswered \cup {wanted}
      BY <1>2 DEF ListLoopEvents, ListWorkerRuns
    <2>3. Metrics(db, role, active, wanted) \subseteq Unanswered \cup {wanted}
      BY <1>2, <1>6, <2>1 DEF Metrics
    <2> QED
      BY <2>1, <2>2, <2>3
  <1> QED
    BY <1>3, <1>6, <1>9, <1>10, <1>11 DEF EvidenceReadsApart

LEMMA BackendsSayTheSame ==
  ASSUME NEW db, AllGuarded(db), NEW role \in DbRoles, NEW x \in Scopes \cup {NoTenant}
  PROVE  BackendsAgree(db, role, x)
  <1>1. x # "refused" /\ "refused" \notin Scopes
    BY ScopeAssumption
  <1>2. \A t \in OfTenants : \/ Visible(db, role, x, t) = {x} \cap Scopes
                              \/ Visible(db, role, x, t) = Scopes
    BY GuardedShowsOwn, SuperusersSeeAll DEF DbRoles, RlsRoles
  <1>3. ASSUME NEW t \in OfTenants PROVE Shown(db, role, NoSession, x, t) = Visible(db, role, x, t)
    BY <1>1 DEF Shown, Scoped
  <1>4. ASSUME NEW shown, shown \subseteq Scopes, x \in Scopes => x \in shown
        PROVE  Filtered(shown, x) = IF x = NoTenant THEN Unanswered ELSE {x}
    BY <1>1, <1>4 DEF Filtered, Unanswered
  <1>5. {"loop_runs", "loop_events", "worker_runs"} \subseteq OfTenants
    BY DEF OfTenants, Tables
  <1>6. PICK r, e, w : /\ r = Shown(db, role, NoSession, x, "loop_runs")
                       /\ e = Shown(db, role, NoSession, x, "loop_events")
                       /\ w = Shown(db, role, NoSession, x, "worker_runs")
    OBVIOUS
  <1>7. /\ r \subseteq Scopes /\ (x \in Scopes => x \in r)
        /\ e \subseteq Scopes /\ (x \in Scopes => x \in e)
        /\ w \subseteq Scopes /\ (x \in Scopes => x \in w)
    BY <1>2, <1>3, <1>5, <1>6
  <1>8. PICK both : both = e \cap r
    OBVIOUS
  <1>9. both \subseteq Scopes /\ (x \in Scopes => x \in both)
    BY <1>7, <1>8
  <1>10. /\ ListLoopRuns(db, role, NoSession, x) = Filtered(r, x)
         /\ ListLoopEvents(db, role, NoSession, x) = Filtered(both, x)
         /\ ListWorkerRuns(db, role, NoSession, x) = Filtered(w, x)
    BY <1>6, <1>8 DEF ListLoopRuns, ListLoopEvents, ListWorkerRuns
  <1>11. \A s : s = Filtered(r, x) \/ s = Filtered(both, x) \/ s = Filtered(w, x)
               => s = IF x = NoTenant THEN Unanswered ELSE {x}
    BY <1>4, <1>7, <1>9
  <1>12. Filtered(Scopes, x) = IF x = NoTenant THEN Unanswered ELSE {x}
    BY <1>4
  <1> QED
    BY <1>10, <1>11, <1>12 DEF BackendsAgree, LoopRunsInMemory, LoopEventsInMemory, WorkerRunsInMemory

-----------------------------------------------------------------------------
(* The verifier.                                                            *)
LEMMA GuardedPasses ==
  ASSUME NEW db, AllGuarded(db), NEW admin \in {"superuser", "owner"},
         NEW x \in Scopes, NEW y \in Scopes, x # y
  PROVE  CheckRlsPolicies(db, admin, x, y)
  <1>1. Protected \subseteq OfTenants /\ Probed \subseteq OfTenants
    BY DEF Protected, Probed, OfTenants, Tables
  <1>2. ASSUME NEW t \in Protected
        PROVE  /\ db.table[t].exists /\ db.table[t].enabled /\ db.table[t].forced
               /\ db.table[t].policy # "none"
    BY <1>1 DEF AllGuarded, Guarded, Closed, PolicyOf
  <1>3. ASSUME NEW t \in Probed
        PROVE  /\ x \in Visible(db, admin, x, t)
               /\ x \notin Visible(db, ProbeRole(admin), y, t)
    <2>1. t \in OfTenants /\ ProbeRole(admin) \in RlsRoles
      BY <1>1 DEF ProbeRole, RlsRoles
    <2>2. x \in Visible(db, admin, x, t)
      BY <2>1, GuardedShowsOwn, SuperusersSeeAll DEF RlsRoles
    <2>3. Visible(db, ProbeRole(admin), y, t) = {y} \cap Scopes
      BY <2>1, GuardedShowsOwn
    <2> QED
      BY <2>2, <2>3
  <1> QED
    BY <1>2, <1>3 DEF CheckRlsPolicies, ProbeFails

LEMMA PassingIsApart ==
  ASSUME NEW db, Rest(db), NEW admin, NEW x, NEW y, CheckRlsPolicies(db, admin, x, y),
         NEW role \in RlsRoles, NEW t \in OfTenants
  PROVE  Visible(db, role, x, t) \subseteq {x}
  <1>1. t \in Tables /\ (t \in Protected \/ t = "audit_chain_heads")
    BY DEF OfTenants, Protected
  <1>2. db.table[t].exists => Closed(db, t)
    BY <1>1 DEF Rest, Closed, CheckRlsPolicies
  <1> QED
    BY <1>1, <1>2, ClosedShowsOwn

-----------------------------------------------------------------------------
SchemaPut(q) ==
  q.about = "schema" =>
    /\ Rest(q.in.database)
    /\ q.in.stopped = Whole => Made(q.in.database, 10)

LEMMA SchemaIsPut == AskSchema => SchemaPut(asked')
  <1> SUFFICES ASSUME AskSchema PROVE SchemaPut(asked')
    OBVIOUS
  <1>1. PICK first \in Stops, second \in Stops :
          Ask("schema", [stopped |-> second, database |-> Pass(Pass(EmptyDatabase, first), second)])
    BY Zenon DEF AskSchema
  <1>2. Rest(Pass(EmptyDatabase, first))
    BY EmptyIsAtRest, PassKeepsRest
  <1>3. PICK d : d = Pass(Pass(EmptyDatabase, first), second)
    OBVIOUS
  <1>4. Rest(d) /\ (second = Whole => Made(d, 10))
    BY <1>2, <1>3, PassKeepsRest
  <1>5. asked'.in.database = d /\ asked'.in.stopped = second
    BY <1>1, <1>3 DEF Ask
  <1> QED
    BY <1>4, <1>5 DEF SchemaPut

LEMMA DatabasesKeepApart ==
  ASSUME NEW db, Rest(db)
  PROVE  /\ CurrentSchema(db) => SessionsApart(db)
         /\ EvidenceApart(db)
         /\ Made(db, 10) => ShowsOwn(db) /\ VerifierIsRight(db, TRUE)
         /\ VerifierIsRight(db, FALSE)
  <1>1. ASSUME CurrentSchema(db) PROVE SessionsApart(db)
    <2> SUFFICES ASSUME NEW role \in {"owner", "member"},
                        NEW active \in Joined, NEW wanted \in Scopes \cup {NoTenant},
                        Scoped(active, wanted) # "refused", NEW t \in OfTenants
                 PROVE  Visible(db, role, Scoped(active, wanted), t)
                          \subseteq (IF wanted = NoTenant THEN {active} ELSE {wanted})
      BY DEF SessionsApart
    <2>1. PICK scope : scope = Scoped(active, wanted)
      OBVIOUS
    <2>2. Closed(db, t) /\ t \in Tables
      BY <1>1, AtRestIsClosed DEF OfTenants
    <2>3. Visible(db, role, scope, t) \subseteq {scope}
      BY <2>2, ClosedShowsOwn DEF RlsRoles
    <2>4. Visible(db, role, scope, t) \subseteq Scopes
      BY VisibleAreScopes
    <2>5. scope \in Scopes => scope = IF wanted = NoTenant THEN active ELSE wanted
      BY <2>1, ScopeAssumption DEF Scoped, Joined
    <2> QED
      BY <2>1, <2>3, <2>4, <2>5
  <1>2. EvidenceApart(db)
    BY EvidenceStaysApart, Zenon DEF EvidenceApart, Callable, Joined
  <1>3. ASSUME Made(db, 10) PROVE ShowsOwn(db)
    <2>1. AllGuarded(db) /\ CurrentSchema(db)
      BY <1>3, WholeIsGuarded
    <2>2. ListWorkerRunsOperational(db, TRUE) = Scopes
      BY <2>1, SuperusersSeeAll DEF ListWorkerRunsOperational, OfTenants, Tables
    <2>3. ASSUME NEW role \in {"owner", "member"}, NEW x \in Scopes, NEW t \in OfTenants
          PROVE  Visible(db, role, x, t) = {x}
      <3>1. Visible(db, role, x, t) = {x} \cap Scopes
        BY <2>1, GuardedShowsOwn DEF RlsRoles
      <3> QED
        BY <3>1
    <2>4. ASSUME NEW role \in {"superuser", "owner", "member"}, NEW x \in Scopes \cup {NoTenant}
          PROVE  BackendsAgree(db, role, x)
      BY <2>1, BackendsSayTheSame DEF DbRoles
    <2> QED
      BY <2>1, <2>2, <2>3, <2>4 DEF ShowsOwn
  <1>4. ASSUME NEW admin, NEW x \in Scopes, NEW y \in Scopes, CheckRlsPolicies(db, admin, x, y),
               NEW role \in {"owner", "member"}, NEW t \in OfTenants
        PROVE  Visible(db, role, x, t) \subseteq {x}
    BY <1>4, PassingIsApart DEF RlsRoles
  <1>5. VerifierIsRight(db, FALSE)
    BY <1>4, Zenon DEF VerifierIsRight
  <1>6. ASSUME Made(db, 10) PROVE VerifierIsRight(db, TRUE)
    <2>1. AllGuarded(db)
      BY <1>6, WholeIsGuarded
    <2>2. ASSUME NEW admin \in {"superuser", "owner"}, NEW x \in Scopes, NEW y \in Scopes, x # y
          PROVE  CheckRlsPolicies(db, admin, x, y)
      BY <2>1, <2>2, GuardedPasses
    <2> QED
      BY <1>4, <2>2, Zenon DEF VerifierIsRight
  <1> QED
    BY <1>1, <1>2, <1>3, <1>5, <1>6

LEMMA SchemaKeepsApart == SchemaPut(asked) => TenantsStayApart
  <1> SUFFICES ASSUME SchemaPut(asked), asked.about = "schema" PROVE TenantsStayApart
    BY Zenon DEF TenantsStayApart
  <1>1. Rest(asked.in.database) /\ (asked.in.stopped = Whole => Made(asked.in.database, 10))
    BY DEF SchemaPut
  <1>2. ~asked.in.database.failed
    BY <1>1 DEF Rest, Sound
  <1>3. CASE asked.in.stopped = Whole
    <2>1. (asked.in.stopped = Whole) = TRUE
      BY <1>3
    <2> QED
      BY <1>1, <1>2, <1>3, <2>1, DatabasesKeepApart DEF TenantsStayApart
  <1>4. CASE asked.in.stopped # Whole
    <2>1. (asked.in.stopped = Whole) = FALSE
      BY <1>4
    <2> QED
      BY <1>1, <1>2, <1>4, <2>1, DatabasesKeepApart DEF TenantsStayApart
  <1> QED
    BY <1>3, <1>4

-----------------------------------------------------------------------------
(* The output gate.                                                         *)

LEMMA AnswerIsPut ==
  ASSUME AskAnswer
  PROVE  AnswerPut(asked')
  <1>1. PICK answer \in TextsUpTo(5), one \in [1..3 -> Words],
             two \in {<<>>, <<"a", "b">>, <<"a", "a">>} :
               Ask("answer", [answer |-> answer, withheld |-> {one, two}])
    BY DEF AskAnswer
  <1>2. asked'.in.answer = answer /\ asked'.in.withheld = {one, two}
    BY <1>1 DEF Ask
  <1>3. answer \in Seq(Words)
    <2>1. PICK k \in 0..5 : answer \in [1..k -> Words]
      BY DEF TextsUpTo
    <2> QED
      BY <2>1, k \in Nat, SeqDef
  <1>4. one \in Seq(Words)
    BY 3 \in Nat, SeqDef
  <1>5. two \in Seq(Words)
    <2>1. "a" \in Words /\ "b" \in Words
      BY DEF Words
    <2>2. <<>> \in Seq(Words) /\ <<"a", "b">> \in Seq(Words) /\ <<"a", "a">> \in Seq(Words)
      BY <2>1
    <2> QED
      BY <2>2
  <1> QED
    BY <1>2, <1>3, <1>4, <1>5 DEF AnswerPut

LEMMA WithheldIsKept == AnswerPut(asked) => WithheldStaysWithheld
  <1> SUFFICES ASSUME AnswerPut(asked), asked.about = "answer" PROVE WithheldStaysWithheld
    BY DEF WithheldStaysWithheld
  <1> DEFINE answer == asked.in.answer
             withheld == asked.in.withheld
             left == Review(answer, withheld, "redact")
             disclosed == Disclosed(answer, withheld)
  <1>1. /\ answer \in Seq(Words) /\ Redaction \notin Words
        /\ \A t \in withheld : t \in Seq(Words)
    BY DEF AnswerPut, Words, Redaction
  <1>2. /\ Phrases(left) \cap ToldIn(withheld) = {}
        /\ Len(left) = Place(disclosed, Len(answer))
        /\ \A i \in 1..Len(answer) :
              left[Place(disclosed, i)] = IF i \in disclosed THEN Redaction ELSE answer[i]
        /\ \A k \in 1..(Len(left) - 1) : left[k] = Redaction => left[k + 1] # Redaction
    <2> HIDE DEF answer, withheld, left, disclosed
    <2>1. left = Review(answer, withheld, "redact") /\ disclosed = Disclosed(answer, withheld)
      BY DEF left, disclosed
    <2> QED
      BY <1>1, <2>1, RedactionIsExact
  <1> QED
    BY <1>2, Zenon DEF WithheldStaysWithheld, Disclosed, ToldIn, Place, Shows

-----------------------------------------------------------------------------
(* The limiter. What it remembers of a key is known by the arrivals it      *)
(* lists: the requests it let in that are still in the window.              *)

\* The first n of the hits have left the window, and no more.
PoppedOff(hits, now, n) ==
  /\ n \in 0..Len(hits)
  /\ \A i \in 1..n : hits[i] + Window <= now
  /\ n = Len(hits) \/ hits[n + 1] + Window > now

LEMMA SomeAreGone ==
  ASSUME NEW hits \in Seq(Nat), NEW now \in Nat
  PROVE  \E n \in 0..Len(hits) : PoppedOff(hits, now, n)
  <1> SUFFICES ASSUME \A n \in 0..Len(hits) : ~PoppedOff(hits, now, n)
               PROVE  FALSE
    OBVIOUS
  <1>1. PICK size \in Nat : size = Len(hits)
    OBVIOUS
  <1> DEFINE S == {n \in Nat : n <= size => \A i \in 1..n : hits[i] + Window <= now}
  <1>2. 0 \in S
    OBVIOUS
  <1>3. ASSUME NEW n \in S PROVE n + 1 \in S
    <2> SUFFICES ASSUME n + 1 <= size PROVE \A i \in 1..n + 1 : hits[i] + Window <= now
      OBVIOUS
    <2>1. n \in 0..Len(hits) /\ n # Len(hits) /\ \A i \in 1..n : hits[i] + Window <= now
      BY <1>1
    <2>2. ~PoppedOff(hits, now, n)
      BY <2>1
    <2>3. ~(hits[n + 1] + Window > now)
      BY <2>1, <2>2 DEF PoppedOff
    <2>4. hits[n + 1] \in Nat /\ Window \in Nat
      BY <2>1, WindowAssumption
    <2>5. hits[n + 1] + Window <= now
      BY <2>3, <2>4
    <2> QED
      BY <2>1, <2>5
  <1>4. S = Nat
    <2> HIDE DEF S
    <2>1. S \in SUBSET Nat
      BY DEF S
    <2> QED
      BY <1>2, <1>3, <2>1, SetInduction
  <1>5. size \in S
    BY <1>4
  <1>6. PoppedOff(hits, now, size)
    BY <1>1, <1>5 DEF PoppedOff
  <1> QED
    BY <1>1, <1>6

LEMMA FreshAreTheRest ==
  ASSUME NEW hits \in Seq(Nat), NEW now \in Nat
  PROVE  \E n \in 0..Len(hits) :
           /\ PoppedOff(hits, now, n)
           /\ Fresh(hits, now) \in Seq(Nat) /\ Len(Fresh(hits, now)) = Len(hits) - n
           /\ \A i \in 1..(Len(hits) - n) : Fresh(hits, now)[i] = hits[i + n]
  <1>1. PICK n : n = CHOOSE m \in 0..Len(hits) :
                       /\ \A i \in 1..m : hits[i] + Window <= now
                       /\ m = Len(hits) \/ hits[m + 1] + Window > now
    OBVIOUS
  <1>2. \E m \in 0..Len(hits) : /\ \A i \in 1..m : hits[i] + Window <= now
                                /\ m = Len(hits) \/ hits[m + 1] + Window > now
    BY SomeAreGone DEF PoppedOff
  <1>3. PoppedOff(hits, now, n)
    BY <1>1, <1>2, Zenon DEF PoppedOff
  <1>4. n \in 0..Len(hits)
    BY <1>3 DEF PoppedOff
  <1>5. Fresh(hits, now) = SubSeq(hits, n + 1, Len(hits))
    BY <1>1, Zenon DEF Fresh
  <1>6. PICK size \in Nat, from \in Nat : size = Len(hits) /\ from = n + 1
    BY <1>4
  <1>7. /\ SubSeq(hits, from, size) \in Seq(Nat)
        /\ Len(SubSeq(hits, from, size)) = IF from <= size THEN size - from + 1 ELSE 0
        /\ \A i \in 1..(size - from + 1) : SubSeq(hits, from, size)[i] = hits[from + i - 1]
    <2>1. \A i \in from..size : hits[i] \in Nat
      BY <1>4, <1>6
    <2> QED
      BY <2>1, SubSeqProperties
  <1>8. Len(SubSeq(hits, from, size)) = Len(hits) - n
    BY <1>4, <1>6, <1>7
  <1>9. ASSUME NEW i \in 1..(Len(hits) - n) PROVE SubSeq(hits, from, size)[i] = hits[i + n]
    <2>1. i \in 1..(size - from + 1) /\ from + i - 1 = i + n
      BY <1>4, <1>6
    <2>2. SubSeq(hits, from, size)[i] = hits[from + i - 1]
      BY <1>7, <2>1
    <2> QED
      BY <2>1, <2>2
  <1> QED
    BY <1>3, <1>4, <1>5, <1>6, <1>7, <1>8, <1>9

\* hits are the times of the arrivals J, in their order.
Orders(f, hits, at, J) ==
  /\ f \in [1..Len(hits) -> J]
  /\ \A i \in 1..Len(hits) : hits[i] = at[f[i]]
  /\ \A i, j \in 1..Len(hits) : i < j => f[i] < f[j]
  /\ \A j \in J : \E i \in 1..Len(hits) : f[i] = j

Lists(hits, at, J) == hits \in Seq(Nat) /\ \E f : Orders(f, hits, at, J)

LEMMA ListedAreCounted ==
  ASSUME NEW at, NEW J \in SUBSET Nat, NEW hits, Lists(hits, at, J)
  PROVE  Cardinality(J) = Len(hits)
  <1>1. PICK f : Orders(f, hits, at, J)
    BY DEF Lists
  <1>2. PICK size \in Nat : size = Len(hits)
    BY DEF Lists
  <1>3. /\ f \in [1..size -> J] /\ \A i, j \in 1..size : i < j => f[i] < f[j]
        /\ \A j \in J : \E i \in 1..size : f[i] = j
    BY <1>1, <1>2 DEF Orders
  <1>4. ASSUME NEW i \in 1..size, NEW j \in 1..size, f[i] = f[j] PROVE i = j
    <2>1. f[i] \in Nat /\ f[j] \in Nat
      BY <1>3
    <2>2. ~(i < j) /\ ~(j < i)
      BY <1>3, <1>4, <2>1
    <2> QED
      BY <2>2
  <1>5. f \in Bijection(1..size, J)
    BY <1>3, <1>4 DEF Bijection, Injection, Surjection, IsInjective
  <1>6. IsFiniteSet(1..size) /\ Cardinality(1..size) = size
    BY FS_Interval
  <1>7. ExistsBijection(1..size, J)
    BY <1>5 DEF ExistsBijection
  <1> QED
    BY <1>2, <1>6, <1>7, FS_Bijection

LEMMA FreshAreListed ==
  ASSUME NEW at \in Seq(Nat), Sorted(at), NEW J \in SUBSET (1..Len(at)), NEW hits, Lists(hits, at, J),
         NEW now \in Nat
  PROVE  Lists(Fresh(hits, now), at, {j \in J : at[j] + Window > now})
  <1>1. PICK size \in Nat : size = Len(hits)
    BY DEF Lists
  <1>2. PICK n \in 0..size : /\ PoppedOff(hits, now, n)
                             /\ Fresh(hits, now) \in Seq(Nat) /\ Len(Fresh(hits, now)) = size - n
                             /\ \A i \in 1..(size - n) : Fresh(hits, now)[i] = hits[i + n]
    BY <1>1, FreshAreTheRest DEF Lists
  <1>3. PICK f : Orders(f, hits, at, J)
    BY DEF Lists
  <1>4. /\ f \in [1..size -> J] /\ \A i \in 1..size : hits[i] = at[f[i]]
        /\ \A i, j \in 1..size : i < j => f[i] < f[j]
        /\ \A j \in J : \E i \in 1..size : f[i] = j
    BY <1>1, <1>3 DEF Orders
  <1>5. /\ \A i \in 1..n : hits[i] + Window <= now
        /\ n = size \/ hits[n + 1] + Window > now
    BY <1>1, <1>2 DEF PoppedOff
  <1>6. PICK fresh : fresh = Fresh(hits, now)
    OBVIOUS
  <1>7. PICK K : K = {j \in J : at[j] + Window > now}
    OBVIOUS
  <1>8. PICK g : g = [i \in 1..(size - n) |-> f[i + n]]
    OBVIOUS
  <1>9. ASSUME NEW i \in 1..(size - n)
        PROVE  /\ i + n \in 1..size /\ g[i] = f[i + n] /\ fresh[i] = at[g[i]]
               /\ g[i] \in K
    <2>1. i + n \in 1..size /\ n + 1 \in 1..size /\ n # size
      OBVIOUS
    <2>2. g[i] = f[i + n] /\ fresh[i] = hits[i + n]
      BY <1>2, <1>6, <1>8
    <2>3. PICK a \in J, b \in J : a = f[n + 1] /\ b = f[i + n]
      BY <1>4, <2>1
    <2>4. a <= b
      <3>1. n + 1 < i + n \/ n + 1 = i + n
        OBVIOUS
      <3>2. a \in Nat /\ b \in Nat
        OBVIOUS
      <3> QED
        BY <1>4, <2>1, <2>3, <3>1, <3>2
    <2>5. at[a] <= at[b] /\ at[a] \in Nat /\ at[b] \in Nat
      BY <2>4 DEF Sorted
    <2>6. at[a] + Window > now
      BY <1>4, <1>5, <2>1, <2>3
    <2>7. at[b] + Window > now
      BY <2>5, <2>6, WindowAssumption
    <2> QED
      BY <1>4, <1>7, <2>1, <2>2, <2>3, <2>7
  <1>10. ASSUME NEW j \in K PROVE \E i \in 1..(size - n) : g[i] = j
    <2>1. PICK i \in 1..size : f[i] = j
      BY <1>4, <1>7
    <2>2. hits[i] + Window > now
      BY <1>4, <1>7, <2>1
    <2>3. ~(i <= n)
      <3>1. ASSUME i <= n PROVE FALSE
        <4>1. hits[i] + Window <= now
          BY <1>5, <3>1
        <4>2. hits \in Seq(Nat) /\ i \in 1..Len(hits)
          BY <1>1 DEF Lists
        <4>3. hits[i] \in Nat
          BY <4>2
        <4> QED
          BY <2>2, <4>1, <4>3, WindowAssumption
      <3> QED
        BY <3>1
    <2>4. i - n \in 1..(size - n) /\ (i - n) + n = i
      BY <2>3
    <2>5. g[i - n] = f[i]
      BY <1>9, <2>4
    <2> QED
      BY <2>1, <2>4, <2>5
  <1>11. Orders(g, fresh, at, K)
    <2>1. g \in [1..(size - n) -> K]
      BY <1>8, <1>9
    <2>2. ASSUME NEW i \in 1..(size - n), NEW j \in 1..(size - n), i < j PROVE g[i] < g[j]
      BY <1>4, <1>9, <2>2
    <2>3. Len(fresh) = size - n
      BY <1>2, <1>6
    <2> QED
      BY <1>9, <1>10, <2>1, <2>2, <2>3 DEF Orders
  <1> QED
    BY <1>2, <1>6, <1>7, <1>11 DEF Lists

Grows(J, k, K) == K = J \cup {k}

LEMMA OneMoreIsListed ==
  ASSUME NEW at, NEW k \in Nat, NEW t \in Nat, t = at[k], NEW J \in SUBSET (1..(k - 1)),
         NEW hits, Lists(hits, at, J), NEW K, Grows(J, k, K)
  PROVE  Lists(Append(hits, t), at, K) /\ Len(Append(hits, t)) = Len(hits) + 1
  <1> USE DEF Grows
  <1>1. PICK size \in Nat : size = Len(hits)
    BY DEF Lists
  <1>2. PICK f : Orders(f, hits, at, J)
    BY DEF Lists
  <1>3. /\ f \in [1..size -> J] /\ \A i \in 1..size : hits[i] = at[f[i]]
        /\ \A i, j \in 1..size : i < j => f[i] < f[j]
        /\ \A j \in J : \E i \in 1..size : f[i] = j
    BY <1>1, <1>2 DEF Orders
  <1>4. PICK more : more = Append(hits, t)
    OBVIOUS
  <1>5. /\ more \in Seq(Nat) /\ Len(more) = size + 1 /\ more[size + 1] = at[k]
        /\ \A i \in 1..size : more[i] = hits[i]
    <2>1. hits \in Seq(Nat)
      BY DEF Lists
    <2> QED
      BY <1>1, <1>4, <2>1, AppendProperties
  <1>6. PICK g : g = [i \in 1..(size + 1) |-> IF i = size + 1 THEN k ELSE f[i]]
    OBVIOUS
  <1>7. ASSUME NEW i \in 1..(size + 1)
        PROVE  /\ g[i] \in K /\ more[i] = at[g[i]]
               /\ i = size + 1 => g[i] = k
               /\ i # size + 1 => i \in 1..size /\ g[i] = f[i] /\ g[i] \in J
    <2>1. CASE i = size + 1
      BY <1>5, <1>6, <2>1
    <2>2. CASE i # size + 1
      <3>1. i \in 1..size /\ g[i] = f[i] /\ f[i] \in J
        BY <1>3, <1>6, <2>2
      <3> QED
        BY <1>3, <1>5, <2>2, <3>1
    <2> QED
      BY <2>1, <2>2
  <1>8. ASSUME NEW i \in 1..(size + 1), NEW j \in 1..(size + 1), i < j PROVE g[i] < g[j]
    <2>1. i # size + 1 /\ g[i] = f[i] /\ g[i] \in J /\ i \in 1..size
      BY <1>7, <1>8
    <2>2. CASE j = size + 1
      <3>1. g[j] = k
        BY <1>7, <2>2
      <3>2. g[i] \in 1..(k - 1)
        BY <2>1
      <3> QED
        BY <3>1, <3>2
    <2>3. CASE j # size + 1
      <3>1. j \in 1..size /\ g[j] = f[j]
        BY <1>7, <2>3
      <3>2. f[i] < f[j]
        BY <1>3, <1>8, <2>1, <3>1
      <3> QED
        BY <2>1, <3>1, <3>2
    <2> QED
      BY <2>2, <2>3
  <1>9. ASSUME NEW j \in K PROVE \E i \in 1..(size + 1) : g[i] = j
    <2>1. CASE j = k
      <3>1. size + 1 \in 1..(size + 1)
        OBVIOUS
      <3> QED
        BY <1>7, <2>1, <3>1
    <2>2. CASE j # k
      <3>1. PICK i \in 1..size : f[i] = j
        BY <1>3, <2>2
      <3>2. i \in 1..(size + 1) /\ i # size + 1
        OBVIOUS
      <3> QED
        BY <1>7, <3>1, <3>2
    <2> QED
      BY <2>1, <2>2
  <1>10. g \in [1..(size + 1) -> K]
    BY <1>6, <1>7
  <1>11. Orders(g, more, at, K)
    BY <1>5, <1>7, <1>8, <1>9, <1>10 DEF Orders
  <1> QED
    BY <1>1, <1>4, <1>5, <1>11 DEF Lists

LEMMA OneCheck ==
  ASSUME NEW limit \in Nat \ {0}, NEW hits, NEW now, NEW c, c = Check(hits, limit, now),
         NEW fresh, fresh = Fresh(hits, now), Len(fresh) \in Nat
  PROVE  /\ c.allowed <=> Len(fresh) < limit
         /\ c.allowed => c.hits = Append(fresh, now)
         /\ ~c.allowed => c.hits = fresh /\ c.retry = RetryAfter(fresh, now)
  <1>1. CASE Len(fresh) >= limit
    BY <1>1 DEF Check
  <1>2. CASE ~(Len(fresh) >= limit)
    BY <1>2 DEF Check
  <1> QED
    BY <1>1, <1>2

\* Whoever waits as told comes after the oldest hit has left the window.
LEMMA WaitIsLongEnough ==
  ASSUME NEW h \in Nat, NEW now \in Nat, h <= now, h + Window > now
  PROVE  LET wait == ((Window - (now - h)) \div Ticks + 1) * Ticks
         IN  wait \in Nat /\ h + Window <= now + wait
  <1>1. PICK rest \in Nat : rest = Window - (now - h)
    BY WindowAssumption
  <1>2. PICK t \in Nat \ {0} : t = Ticks
    BY WindowAssumption
  <1>3. PICK q : q = rest \div t
    OBVIOUS
  <1>4. q \in Nat
    BY <1>3
  <1>5. PICK tq \in Nat, r \in 0..(t - 1) : tq = q * t /\ rest = tq + r
    BY <1>3, <1>4
  <1>6. (q + 1) * t = q * t + t
    BY <1>4
  <1>7. (q + 1) * t \in Nat /\ rest <= (q + 1) * t
    BY <1>5, <1>6
  <1> QED
    BY <1>1, <1>2, <1>3, <1>7, WindowAssumption

\* The arrivals T that are still within the window at an instant.
InWindow(T, at, now) == {j \in T : at[j] + Window > now}

\* A window's hits are the arrivals T, but for those popped off before.
Holds(hits, T, at, limit, now) ==
  \E before \in Nat : /\ before <= now
                      /\ Lists(hits, at, InWindow(T, at, before)) /\ Len(hits) <= limit

LEMMA LaterStillHolds ==
  ASSUME NEW hits, NEW T, NEW at, NEW limit, NEW now \in Nat, NEW later \in Nat, now <= later,
         Holds(hits, T, at, limit, now)
  PROVE  Holds(hits, T, at, limit, later)
  <1>1. PICK before \in Nat : /\ before <= now
                              /\ Lists(hits, at, InWindow(T, at, before)) /\ Len(hits) <= limit
    BY DEF Holds
  <1>2. before <= later
    BY <1>1
  <1> QED
    BY <1>1, <1>2 DEF Holds

\* What is left of a window when arrival k meets it.
LEMMA FreshAreWithin ==
  ASSUME NEW limit \in Nat, NEW at \in Seq(Nat), Sorted(at), NEW k \in 1..Len(at),
         NEW T \in SUBSET (1..(k - 1)), NEW hits, Holds(hits, T, at, limit, at[k]),
         NEW fresh, fresh = Fresh(hits, at[k])
  PROVE  /\ Lists(fresh, at, InWindow(T, at, at[k]))
         /\ Len(fresh) \in Nat /\ Len(fresh) <= limit
  <1>1. PICK now \in Nat : now = at[k]
    OBVIOUS
  <1>2. PICK before \in Nat : /\ before <= now
                              /\ Lists(hits, at, InWindow(T, at, before)) /\ Len(hits) <= limit
    BY <1>1 DEF Holds
  <1>3. PICK K : K = InWindow(T, at, before)
    OBVIOUS
  <1>4. K \in SUBSET (1..Len(at)) /\ Lists(hits, at, K) /\ hits \in Seq(Nat)
    <2>1. T \in SUBSET (1..Len(at))
      OBVIOUS
    <2> QED
      BY <1>2, <1>3, <2>1 DEF InWindow, Lists
  <1>5. {j \in K : at[j] + Window > now} = InWindow(T, at, now)
    <2>1. ASSUME NEW j \in T, at[j] + Window > now PROVE at[j] + Window > before
      <3>1. j \in 1..Len(at) /\ Window \in Nat
        BY WindowAssumption
      <3>2. PICK t \in Nat : t = at[j]
        BY <3>1
      <3>3. before <= now /\ t + Window > now
        BY <1>2, <2>1, <3>2
      <3>4. t + Window > before
        BY <3>1, <3>3
      <3> QED
        BY <3>2, <3>4
    <2>2. ASSUME NEW j PROVE (j \in K /\ at[j] + Window > now) <=> j \in InWindow(T, at, now)
      BY <1>3, <2>1 DEF InWindow
    <2>3. PICK L : L = {j \in K : at[j] + Window > now}
      OBVIOUS
    <2>4. \A j : j \in L <=> j \in InWindow(T, at, now)
      BY <2>2, <2>3
    <2>5. L = InWindow(T, at, now)
      BY <2>4, Zenon
    <2> QED
      BY <2>3, <2>5, Zenon
  <1>6. Lists(Fresh(hits, now), at, {j \in K : at[j] + Window > now})
    BY <1>4, FreshAreListed
  <1>7. PICK n \in 0..Len(hits) : Len(Fresh(hits, now)) = Len(hits) - n
    BY <1>4, FreshAreTheRest
  <1>8. Len(hits) \in Nat
    BY <1>4
  <1>9. Len(Fresh(hits, now)) \in Nat /\ Len(Fresh(hits, now)) <= limit
    BY <1>2, <1>7, <1>8
  <1>10. Lists(Fresh(hits, now), at, InWindow(T, at, now))
    BY <1>5, <1>6
  <1> QED
    BY <1>1, <1>4, <1>9, <1>10

\* A window that is full has room again when the wait it names is over.
LEMMA WaitMakesRoom ==
  ASSUME NEW limit \in Nat \ {0}, NEW at \in Seq(Nat), Sorted(at), NEW k \in 1..Len(at),
         NEW J \in SUBSET (1..(k - 1)), \A j \in J : at[j] + Window > at[k],
         NEW fresh, Lists(fresh, at, J), Len(fresh) = limit
  PROVE  Check(fresh, limit, at[k] + RetryAfter(fresh, at[k]) * Ticks).allowed
  <1>1. PICK now \in Nat : now = at[k]
    OBVIOUS
  <1>2. fresh \in Seq(Nat) /\ Len(fresh) \in Nat
    BY DEF Lists
  <1>3. 1 \in 1..Len(fresh)
    BY <1>2
  <1>4. PICK h \in Nat : h = fresh[1]
    BY <1>2, <1>3
  <1>5. h <= now /\ h + Window > now
    <2>1. PICK f : Orders(f, fresh, at, J)
      BY DEF Lists
    <2>2. PICK j \in J : j = f[1] /\ h = at[j]
      BY <1>3, <1>4, <2>1 DEF Orders
    <2>3. j \in 1..Len(at) /\ j <= k
      OBVIOUS
    <2>4. at[j] <= at[k]
      BY <2>3 DEF Sorted
    <2> QED
      BY <1>1, <2>2, <2>4
  <1>6. PICK wait : wait = RetryAfter(fresh, now) * Ticks
    OBVIOUS
  <1>7. wait \in Nat /\ h + Window <= now + wait
    BY <1>4, <1>5, <1>6, WaitIsLongEnough DEF RetryAfter
  <1>8. PICK later \in Nat : later = now + wait
    BY <1>7
  <1>9. PICK left : left = Fresh(fresh, later)
    OBVIOUS
  <1>10. PICK n \in 0..Len(fresh) : PoppedOff(fresh, later, n) /\ Len(left) = Len(fresh) - n
    BY <1>2, <1>9, FreshAreTheRest
  <1>11. n # 0
    <2>1. ASSUME n = 0 PROVE FALSE
      <3>1. h + Window > later
        BY <1>3, <1>4, <1>10, <2>1 DEF PoppedOff
      <3> QED
        BY <1>7, <1>8, <3>1, WindowAssumption
    <2> QED
      BY <2>1
  <1>12. Len(left) < limit /\ Len(left) \in Nat
    BY <1>2, <1>10, <1>11
  <1>13. PICK c : c = Check(fresh, limit, later)
    OBVIOUS
  <1>14. c.allowed
    BY <1>9, <1>12, <1>13, OneCheck
  <1> QED
    BY <1>1, <1>6, <1>8, <1>13, <1>14

\* What a window answers arrival k, and remembers of it.
LEMMA OneWindow ==
  ASSUME NEW limit \in Nat \ {0}, NEW at \in Seq(Nat), Sorted(at), NEW k \in 1..Len(at),
         NEW T \in SUBSET (1..(k - 1)), NEW hits, Holds(hits, T, at, limit, at[k]),
         NEW c, c = Check(hits, limit, at[k])
  PROVE  /\ c.allowed <=> Cardinality(InWindow(T, at, at[k])) < limit
         /\ c.allowed => Holds(c.hits, T \cup {k}, at, limit, at[k])
         /\ ~c.allowed => /\ Holds(c.hits, T, at, limit, at[k])
                          /\ Check(c.hits, limit, at[k] + c.retry * Ticks).allowed
  <1>1. PICK now \in Nat : now = at[k]
    OBVIOUS
  <1>2. PICK J : J = InWindow(T, at, now)
    OBVIOUS
  <1>3. /\ J \in SUBSET (1..(k - 1)) /\ J \in SUBSET Nat
        /\ \A j \in J : at[j] + Window > now
    <2>1. T \in SUBSET Nat
      OBVIOUS
    <2>2. \A j \in J : j \in T /\ at[j] + Window > now
      BY <1>2 DEF InWindow
    <2> QED
      BY <2>1, <2>2
  <1>4. PICK fresh : fresh = Fresh(hits, now)
    OBVIOUS
  <1>5. Lists(fresh, at, J) /\ Len(fresh) \in Nat /\ Len(fresh) <= limit
    BY <1>1, <1>2, <1>4, FreshAreWithin
  <1>6. Cardinality(J) = Len(fresh)
    BY <1>3, <1>5, ListedAreCounted
  <1>7. /\ c.allowed <=> Len(fresh) < limit
        /\ c.allowed => c.hits = Append(fresh, now)
        /\ ~c.allowed => c.hits = fresh /\ c.retry = RetryAfter(fresh, now)
    <2>1. c = Check(hits, limit, now)
      BY <1>1
    <2> QED
      BY <1>4, <1>5, <2>1, OneCheck, SMTT(60)
  <1>8. ASSUME c.allowed PROVE Holds(c.hits, T \cup {k}, at, limit, now)
    <2>1. InWindow(T \cup {k}, at, now) = J \cup {k}
      <3>1. at[k] + Window > now
        BY <1>1, WindowAssumption
      <3> QED
        BY <1>2, <3>1 DEF InWindow
    <2>2. PICK K : K = J \cup {k}
      OBVIOUS
    <2>3. Grows(J, k, K) /\ k \in Nat
      BY <2>2 DEF Grows
    <2>4. Lists(Append(fresh, now), at, K) /\ Len(Append(fresh, now)) = Len(fresh) + 1
      BY <1>1, <1>3, <1>5, <2>3, OneMoreIsListed
    <2>5. c.hits = Append(fresh, now) /\ Len(fresh) < limit
      BY <1>7, <1>8
    <2>6. Lists(c.hits, at, K)
      BY <2>4, <2>5
    <2>7. Len(c.hits) <= limit
      BY <1>5, <2>4, <2>5
    <2>8. Lists(c.hits, at, InWindow(T \cup {k}, at, now))
      BY <2>1, <2>2, <2>6
    <2> QED
      BY <2>7, <2>8 DEF Holds
  <1>9. ASSUME ~c.allowed
        PROVE  /\ Holds(c.hits, T, at, limit, now)
               /\ Check(c.hits, limit, now + c.retry * Ticks).allowed
    <2>1. c.hits = fresh /\ c.retry = RetryAfter(fresh, now) /\ Len(fresh) = limit
      BY <1>5, <1>7, <1>9
    <2>2. Check(fresh, limit, now + RetryAfter(fresh, now) * Ticks).allowed
      BY <1>1, <1>3, <1>5, <2>1, WaitMakesRoom
    <2>3. Holds(fresh, T, at, limit, now)
      BY <1>2, <1>5 DEF Holds
    <2> QED
      BY <2>1, <2>2, <2>3
  <1> QED
    BY <1>1, <1>2, <1>6, <1>7, <1>8, <1>9

\* What each request is answered, one after another.
AreAnswers(f, requests, limits, n) ==
  f = [k \in 0..n |-> IF k = 0 THEN Unasked(requests)
                      ELSE Hardening(f[k - 1].hits, limits, requests[k])]

LEMMA AnswersExist ==
  ASSUME NEW requests, NEW limits
  PROVE  \A n \in Nat : \E f : AreAnswers(f, requests, limits, n)
  <1> DEFINE S == {n \in Nat : \E f : AreAnswers(f, requests, limits, n)}
  <1>1. 0 \in S
    <2>1. PICK f : f = [k \in 0..0 |-> Unasked(requests)]
      OBVIOUS
    <2>2. AreAnswers(f, requests, limits, 0)
      BY <2>1 DEF AreAnswers
    <2> QED
      BY <2>2
  <1>2. ASSUME NEW n \in S PROVE n + 1 \in S
    <2>1. PICK f : AreAnswers(f, requests, limits, n)
      OBVIOUS
    <2>2. PICK g : g = [k \in 0..n + 1 |-> IF k = n + 1 THEN Hardening(f[n].hits, limits, requests[n + 1]) ELSE f[k]]
      OBVIOUS
    <2>3. \A k \in 0..n : g[k] = f[k]
      BY <2>2
    <2>4. ASSUME NEW k \in 0..n + 1
          PROVE  g[k] = IF k = 0 THEN Unasked(requests) ELSE Hardening(g[k - 1].hits, limits, requests[k])
      <3>1. CASE k = n + 1
        BY <2>2, <2>3, <3>1
      <3>2. CASE k \in 0..n
        <4>1. g[k] = f[k] /\ (k # 0 => g[k - 1] = f[k - 1])
          BY <2>3, <3>2
        <4> QED
          BY <2>1, <3>2, <4>1 DEF AreAnswers
      <3> QED
        BY <2>4, <3>1, <3>2
    <2>5. g = [k \in 0..n + 1 |-> g[k]]
      BY <2>2
    <2>6. AreAnswers(g, requests, limits, n + 1)
      BY <2>4, <2>5 DEF AreAnswers
    <2> QED
      BY <2>6
  <1> HIDE DEF S
  <1>3. S \in SUBSET Nat
    BY DEF S
  <1>4. S = Nat
    BY <1>1, <1>2, <1>3, SetInduction
  <1> QED
    BY <1>4 DEF S

LEMMA ChecksAreAnswers ==
  ASSUME NEW requests, Len(requests) \in Nat, NEW limits
  PROVE  AreAnswers(Checks(requests, limits), requests, limits, Len(requests))
  <1>1. PICK n \in Nat : n = Len(requests)
    OBVIOUS
  <1>2. \E f : f = [k \in 0..n |-> IF k = 0 THEN Unasked(requests)
                                   ELSE Hardening(f[k - 1].hits, limits, requests[k])]
    <2>1. PICK f : AreAnswers(f, requests, limits, n)
      BY AnswersExist
    <2> QED
      BY <2>1 DEF AreAnswers
  <1>3. Checks(requests, limits) = CHOOSE f : f = [k \in 0..n |->
          IF k = 0 THEN Unasked(requests)
          ELSE Hardening(f[k - 1].hits, limits, requests[k])]
    BY <1>1 DEF Checks
  <1> QED
    BY <1>1, <1>2, <1>3 DEF AreAnswers

LEMMA RequestsAre ==
  ASSUME NEW requests, AreRequests(requests)
  PROVE  /\ Len(requests) \in Nat
         /\ \A k \in 1..Len(requests) : requests[k].at \in Nat
  <1>1. PICK S : requests \in Seq(S) /\ \A r \in S : r.at \in Nat
    BY DEF AreRequests
  <1>2. Len(requests) \in Nat /\ \A k \in 1..Len(requests) : requests[k] \in S
    BY <1>1
  <1> QED
    BY <1>1, <1>2

LEMMA ArrivalsAreListed ==
  ASSUME NEW requests, AreRequests(requests)
  PROVE  /\ Arrivals(requests) \in Seq(Nat) /\ Len(Arrivals(requests)) = Len(requests)
         /\ \A k \in 1..Len(requests) : Arrivals(requests)[k] = requests[k].at
  <1>1. \A k \in 1..Len(requests) : requests[k].at \in Nat
    BY RequestsAre
  <1>2. PICK n \in Nat : n = Len(requests)
    BY RequestsAre
  <1>3. PICK at : at = [k \in 1..n |-> requests[k].at]
    OBVIOUS
  <1>4. at \in [1..n -> Nat]
    BY <1>1, <1>2, <1>3
  <1>5. at \in Seq(Nat) /\ Len(at) = n
    BY <1>4, SeqDef, LenProperties
  <1> QED
    BY <1>2, <1>3, <1>5 DEF Arrivals

Windows(requests) == {First(requests[k]) : k \in 1..Len(requests)}
                       \cup {Second(requests[k]) : k \in 1..Len(requests)}

\* The requests up to k that used up a place in w.
TakenBy(requests, answer, limits, k, w) ==
  {j \in 1..k : TookPlace(requests, answer, limits, j, w)}

\* Every window lists those that used up a place in it.
HitsHold(requests, answer, limits, k, now) ==
  /\ DOMAIN answer[k].hits = Windows(requests)
  /\ \A w \in Windows(requests) :
       limits[w[1]] # 0 =>
         Holds(answer[k].hits[w], TakenBy(requests, answer, limits, k, w),
               Arrivals(requests), limits[w[1]], now)

\* The promise to request k.
AnsweredTruly(requests, answer, limits, k) ==
  LET w == answer[k].by IN
  /\ answer[k].allowed <=>
       \A v \in Meets(requests[k]) : HasRoom(requests, answer, limits, k, v)
  /\ ~answer[k].allowed =>
       /\ w \in Meets(requests[k]) /\ ~HasRoom(requests, answer, limits, k, w)
       /\ Check(answer[k].hits[w], limits[w[1]],
                requests[k].at + answer[k].retry * Ticks).allowed

\* One window of the middleware, limited or not.
\* What a window makes of request k.
WindowIsExact(requests, answer, limits, k, w, limit, c) ==
  /\ c.allowed <=> HasRoom(requests, answer, limits, k, w)
  /\ c.allowed /\ limit # 0 =>
       Holds(c.hits, TakenBy(requests, answer, limits, k - 1, w) \cup {k},
             Arrivals(requests), limit, requests[k].at)
  /\ ~c.allowed =>
       /\ Holds(c.hits, TakenBy(requests, answer, limits, k - 1, w),
                Arrivals(requests), limit, requests[k].at)
       /\ Check(c.hits, limit, requests[k].at + c.retry * Ticks).allowed

LEMMA OneOfTheWindows ==
  ASSUME NEW requests, AreRequests(requests), Sorted(Arrivals(requests)), NEW limits, NEW answer,
         NEW k \in 1..Len(requests), NEW w, NEW limit \in Nat, limit = limits[w[1]],
         NEW hits,
         limit # 0 => Holds(hits, TakenBy(requests, answer, limits, k - 1, w),
                            Arrivals(requests), limit, requests[k].at),
         NEW c, c = Check(hits, limit, requests[k].at)
  PROVE  WindowIsExact(requests, answer, limits, k, w, limit, c)
  <1>1. CASE limit = 0
    <2>1. c = [allowed |-> TRUE, retry |-> 0, hits |-> hits]
      BY <1>1 DEF Check
    <2>2. c.allowed
      BY <2>1
    <2> QED
      BY <1>1, <2>2 DEF HasRoom, WindowIsExact
  <1>2. CASE limit # 0
    <2>1. PICK at : at = Arrivals(requests)
      OBVIOUS
    <2>2. at \in Seq(Nat) /\ Len(at) = Len(requests) /\ at[k] = requests[k].at
      BY <2>1, ArrivalsAreListed
    <2>3. PICK T : T = TakenBy(requests, answer, limits, k - 1, w)
      OBVIOUS
    <2>4. T \in SUBSET (1..(k - 1))
      BY <2>3 DEF TakenBy
    <2>5. InWindow(T, at, at[k]) = PlacesTaken(requests, answer, limits, k, w)
      <3>1. \A j \in 1..(k - 1) : at[j] = requests[j].at
        BY <2>1, ArrivalsAreListed
      <3>2. ASSUME NEW j PROVE j \in InWindow(T, at, at[k]) <=> j \in PlacesTaken(requests, answer, limits, k, w)
        BY <2>2, <2>3, <3>1 DEF InWindow, TakenBy, PlacesTaken
      <3> QED
        BY <3>2, Zenon
    <2>6. /\ c.allowed <=> Cardinality(InWindow(T, at, at[k])) < limit
          /\ c.allowed => Holds(c.hits, T \cup {k}, at, limit, at[k])
          /\ ~c.allowed => /\ Holds(c.hits, T, at, limit, at[k])
                           /\ Check(c.hits, limit, at[k] + c.retry * Ticks).allowed
      <3>1. limit \in Nat \ {0} /\ k \in 1..Len(at) /\ Sorted(at)
        BY <1>2, <2>1, <2>2
      <3>2. Holds(hits, T, at, limit, at[k]) /\ c = Check(hits, limit, at[k])
        BY <1>2, <2>1, <2>2, <2>3
      <3> QED
        BY <2>2, <2>4, <3>1, <3>2, OneWindow
    <2>7. HasRoom(requests, answer, limits, k, w) <=> Cardinality(InWindow(T, at, at[k])) < limit
      BY <1>2, <2>5 DEF HasRoom
    <2> QED
      BY <1>2, <2>1, <2>2, <2>3, <2>6, <2>7 DEF WindowIsExact
  <1> QED
    BY <1>1, <1>2

\* The answer a to request r, c and d being what its windows say.
PutTogether(a, r, hits, c, d) ==
  /\ c.allowed /\ MeetsSecond(r) =>
       /\ a.allowed = d.allowed /\ a.retry = d.retry /\ a.by = Second(r)
       /\ a.hits = [hits EXCEPT ![First(r)] = c.hits, ![Second(r)] = d.hits]
  /\ ~(c.allowed /\ MeetsSecond(r)) =>
       /\ a.allowed = c.allowed /\ a.retry = c.retry /\ a.by = First(r)
       /\ a.hits = [hits EXCEPT ![First(r)] = c.hits]

LEMMA HardeningsParts ==
  ASSUME NEW hits, NEW limits, NEW r, NEW a, a = Hardening(hits, limits, r),
         NEW c, c = Check(hits[First(r)], limits.ip, r.at),
         NEW d, d = Check(hits[Second(r)], limits[r.route], r.at)
  PROVE  PutTogether(a, r, hits, c, d)
  <1>1. CASE c.allowed /\ MeetsSecond(r)
    <2>1. a = [allowed |-> d.allowed, retry |-> d.retry, by |-> Second(r),
               hits |-> [hits EXCEPT ![First(r)] = c.hits, ![Second(r)] = d.hits]]
      BY <1>1, Zenon DEF Hardening
    <2> QED
      BY <1>1, <2>1 DEF PutTogether
  <1>2. CASE ~(c.allowed /\ MeetsSecond(r))
    <2>1. a = [allowed |-> c.allowed, retry |-> c.retry, by |-> First(r),
               hits |-> [hits EXCEPT ![First(r)] = c.hits]]
      BY <1>2, Zenon DEF Hardening
    <2> QED
      BY <1>2, <2>1 DEF PutTogether
  <1> QED
    BY <1>1, <1>2

\* One request: what the windows hold after it, and what it is answered.
LEMMA OneAnswer ==
  ASSUME NEW requests, AreRequests(requests), Sorted(Arrivals(requests)), NEW limits \in Limits,
         NEW answer, AreAnswers(answer, requests, limits, Len(requests)),
         NEW k \in 1..Len(requests),
         HitsHold(requests, answer, limits, k - 1, requests[k].at)
  PROVE  /\ HitsHold(requests, answer, limits, k, requests[k].at)
         /\ AnsweredTruly(requests, answer, limits, k)
  <1>1. PICK r : r = requests[k] /\ r.at \in Nat
    BY RequestsAre
  <1>2. PICK hits : hits = answer[k - 1].hits
    OBVIOUS
  <1>3. PICK a : a = answer[k]
    OBVIOUS
  <1>4. a = Hardening(hits, limits, r)
    <2>1. k \in 0..Len(requests) /\ k # 0
      OBVIOUS
    <2> QED
      BY <1>1, <1>2, <1>3, <2>1 DEF AreAnswers
  <1>5. PICK v : v = First(r)
    OBVIOUS
  <1>6. PICK w : w = Second(r)
    OBVIOUS
  <1>7. /\ v # w /\ v \in Windows(requests) /\ w \in Windows(requests)
        /\ limits[v[1]] = limits.ip /\ limits.ip \in Nat
        /\ MeetsSecond(r) => limits[w[1]] = limits[r.route] /\ limits[r.route] \in Nat
    <2>1. v \in Windows(requests) /\ w \in Windows(requests)
      BY <1>1, <1>5, <1>6 DEF Windows
    <2>2. v[1] = "ip" /\ w[1] = IF r.route = "chat" THEN "chat" ELSE "evals"
      BY <1>5, <1>6 DEF First, Second
    <2> QED
      BY <2>1, <2>2 DEF MeetsSecond, Limits
  <1>8. PICK c : c = Check(hits[v], limits.ip, r.at)
    OBVIOUS
  <1>9. PICK d : d = Check(hits[w], limits[r.route], r.at)
    OBVIOUS
  <1>10. /\ DOMAIN hits = Windows(requests)
         /\ \A u \in Windows(requests) : limits[u[1]] # 0 =>
              Holds(hits[u], TakenBy(requests, answer, limits, k - 1, u),
                    Arrivals(requests), limits[u[1]], r.at)
    BY <1>1, <1>2 DEF HitsHold
  <1>11. /\ c.allowed <=> HasRoom(requests, answer, limits, k, v)
         /\ c.allowed /\ limits.ip # 0 =>
              Holds(c.hits, TakenBy(requests, answer, limits, k - 1, v) \cup {k},
                    Arrivals(requests), limits.ip, r.at)
         /\ ~c.allowed =>
              /\ Holds(c.hits, TakenBy(requests, answer, limits, k - 1, v),
                       Arrivals(requests), limits.ip, r.at)
              /\ Check(c.hits, limits.ip, r.at + c.retry * Ticks).allowed
    <2>1. PICK limit \in Nat : limit = limits[v[1]] /\ limit = limits.ip
      BY <1>7
    <2>2. limit # 0 => Holds(hits[v], TakenBy(requests, answer, limits, k - 1, v),
                             Arrivals(requests), limit, requests[k].at)
      BY <1>1, <1>7, <1>10, <2>1
    <2>3. c = Check(hits[v], limit, requests[k].at)
      BY <1>1, <1>8, <2>1
    <2>4. PICK h : h = hits[v]
      OBVIOUS
    <2>5. WindowIsExact(requests, answer, limits, k, v, limit, c)
      <3>1. limit = limits[v[1]] /\ c = Check(h, limit, requests[k].at)
        BY <2>1, <2>3, <2>4
      <3>2. limit # 0 => Holds(h, TakenBy(requests, answer, limits, k - 1, v),
                               Arrivals(requests), limit, requests[k].at)
        BY <2>2, <2>4
      <3> QED
        BY <3>1, <3>2, OneOfTheWindows
    <2> QED
      BY <1>1, <2>1, <2>5 DEF WindowIsExact
  <1>12. MeetsSecond(r) =>
         /\ d.allowed <=> HasRoom(requests, answer, limits, k, w)
         /\ d.allowed /\ limits[r.route] # 0 =>
              Holds(d.hits, TakenBy(requests, answer, limits, k - 1, w) \cup {k},
                    Arrivals(requests), limits[r.route], r.at)
         /\ ~d.allowed =>
              /\ Holds(d.hits, TakenBy(requests, answer, limits, k - 1, w),
                       Arrivals(requests), limits[r.route], r.at)
              /\ Check(d.hits, limits[r.route], r.at + d.retry * Ticks).allowed
    <2> SUFFICES ASSUME MeetsSecond(r)
                 PROVE  /\ d.allowed <=> HasRoom(requests, answer, limits, k, w)
                        /\ d.allowed /\ limits[r.route] # 0 =>
                             Holds(d.hits, TakenBy(requests, answer, limits, k - 1, w) \cup {k},
                                   Arrivals(requests), limits[r.route], r.at)
                        /\ ~d.allowed =>
                             /\ Holds(d.hits, TakenBy(requests, answer, limits, k - 1, w),
                                      Arrivals(requests), limits[r.route], r.at)
                             /\ Check(d.hits, limits[r.route], r.at + d.retry * Ticks).allowed
      OBVIOUS
    <2>1. PICK limit \in Nat : limit = limits[w[1]] /\ limit = limits[r.route]
      BY <1>7
    <2>2. limit # 0 => Holds(hits[w], TakenBy(requests, answer, limits, k - 1, w),
                             Arrivals(requests), limit, requests[k].at)
      BY <1>1, <1>7, <1>10, <2>1
    <2>3. d = Check(hits[w], limit, requests[k].at)
      BY <1>1, <1>9, <2>1
    <2>4. PICK h : h = hits[w]
      OBVIOUS
    <2>5. WindowIsExact(requests, answer, limits, k, w, limit, d)
      <3>1. limit = limits[w[1]] /\ d = Check(h, limit, requests[k].at)
        BY <2>1, <2>3, <2>4
      <3>2. limit # 0 => Holds(h, TakenBy(requests, answer, limits, k - 1, w),
                               Arrivals(requests), limit, requests[k].at)
        BY <2>2, <2>4
      <3> QED
        BY <3>1, <3>2, OneOfTheWindows
    <2> QED
      BY <1>1, <2>1, <2>5 DEF WindowIsExact
  <1>13. ASSUME NEW u
         PROVE  TakenBy(requests, answer, limits, k, u) =
                  IF TookPlace(requests, answer, limits, k, u)
                  THEN TakenBy(requests, answer, limits, k - 1, u) \cup {k}
                  ELSE TakenBy(requests, answer, limits, k - 1, u)
    BY DEF TakenBy
  <1>14. TookPlace(requests, answer, limits, k, v) <=> limits.ip # 0 /\ (a.allowed \/ a.by # v)
    BY <1>1, <1>3, <1>5, <1>7 DEF TookPlace, Meets
  <1>15. TookPlace(requests, answer, limits, k, w) <=>
           MeetsSecond(r) /\ limits[r.route] # 0 /\ a.allowed
    BY <1>1, <1>3, <1>5, <1>6, <1>7 DEF TookPlace, Meets
  <1>16. \A u : u # v /\ u # w => ~TookPlace(requests, answer, limits, k, u)
    BY <1>1, <1>5, <1>6 DEF TookPlace, Meets
  <1>17. /\ AnsweredTruly(requests, answer, limits, k)
         /\ \A u \in Windows(requests) : limits[u[1]] # 0 =>
              Holds(a.hits[u], TakenBy(requests, answer, limits, k, u),
                    Arrivals(requests), limits[u[1]], r.at)
         /\ DOMAIN a.hits = Windows(requests)
    <2>1. CASE c.allowed /\ MeetsSecond(r)
      <3>1. /\ a.allowed = d.allowed /\ a.retry = d.retry /\ a.by = w
            /\ a.hits = [hits EXCEPT ![v] = c.hits, ![w] = d.hits]
        <4>1. c = Check(hits[First(r)], limits.ip, r.at) /\ d = Check(hits[Second(r)], limits[r.route], r.at)
          BY <1>5, <1>6, <1>8, <1>9
        <4>2. /\ a.allowed = d.allowed /\ a.retry = d.retry /\ a.by = Second(r)
              /\ a.hits = [hits EXCEPT ![First(r)] = c.hits, ![Second(r)] = d.hits]
          <5>1. PutTogether(a, r, hits, c, d)
            BY <1>4, <4>1, HardeningsParts
          <5> QED
            BY <2>1, <5>1 DEF PutTogether
        <4> QED
          BY <1>5, <1>6, <4>2
      <3>2. /\ a.hits[v] = c.hits /\ a.hits[w] = d.hits /\ DOMAIN a.hits = Windows(requests)
            /\ \A u \in Windows(requests) : u # v /\ u # w => a.hits[u] = hits[u]
        BY <1>7, <1>10, <3>1
      <3>3. ASSUME NEW u \in Windows(requests), limits[u[1]] # 0
            PROVE  Holds(a.hits[u], TakenBy(requests, answer, limits, k, u),
                         Arrivals(requests), limits[u[1]], r.at)
        <4>1. CASE u = v
          <5>1. TakenBy(requests, answer, limits, k, v) = TakenBy(requests, answer, limits, k - 1, v) \cup {k}
            BY <1>7, <1>13, <1>14, <3>1, <3>3, <4>1
          <5> QED
            BY <1>7, <1>11, <2>1, <3>2, <3>3, <4>1, <5>1
        <4>2. CASE u = w /\ d.allowed
          <5>1. TakenBy(requests, answer, limits, k, w) = TakenBy(requests, answer, limits, k - 1, w) \cup {k}
            BY <1>7, <1>13, <1>15, <2>1, <3>1, <3>3, <4>2
          <5> QED
            BY <1>7, <1>12, <2>1, <3>2, <3>3, <4>2, <5>1
        <4>3. CASE u = w /\ ~d.allowed
          <5>1. TakenBy(requests, answer, limits, k, w) = TakenBy(requests, answer, limits, k - 1, w)
            BY <1>13, <1>15, <3>1, <4>3
          <5> QED
            BY <1>7, <1>12, <2>1, <3>2, <4>3, <5>1
        <4>4. CASE u # v /\ u # w
          <5>1. TakenBy(requests, answer, limits, k, u) = TakenBy(requests, answer, limits, k - 1, u)
            BY <1>13, <1>16, <4>4
          <5> QED
            BY <1>10, <3>2, <3>3, <4>4, <5>1
        <4> QED
          BY <4>1, <4>2, <4>3, <4>4
      <3>4. AnsweredTruly(requests, answer, limits, k)
        <4>1. Meets(r) = {v, w}
          BY <1>5, <1>6, <2>1 DEF Meets
        <4>2. a.allowed <=> \A u \in Meets(r) : HasRoom(requests, answer, limits, k, u)
          BY <1>11, <1>12, <2>1, <3>1, <4>1
        <4>3. ASSUME ~a.allowed
              PROVE  /\ w \in Meets(r) /\ ~HasRoom(requests, answer, limits, k, w)
                     /\ Check(a.hits[w], limits[w[1]], r.at + a.retry * Ticks).allowed
          BY <1>7, <1>12, <2>1, <3>1, <3>2, <4>1, <4>3
        <4> QED
          BY <1>1, <1>3, <3>1, <4>2, <4>3 DEF AnsweredTruly
      <3> QED
        BY <3>2, <3>3, <3>4
    <2>2. CASE ~(c.allowed /\ MeetsSecond(r))
      <3>1. /\ a.allowed = c.allowed /\ a.retry = c.retry /\ a.by = v
            /\ a.hits = [hits EXCEPT ![v] = c.hits]
        <4>1. c = Check(hits[First(r)], limits.ip, r.at) /\ d = Check(hits[Second(r)], limits[r.route], r.at)
          BY <1>5, <1>6, <1>8, <1>9
        <4>2. /\ a.allowed = c.allowed /\ a.retry = c.retry /\ a.by = First(r)
              /\ a.hits = [hits EXCEPT ![First(r)] = c.hits]
          <5>1. PutTogether(a, r, hits, c, d)
            BY <1>4, <4>1, HardeningsParts
          <5> QED
            BY <2>2, <5>1 DEF PutTogether
        <4> QED
          BY <1>5, <1>6, <4>2
      <3>2. /\ a.hits[v] = c.hits /\ DOMAIN a.hits = Windows(requests)
            /\ \A u \in Windows(requests) : u # v => a.hits[u] = hits[u]
        BY <1>7, <1>10, <3>1
      <3>3. ASSUME NEW u \in Windows(requests), limits[u[1]] # 0
            PROVE  Holds(a.hits[u], TakenBy(requests, answer, limits, k, u),
                         Arrivals(requests), limits[u[1]], r.at)
        <4>1. CASE u = v /\ c.allowed
          <5>1. TakenBy(requests, answer, limits, k, v) = TakenBy(requests, answer, limits, k - 1, v) \cup {k}
            BY <1>7, <1>13, <1>14, <3>1, <3>3, <4>1
          <5> QED
            BY <1>7, <1>11, <3>2, <3>3, <4>1, <5>1
        <4>2. CASE u = v /\ ~c.allowed
          <5>1. TakenBy(requests, answer, limits, k, v) = TakenBy(requests, answer, limits, k - 1, v)
            BY <1>13, <1>14, <3>1, <4>2
          <5> QED
            BY <1>7, <1>11, <3>2, <4>2, <5>1
        <4>3. CASE u # v
          <5>1. ~TookPlace(requests, answer, limits, k, u)
            BY <1>15, <1>16, <2>2, <3>1, <4>3
          <5>2. TakenBy(requests, answer, limits, k, u) = TakenBy(requests, answer, limits, k - 1, u)
            BY <1>13, <5>1
          <5> QED
            BY <1>10, <3>2, <3>3, <4>3, <5>2
        <4> QED
          BY <4>1, <4>2, <4>3
      <3>4. AnsweredTruly(requests, answer, limits, k)
        <4>1. v \in Meets(r) /\ (c.allowed => Meets(r) = {v})
          BY <1>5, <2>2 DEF Meets
        <4>2. a.allowed <=> \A u \in Meets(r) : HasRoom(requests, answer, limits, k, u)
          BY <1>11, <3>1, <4>1
        <4>3. ASSUME ~a.allowed
              PROVE  /\ v \in Meets(r) /\ ~HasRoom(requests, answer, limits, k, v)
                     /\ Check(a.hits[v], limits[v[1]], r.at + a.retry * Ticks).allowed
          BY <1>7, <1>11, <3>1, <3>2, <4>1, <4>3
        <4> QED
          BY <1>1, <1>3, <3>1, <4>2, <4>3 DEF AnsweredTruly
      <3> QED
        BY <3>2, <3>3, <3>4
    <2> QED
      BY <2>1, <2>2
  <1>18. DOMAIN answer[k].hits = Windows(requests)
    <2>1. DOMAIN a.hits = Windows(requests)
      BY <1>17
    <2> QED
      BY <1>3, <2>1, Zenon
  <1>19. ASSUME NEW u \in Windows(requests), limits[u[1]] # 0
         PROVE  Holds(answer[k].hits[u], TakenBy(requests, answer, limits, k, u),
                      Arrivals(requests), limits[u[1]], requests[k].at)
    <2>1. Holds(a.hits[u], TakenBy(requests, answer, limits, k, u),
                Arrivals(requests), limits[u[1]], r.at)
      BY <1>17, <1>19
    <2> QED
      BY <1>1, <1>3, <2>1
  <1> QED
    BY <1>17, <1>18, <1>19 DEF HitsHold

LEMMA AllHitsHold ==
  ASSUME NEW requests, AreRequests(requests), Sorted(Arrivals(requests)), NEW limits \in Limits,
         NEW answer, AreAnswers(answer, requests, limits, Len(requests)),
         NEW k \in 1..Len(requests)
  PROVE  HitsHold(requests, answer, limits, k - 1, requests[k].at)
  <1>0. \A j \in 1..Len(requests) : requests[j].at \in Nat
    BY RequestsAre
  <1> DEFINE S == {n \in Nat : n + 1 \in 1..Len(requests) =>
                     HitsHold(requests, answer, limits, n, requests[n + 1].at)}
  <1>1. 0 \in S
    <2> SUFFICES ASSUME 0 + 1 \in 1..Len(requests)
                 PROVE  HitsHold(requests, answer, limits, 0, requests[0 + 1].at)
      OBVIOUS
    <2>1. answer[0].hits = [w \in Windows(requests) |-> <<>>]
      <3>1. 0 \in 0..Len(requests)
        OBVIOUS
      <3>2. answer[0] = Unasked(requests)
        BY <3>1 DEF AreAnswers
      <3> QED
        BY <3>2 DEF Unasked, Windows
    <2>2. ASSUME NEW w \in Windows(requests), limits[w[1]] # 0, NEW now \in Nat
          PROVE  Holds(<<>>, TakenBy(requests, answer, limits, 0, w),
                       Arrivals(requests), limits[w[1]], now)
      <3>1. InWindow(TakenBy(requests, answer, limits, 0, w), Arrivals(requests), 0) = {}
        BY DEF TakenBy, InWindow
      <3>2. <<>> \in Seq(Nat) /\ Len(<<>>) = 0
        OBVIOUS
      <3>3. PICK f : f = [i \in 1..0 |-> 0]
        OBVIOUS
      <3>4. f \in [1..0 -> {}]
        BY <3>3
      <3>5. Orders(f, <<>>, Arrivals(requests), {})
        BY <3>2, <3>4 DEF Orders
      <3>6. Lists(<<>>, Arrivals(requests), {})
        BY <3>2, <3>5 DEF Lists
      <3>7. limits[w[1]] \in Nat
        <4>1. w[1] \in {"ip", "chat", "evals"}
          BY DEF Windows, First, Second
        <4> QED
          BY <4>1 DEF Limits
      <3>8. Len(<<>>) <= limits[w[1]] /\ 0 <= now
        BY <3>2, <3>7
      <3> QED
        BY <3>1, <3>6, <3>8 DEF Holds
    <2>3. requests[0 + 1].at \in Nat
      BY <1>0
    <2> QED
      BY <2>1, <2>2, <2>3 DEF HitsHold
  <1>2. ASSUME NEW n \in S PROVE n + 1 \in S
    <2> SUFFICES ASSUME (n + 1) + 1 \in 1..Len(requests)
                 PROVE  HitsHold(requests, answer, limits, n + 1, requests[(n + 1) + 1].at)
      OBVIOUS
    <2>1. PICK m \in 1..Len(requests) : m = n + 1
      OBVIOUS
    <2>2. m - 1 = n /\ m + 1 \in 1..Len(requests)
      BY <2>1
    <2>3. HitsHold(requests, answer, limits, m - 1, requests[m].at)
      BY <2>1, <2>2
    <2>4. HitsHold(requests, answer, limits, m, requests[m].at)
      BY <2>3, OneAnswer
    <2>5. requests[m].at <= requests[m + 1].at
      <3>1. /\ Len(Arrivals(requests)) = Len(requests)
            /\ Arrivals(requests)[m] = requests[m].at /\ Arrivals(requests)[m + 1] = requests[m + 1].at
        BY <2>2, ArrivalsAreListed
      <3> QED
        BY <2>2, <3>1 DEF Sorted
    <2>6. requests[m].at \in Nat /\ requests[m + 1].at \in Nat
      BY <1>0, <2>2
    <2>7. HitsHold(requests, answer, limits, m, requests[m + 1].at)
      BY <2>4, <2>5, <2>6, LaterStillHolds DEF HitsHold
    <2> QED
      BY <2>1, <2>7
  <1>3. S = Nat
    <2> HIDE DEF S
    <2>1. S \in SUBSET Nat
      BY DEF S
    <2> QED
      BY <1>1, <1>2, <2>1, SetInduction
  <1>4. k - 1 \in S /\ (k - 1) + 1 = k
    <2> HIDE DEF S
    <2> QED
      BY <1>3
  <1> QED
    BY <1>4

(* The middleware's windows are exact for requests of any number, from any  *)
(* addresses, of any routes, at any times that never go back, under any     *)
(* limits: a request is let in exactly if every window it meets has room,   *)
(* and a window that refuses one has room when the wait it named is over    *)
(* and nobody came to it in between.                                        *)
THEOREM LimiterIsExact ==
  ASSUME NEW requests, AreRequests(requests), Sorted(Arrivals(requests)), NEW limits \in Limits,
         NEW k \in 1..Len(requests), NEW answer, answer = Checks(requests, limits)
  PROVE  AnsweredTruly(requests, answer, limits, k)
  <1>1. AreAnswers(answer, requests, limits, Len(requests))
    BY ChecksAreAnswers, RequestsAre
  <1> QED
    BY <1>1, AllHitsHold, OneAnswer

LEMMA LimiterIsPut ==
  ASSUME LimiterPut(asked), AskLimiter \/ AnotherArrives
  PROVE  LimiterPut(asked')
  <1>0. \A caller \in Comers, t \in Nat : Coming(caller, t).at = t
    BY DEF Coming
  <1>1. CASE AskLimiter
    <2>1. PICK ip \in 1..2, chat \in 0..2, caller \in Comers :
            Ask("limiter", [limits |-> [ip |-> ip, chat |-> chat, evals |-> 1],
                            requests |-> <<Coming(caller, 0)>>])
      BY <1>1 DEF AskLimiter
    <2>2. PICK r : r = Coming(caller, 0) /\ r.at = 0
      BY <1>0
    <2>3. /\ asked'.in.limits = [ip |-> ip, chat |-> chat, evals |-> 1]
          /\ asked'.in.requests = <<r>>
      BY <2>1, <2>2 DEF Ask
    <2>4. asked'.in.limits \in Limits
      BY <2>3 DEF Limits
    <2>5. AreRequests(asked'.in.requests) /\ Len(asked'.in.requests) = 1
      <3>1. PICK rs : rs = <<r>>
        OBVIOUS
      <3>2. rs \in Seq({r}) /\ Len(rs) = 1 /\ \A q \in {r} : q.at \in Nat
        BY <2>2, <3>1
      <3>3. AreRequests(rs)
        BY <3>2 DEF AreRequests
      <3> QED
        BY <2>3, <3>1, <3>2, <3>3
    <2>6. Sorted(Arrivals(asked'.in.requests))
      <3>1. Arrivals(<<r>>) = [k \in 1..1 |-> 0]
        BY <2>2 DEF Arrivals
      <3> QED
        BY <2>3, <3>1 DEF Sorted
    <2> QED
      BY <2>4, <2>5, <2>6 DEF LimiterPut
  <1>2. CASE AnotherArrives
    <2>1. PICK rs : rs = asked.in.requests
      OBVIOUS
    <2>2. /\ AreRequests(rs) /\ Len(rs) > 0 /\ Sorted(Arrivals(rs))
          /\ asked.in.limits \in Limits
      BY <1>2, <2>1 DEF AnotherArrives, LimiterPut
    <2>3. PICK gap \in {0, 1, 3, 4}, caller \in Comers :
            Ask("limiter", [limits |-> asked.in.limits,
                            requests |-> Append(rs, Coming(caller, rs[Len(rs)].at + gap))])
      BY <1>2, <2>1 DEF AnotherArrives
    <2>4. PICK n \in Nat \ {0} : n = Len(rs)
      BY <2>2, RequestsAre
    <2>5. rs[n].at \in Nat
      BY <2>2, <2>4, RequestsAre
    <2>6. PICK r : r = Coming(caller, rs[n].at + gap) /\ r.at = rs[n].at + gap
      BY <1>0, <2>5
    <2>7. PICK more : more = Append(rs, r)
      OBVIOUS
    <2>8. /\ AreRequests(more) /\ Len(more) = n + 1 /\ more[n + 1] = r
          /\ \A i \in 1..n : more[i] = rs[i]
      <3>1. PICK S : rs \in Seq(S) /\ \A q \in S : q.at \in Nat
        BY <2>2 DEF AreRequests
      <3>2. PICK T : T = S \cup {r}
        OBVIOUS
      <3>3. rs \in Seq(T) /\ r \in T /\ \A q \in T : q.at \in Nat
        BY <2>5, <2>6, <3>1, <3>2
      <3>4. /\ more \in Seq(T) /\ Len(more) = n + 1 /\ more[n + 1] = r
            /\ \A i \in 1..n : more[i] = rs[i]
        BY <2>4, <2>7, <3>3, AppendProperties
      <3> QED
        BY <3>3, <3>4 DEF AreRequests
    <2>9. /\ Arrivals(rs) \in Seq(Nat) /\ Len(Arrivals(rs)) = n /\ \A i \in 1..n : Arrivals(rs)[i] = rs[i].at
          /\ Arrivals(more) \in Seq(Nat) /\ Len(Arrivals(more)) = n + 1
          /\ \A i \in 1..(n + 1) : Arrivals(more)[i] = more[i].at
      BY <2>2, <2>4, <2>8, ArrivalsAreListed
    <2>10. Sorted(Arrivals(more))
      <3>1. ASSUME NEW i \in 1..(n + 1), NEW j \in 1..(n + 1), i <= j
            PROVE  Arrivals(more)[i] <= Arrivals(more)[j]
        <4>1. CASE j = n + 1 /\ i # n + 1
          <5>1. i \in 1..n /\ n \in 1..n
            BY <4>1
          <5>2. rs[i].at <= rs[n].at
            BY <2>2, <2>9, <5>1 DEF Sorted
          <5>3. Arrivals(more)[i] = rs[i].at /\ Arrivals(more)[j] = rs[n].at + gap
            BY <2>6, <2>8, <2>9, <4>1, <5>1
          <5>4. rs[i].at \in Nat
            BY <2>2, <2>4, <5>1, RequestsAre
          <5> QED
            BY <2>5, <5>2, <5>3, <5>4
        <4>2. CASE j = n + 1 /\ i = n + 1
          BY <2>9, <4>2
        <4>3. CASE j # n + 1
          <5>1. i \in 1..n /\ j \in 1..n
            BY <3>1, <4>3
          <5>2. Arrivals(rs)[i] <= Arrivals(rs)[j]
            BY <2>2, <2>9, <3>1, <5>1 DEF Sorted
          <5>3. Arrivals(more)[i] = Arrivals(rs)[i] /\ Arrivals(more)[j] = Arrivals(rs)[j]
            BY <2>8, <2>9, <5>1
          <5> QED
            BY <5>2, <5>3
        <4> QED
          BY <4>1, <4>2, <4>3
      <3> QED
        BY <2>9, <3>1 DEF Sorted
    <2>11. asked'.in.limits = asked.in.limits /\ asked'.in.requests = more
      BY <2>3, <2>4, <2>6, <2>7 DEF Ask
    <2> QED
      BY <2>2, <2>4, <2>8, <2>10, <2>11 DEF LimiterPut
  <1> QED
    BY <1>1, <1>2

LEMMA PromisesAreKept == LimiterPut(asked) => LimiterKeepsItsPromise
  <1> SUFFICES ASSUME LimiterPut(asked), asked.about = "limiter" PROVE LimiterKeepsItsPromise
    BY DEF LimiterKeepsItsPromise
  <1> DEFINE requests == asked.in.requests
             limits == asked.in.limits
             answer == Checks(requests, limits)
  <1>1. limits \in Limits /\ AreRequests(requests) /\ Sorted(Arrivals(requests))
    BY DEF LimiterPut
  <1>2. ASSUME NEW k \in 1..Len(requests) PROVE AnsweredTruly(requests, answer, limits, k)
    <2>1. answer = Checks(requests, limits)
      OBVIOUS
    <2> HIDE DEF requests, limits, answer
    <2> QED
      BY <1>1, <2>1, LimiterIsExact
  <1> QED
    BY <1>2, Zenon DEF LimiterKeepsItsPromise, AnsweredTruly

-----------------------------------------------------------------------------
(* The lifecycle jobs.                                                      *)

\* What the rows of the questions say.
Texts == [subject : {"tea", "rice"}, denied : BOOLEAN]

Sayable == {"floor", "low", "normal", "preference"} \cup Texts

\* The questions about the lifecycle jobs.
JobsPut(q) ==
  q.about = "jobs" =>
    \E k1 \in Kinds, k2 \in Notable, ctx \in Contexts, job \in ToSet(DefaultJobOrder) :
      \E race \in Races(k1), fault \in 0..MaxFaultyCall :
        /\ race.when = "listing" => fault # 1
        /\ q.in = [rows |-> [m1 |-> k1, m2 |-> k2], ctx |-> ctx, job |-> job, race |-> race,
                   out |-> RunOneJob(job, ctx, race, Order, Work([m1 |-> k1, m2 |-> k2], fault))]

LEMMA JobsIsPut ==
  ASSUME AskJobs
  PROVE  JobsPut(asked')
  <1> DEFINE Question(k1, k2, ctx, job, race, fault) ==
               [rows |-> [m1 |-> k1, m2 |-> k2], ctx |-> ctx, job |-> job, race |-> race,
                out |-> RunOneJob(job, ctx, race, Order, Work([m1 |-> k1, m2 |-> k2], fault))]
  <1>0. PICK k1 \in Kinds, k2 \in Notable, ctx \in Contexts, job \in ToSet(DefaultJobOrder) :
          \E race \in Races(k1), fault \in 0..MaxFaultyCall :
            /\ ctx.dry => fault = 0
            /\ race.when = "commit" => job = "deletion_compaction"
            /\ race.when = "listing" => fault # 1
            /\ Ask("jobs", Question(k1, k2, ctx, job, race, fault))
    BY ZenonT(30) DEF AskJobs
  <1>1. PICK race \in Races(k1), fault \in 0..MaxFaultyCall :
          /\ race.when = "listing" => fault # 1
          /\ Ask("jobs", Question(k1, k2, ctx, job, race, fault))
    BY <1>0, Zenon
  <1>2. PICK in : in = [rows |-> [m1 |-> k1, m2 |-> k2], ctx |-> ctx, job |-> job, race |-> race,
                        out |-> RunOneJob(job, ctx, race, Order, Work([m1 |-> k1, m2 |-> k2], fault))]
    OBVIOUS
  <1>3. asked'.in = in
    BY <1>1, <1>2 DEF Ask
  <1> QED
    BY <1>1, <1>2, <1>3, Zenon DEF JobsPut

LEMMA RowsOfKinds ==
  ASSUME NEW row \in Kinds
  PROVE  row \in Row(Sayable) /\ (row.cleared => row.status = "deleted")
  <1>1. [subject |-> "tea", denied |-> FALSE] \in Texts
    BY DEF Texts
  <1>2. Usual \in Row(Sayable) /\ ~Usual.cleared
    BY <1>1 DEF Usual, Row, RowStatuses, Sayable
  <1>3. Gone \in Row(Sayable) /\ Gone.status = "deleted" /\ ~Gone.cleared
    BY <1>2 DEF Gone, Row, RowStatuses
  <1>4. [Usual EXCEPT !.text.denied = TRUE, !.importance = "low"] \in Row(Sayable)
        /\ ~[Usual EXCEPT !.text.denied = TRUE, !.importance = "low"].cleared
    <2>1. [Usual.text EXCEPT !.denied = TRUE] \in Texts
      BY DEF Usual, Texts
    <2> QED
      BY <1>2, <2>1 DEF Row, Sayable
  <1>5. [Usual EXCEPT !.text.subject = "rice"] \in Row(Sayable) /\ ~[Usual EXCEPT !.text.subject = "rice"].cleared
    <2>1. [Usual.text EXCEPT !.subject = "rice"] \in Texts
      BY DEF Usual, Texts
    <2> QED
      BY <1>2, <2>1 DEF Row, Sayable
  <1>6. "floor" \in Sayable /\ "low" \in Sayable
    BY DEF Sayable
  <1>7. row \in Notable => row \in Row(Sayable) /\ ~row.cleared
    <2>1. /\ [Usual EXCEPT !.held = TRUE, !.due = "expired"] \in Row(Sayable)
          /\ [Usual EXCEPT !.due = "expired"] \in Row(Sayable) /\ [Gone EXCEPT !.held = TRUE] \in Row(Sayable)
      BY <1>2, <1>3 DEF Row
    <2>2. /\ ~[Usual EXCEPT !.held = TRUE, !.due = "expired"].cleared
          /\ ~[Usual EXCEPT !.due = "expired"].cleared /\ ~[Gone EXCEPT !.held = TRUE].cleared
      BY <1>2, <1>3 DEF Row
    <2> QED
      BY <1>2, <1>3, <1>4, <2>1, <2>2, Zenon DEF Notable
  <1>8. row \notin Notable => row \in Row(Sayable) /\ (row.cleared => row.status = "deleted")
    <2>1. /\ [Usual EXCEPT !.exempt = TRUE] \in Row(Sayable) /\ [Usual EXCEPT !.aged = FALSE] \in Row(Sayable)
          /\ [Usual EXCEPT !.recent = TRUE] \in Row(Sayable) /\ [Usual EXCEPT !.decayed = TRUE] \in Row(Sayable)
          /\ [Usual EXCEPT !.importance = "floor"] \in Row(Sayable)
      BY <1>2, <1>6 DEF Row
    <2>2. /\ [Usual EXCEPT !.due = "consent_revoked"] \in Row(Sayable)
          /\ [Usual EXCEPT !.status = "archived"] \in Row(Sayable)
          /\ [Gone EXCEPT !.aged = FALSE] \in Row(Sayable) /\ [Gone EXCEPT !.cleared = TRUE] \in Row(Sayable)
      BY <1>2, <1>3 DEF Row, RowStatuses
    <2>3. \/ row \in Notable
          \/ row \in {[Usual EXCEPT !.exempt = TRUE], [Usual EXCEPT !.aged = FALSE], [Usual EXCEPT !.recent = TRUE],
                     [Usual EXCEPT !.importance = "floor"], [Usual EXCEPT !.decayed = TRUE],
                     [Usual EXCEPT !.due = "consent_revoked"], [Usual EXCEPT !.text.subject = "rice"],
                     [Usual EXCEPT !.status = "archived"], [Gone EXCEPT !.aged = FALSE],
                     [Gone EXCEPT !.cleared = TRUE]}
      BY Zenon DEF Kinds
    <2>4. row \notin Notable => row \in Row(Sayable)
      BY <1>5, <2>1, <2>2, <2>3
    <2>5. row \notin Notable => row = [Gone EXCEPT !.cleared = TRUE] \/ ~row.cleared
      BY <1>2, <1>3, <1>5, <2>3 DEF Row
    <2>6. [Gone EXCEPT !.cleared = TRUE].status = "deleted"
      BY <1>3 DEF Row
    <2> QED
      BY <2>4, <2>5, <2>6
  <1> QED
    BY <1>7, <1>8

LEMMA RacesAre ==
  ASSUME NEW k1 \in Kinds, NEW k2, NEW race \in Races(k1), NEW rows, rows = [m1 |-> k1, m2 |-> k2]
  PROVE  /\ race \in RacesOn({"m1", "m2"}, Sayable, rows) /\ race.on = "m1"
         /\ \A fault \in Nat : (race.when = "listing" => fault # 1) => PlainRace(race, rows, fault)
  <1>1. k1 \in Row(Sayable) /\ rows["m1"] = k1
    BY RowsOfKinds
  <1>2. ASSUME NEW st \in {"active", "deleted"}, NEW row, row = [k1 EXCEPT !.status = st, !.cleared = FALSE]
        PROVE  /\ row \in Row(Sayable) /\ row.held = k1.held /\ ~row.cleared
               /\ row.decayed = k1.decayed /\ row.status # "archived"
    BY <1>1, <1>2 DEF Row, RowStatuses
  <1>3. \/ race = [when |-> "never", on |-> "m1", row |-> k1]
        \/ \E st \in {"active", "deleted"} :
             race = [when |-> "listing", on |-> "m1", row |-> [k1 EXCEPT !.status = st, !.cleared = FALSE]]
        \/ race = [when |-> "commit", on |-> "m1", row |-> [k1 EXCEPT !.status = "active", !.cleared = FALSE]]
    BY DEF Races
  <1> QED
    BY <1>1, <1>2, <1>3 DEF RacesOn, PlainRace

\* The questions put are among those of JobsProveTheirPurges.
LEMMA PurgesProve ==
  ASSUME JobsPut(asked)
  PROVE  PurgesAreProved
  <1> SUFFICES ASSUME asked.about = "jobs" PROVE PurgesAreProved
    BY DEF PurgesAreProved
  <1>0. PICK k1 \in Kinds, k2 \in Notable, ctx \in Contexts, job \in ToSet(DefaultJobOrder) :
          \E race \in Races(k1), fault \in 0..MaxFaultyCall :
             /\ race.when = "listing" => fault # 1
             /\ asked.in = [rows |-> [m1 |-> k1, m2 |-> k2], ctx |-> ctx, job |-> job, race |-> race,
                           out |-> RunOneJob(job, ctx, race, Order, Work([m1 |-> k1, m2 |-> k2], fault))]
    BY DEF JobsPut
  <1>1. PICK race \in Races(k1), fault \in 0..MaxFaultyCall :
             /\ race.when = "listing" => fault # 1
             /\ asked.in = [rows |-> [m1 |-> k1, m2 |-> k2], ctx |-> ctx, job |-> job, race |-> race,
                           out |-> RunOneJob(job, ctx, race, Order, Work([m1 |-> k1, m2 |-> k2], fault))]
    BY <1>0
  <1> DEFINE M == {"m1", "m2"}
  <1>2. PICK rows : rows = [m1 |-> k1, m2 |-> k2]
    OBVIOUS
  <1>3. PICK out : out = RunOneJob(job, ctx, race, Order, Work(rows, fault))
    OBVIOUS
  <1>4. asked.in.rows = rows /\ asked.in.out = out
    BY <1>1, <1>2, <1>3
  <1>5. k2 \in Kinds
    BY DEF Kinds
  <1>6. rows \in [M -> Row(Sayable)] /\ \A m \in M : rows[m].cleared => rows[m].status = "deleted"
    BY <1>2, <1>5, RowsOfKinds
  <1>7. race \in RacesOn(M, Sayable, rows)
    BY <1>2, RacesAre
  <1>8. Order \in Seq(M) /\ Covers(Order, M)
    BY DEF Order, Covers
  <1>9. job \in Jobs
    BY DEF ToSet, DefaultJobOrder, Jobs
  <1>10. fault \in Nat
    OBVIOUS
  <1>11. /\ SoundWork(M, Sayable, rows, out.work)
         /\ out.attempts = 1 /\ out.work.status # "failed" => JobVerdict(M, rows, out.work)
    BY <1>3, <1>6, <1>7, <1>8, <1>9, <1>10, JobsProveTheirPurges
  <1>12. PICK w : w = out.work
    OBVIOUS
  <1>13. Worked = w /\ After = w.rows /\ DOMAIN After = M
    BY <1>4, <1>11, <1>12 DEF Worked, After, SoundWork, SoundRows
  <1>14. \A a, m : Told(a, m) <=> Tells(w, a, m)
    BY <1>13 DEF Told, Tells, EventsIn
  <1>15. AtOnce => JobVerdict(M, rows, w)
    BY <1>4, <1>11, <1>12, <1>13 DEF AtOnce
  <1>16. \A m \in M : /\ Told("memory_vector_purge_verified", m) => After[m].cleared
                      /\ After[m].cleared => After[m].status = "deleted" /\ ~(rows[m].held /\ ~rows[m].cleared)
    BY <1>11, <1>12, <1>13, <1>14 DEF SoundWork, SoundRows
  <1>17. \A m \in M : AtOnce /\ Told("deletion_verification_passed", "none") /\ rows[m].status = "deleted"
                        => ~Reachable(After[m])
    BY <1>13, <1>14, <1>15 DEF JobVerdict
  <1>18. \A m \in M : Told("memory_content_compacted", m) /\ After[m].status = "deleted"
                        => DeletionProof(After[m], Worked.trail, m)
    <2> SUFFICES ASSUME NEW m \in M, Told("memory_content_compacted", m), After[m].status = "deleted"
                 PROVE  DeletionProof(After[m], Worked.trail, m)
      OBVIOUS
    <2>1. PICK e \in ToSet(Worked.trail) : e.action = "memory_content_compacted" /\ e.memory = m
      BY DEF Told
    <2>2. e.action \in DeletionActions
      BY <2>1 DEF DeletionActions
    <2> QED
      BY <2>1, <2>2 DEF DeletionProof, Reachable
  <1>19. \A m \in M : AtOnce /\ Told("memory_content_compacted", m)
                        => Told("memory_vector_purge_verified", m) \/ Told("memory_vector_purge_failed", m)
    <2>1. AtOnce => \A m \in M : Tells(w, "memory_content_compacted", m) =>
              \/ Tells(w, "memory_vector_purge_verified", m)
              \/ Tells(w, "memory_vector_purge_failed", m)
      BY <1>15 DEF JobVerdict, FindingsTold
    <2> QED
      BY <1>14, <2>1
  <1>20. AtOnce => (Worked.status = "completed_with_findings"
                     <=> \E m \in M : Told("memory_vector_purge_failed", m)
                                     \/ Told("deletion_verification_failed", m))
    <2>1. AtOnce => (w.status = "completed_with_findings"
                      <=> \E m \in M : Tells(w, "memory_vector_purge_failed", m)
                                      \/ Tells(w, "deletion_verification_failed", m))
      BY <1>15 DEF JobVerdict, FindingsTold
    <2> QED
      BY <1>13, <1>14, <2>1
  <1> HIDE DEF M
  <1> QED
    BY <1>4, <1>13, <1>16, <1>17, <1>18, <1>19, <1>20 DEF PurgesAreProved

\* And of JobsBooksAreTrue.
LEMMA BooksAreKept ==
  ASSUME JobsPut(asked)
  PROVE  JobsKeepTheirBooks
  <1> SUFFICES ASSUME asked.about = "jobs" PROVE JobsKeepTheirBooks
    BY DEF JobsKeepTheirBooks
  <1>0. PICK k1 \in Kinds, k2 \in Notable, ctx \in Contexts, job \in ToSet(DefaultJobOrder) :
          \E race \in Races(k1), fault \in 0..MaxFaultyCall :
             /\ race.when = "listing" => fault # 1
             /\ asked.in = [rows |-> [m1 |-> k1, m2 |-> k2], ctx |-> ctx, job |-> job, race |-> race,
                           out |-> RunOneJob(job, ctx, race, Order, Work([m1 |-> k1, m2 |-> k2], fault))]
    BY DEF JobsPut
  <1>1. PICK race \in Races(k1), fault \in 0..MaxFaultyCall :
             /\ race.when = "listing" => fault # 1
             /\ asked.in = [rows |-> [m1 |-> k1, m2 |-> k2], ctx |-> ctx, job |-> job, race |-> race,
                           out |-> RunOneJob(job, ctx, race, Order, Work([m1 |-> k1, m2 |-> k2], fault))]
    BY <1>0
  <1> DEFINE M == {"m1", "m2"}
  <1>2. PICK rows : rows = [m1 |-> k1, m2 |-> k2]
    OBVIOUS
  <1>3. PICK out : out = RunOneJob(job, ctx, race, Order, Work(rows, fault))
    OBVIOUS
  <1>4. /\ asked.in.rows = rows /\ asked.in.out = out /\ asked.in.race = race
        /\ asked.in.job = job /\ asked.in.ctx = ctx
    BY <1>1, <1>2, <1>3
  <1>5. k2 \in Kinds
    BY DEF Kinds
  <1>6. rows \in [M -> Row(Sayable)] /\ \A m \in M : rows[m].cleared => rows[m].status = "deleted"
    BY <1>2, <1>5, RowsOfKinds
  <1>7. race \in RacesOn(M, Sayable, rows) /\ race.on = "m1" /\ PlainRace(race, rows, fault)
    BY <1>1, <1>2, RacesAre
  <1>8. IsOrder(M, Order) /\ Covers(Order, M)
    BY DEF Order, Covers, IsOrder
  <1>9. job \in Jobs /\ fault \in Nat
    BY DEF ToSet, DefaultJobOrder, Jobs
  <1>10. PICK raced : raced = RacedRows(race, rows)
    OBVIOUS
  <1>11. PICK again : again = RunOneJob(job, ctx, [race EXCEPT !.when = "never"], Order, Work(out.work.rows, 0))
    OBVIOUS
  <1>12. PICK w : w = out.work
    OBVIOUS
  <1>13. /\ w \in OwnTold(M, Sayable, OwnDeeds(job))
         /\ race.when # "commit" /\ ~JobPreview(job, ctx) => w \in Books(M, Sayable, job, raced)
         /\ JobPreview(job, ctx) => w.rows = raced
         /\ out.attempts = 1 /\ w.status # "failed" =>
              /\ ~w.raised /\ w \in Booked(M, Sayable)
              /\ job \in Mutating /\ ~JobPreview(job, ctx) =>
                   /\ w \in Owing(M, Sayable, 0, 0)
                   /\ race.when = "never" => again.work.rows = w.rows /\ again.work.count["changed"] = 0
    BY <1>3, <1>6, <1>7, <1>8, <1>9, <1>10, <1>11, <1>12, JobsBooksAreTrue
  <1>14. Worked = w /\ After = w.rows /\ DOMAIN After = M
    BY <1>4, <1>12, <1>13 DEF Worked, After, OwnTold, WorkOf
  <1>15. \A m : \A a \in DeedActs : Told(a, m) <=> a \in ToldOf(w, m)
    BY <1>14 DEF Told, ToldOf, Tells, EventsIn
  <1>16. \A m : Forgotten(m) <=> ToldOf(w, m) \cap ForgetActs # {}
    BY <1>15 DEF Forgotten, DeedActs, ForgetActs
  <1>17. (Preview <=> JobPreview(job, ctx)) /\ (AtOnce <=> out.attempts = 1 /\ w.status # "failed")
    BY <1>4, <1>14 DEF Preview, JobPreview, AtOnce
  <1>18. raced = IF race.when = "listing" THEN [rows EXCEPT !["m1"] = race.row] ELSE rows
    BY <1>7, <1>10 DEF RacedRows
  <1>19. ASSUME race.when # "commit", ~Preview, NEW m \in M
         PROVE  /\ Told("memory_decay_applied", m) <=> After[m].decayed /\ ~raced[m].decayed
                /\ Told("memory_archived_by_worker", m)
                     <=> After[m].status = "archived" /\ raced[m].status # "archived"
                /\ Told("memory_content_compacted", m) <=> After[m].cleared /\ ~raced[m].cleared
                /\ Forgotten(m) => After[m].status = "deleted"
                /\ After[m].status = "deleted" /\ raced[m].status # "deleted" => Forgotten(m)
    <2>1. RowBook(job, raced[m], After[m], ToldOf(w, m))
      BY <1>13, <1>14, <1>17, <1>19 DEF Books
    <2>2. {"memory_decay_applied", "memory_archived_by_worker", "memory_content_compacted"} \subseteq DeedActs
      BY DEF DeedActs
    <2> QED
      BY <1>15, <1>16, <2>1, <2>2 DEF RowBook
  <1>20. Preview => After = raced
    BY <1>13, <1>14, <1>17
  <1>21. AtOnce => Worked.written = {e.id : e \in ToSet(Worked.trail)}
    BY <1>13, <1>14, <1>17 DEF Booked, EventsIn
  <1>22. UNION {Done(m) : m \in DOMAIN After} = Deeds(w)
    <2>1. ASSUME NEW m \in M PROVE Done(m) \subseteq Deeds(w)
      BY <1>14 DEF Done, Deeds, DeedActs, ForgetActs, EventsIn
    <2>2. ASSUME NEW e \in Deeds(w) PROVE e.memory \in M /\ e \in Done(e.memory)
      <3>1. e \in ToSet(Worked.trail) /\ e.action \in DeedActs /\ Tells(w, e.action, e.memory)
        BY <1>14 DEF Deeds, Tells, EventsIn
      <3>2. e.memory \in M
        BY <1>13, <3>1 DEF OwnTold
      <3> QED
        BY <3>1, <3>2 DEF Done, DeedActs, ForgetActs
    <2> QED
      BY <1>14, <2>1, <2>2
  <1>23. AtOnce /\ ~Preview /\ job \in Mutating =>
           /\ Worked.count["changed"] = Cardinality(UNION {Done(m) : m \in DOMAIN After})
           /\ Worked.count["scanned"] = Worked.count["changed"] + Worked.count["skipped"]
    <2> SUFFICES ASSUME AtOnce, ~Preview, job \in Mutating
                 PROVE  /\ w.count["changed"] = Cardinality(Deeds(w))
                        /\ w.count["scanned"] = w.count["changed"] + w.count["skipped"]
      BY <1>14, <1>22
    <2>1. ~w.raised /\ w \in Owing(M, Sayable, 0, 0)
      BY <1>13, <1>17
    <2>2. w.count \in [Counters -> Nat]
      BY <2>1 DEF Owing, Booked, WorkOf
    <2>3. w.count["changed"] \in Nat /\ w.count["skipped"] \in Nat
      BY <2>2 DEF Counters
    <2>4. /\ Cardinality(Deeds(w)) = w.count["changed"] + 0
          /\ w.count["scanned"] = w.count["changed"] + w.count["skipped"] + 0
      BY <2>1 DEF Owing
    <2> QED
      BY <2>3, <2>4
  <1>24. AtOnce /\ ~Preview /\ race.when = "never" /\ job \in Mutating =>
           again.work.rows = After /\ again.work.count["changed"] = 0
    BY <1>13, <1>14, <1>17
  <1>25. again = RunOneJob(asked.in.job, asked.in.ctx, [asked.in.race EXCEPT !.when = "never"],
                           Order, Work(After, 0))
    BY <1>4, <1>11, <1>12, <1>14
  <1> HIDE DEF M
  <1> QED
    BY <1>4, <1>14, <1>18, <1>19, <1>20, <1>21, <1>23, <1>24, <1>25 DEF JobsKeepTheirBooks

-----------------------------------------------------------------------------
(* Every question that is put, and what each answer shows.                  *)

Put(q) ==
  /\ "about" \in DOMAIN q
  /\ ChainPut(q) /\ AncestryPut(q) /\ ForgettingPut(q) /\ ApiPut(q) /\ ConsolePut(q) /\ StartPut(q)
  /\ AnswerPut(q) /\ LimiterPut(q) /\ SchemaPut(q) /\ JobsPut(q)

LEMMA SubjectsAre ==
  /\ AskChain => \E in : Ask("chain", in)
  /\ AskAncestry => \E in : Ask("ancestry", in)
  /\ AskForgetting => \E in : Ask("forgetting", in)
  /\ AskAnswer => \E in : Ask("answer", in)
  /\ AskStart => \E in : Ask("start", in)
  /\ AskCapture => \E in : Ask("capture", in)
  /\ AskLimiter => \E in : Ask("limiter", in)
  /\ AnotherArrives => \E in : Ask("limiter", in)
  /\ AskApi => \E in : Ask("api", in)
  /\ AskIdentity => \E in : Ask("api", in)
  /\ AskConsole => \E in : Ask("console", in)
  /\ AskJobs => \E in : Ask("jobs", in)
  /\ AskSchema => \E in : Ask("schema", in)
  <1>1. AskChain => \E in : Ask("chain", in)
    BY Zenon DEF AskChain
  <1>2. AskAncestry => \E in : Ask("ancestry", in)
    BY Zenon DEF AskAncestry
  <1>3. AskForgetting => \E in : Ask("forgetting", in)
    BY ForgettingIsPut
  <1>4. AskAnswer => \E in : Ask("answer", in)
    BY Zenon DEF AskAnswer
  <1>5. AskStart => \E in : Ask("start", in)
    BY Zenon DEF AskStart
  <1>6. AskCapture => \E in : Ask("capture", in)
    BY Zenon DEF AskCapture
  <1>7. AskLimiter => \E in : Ask("limiter", in)
    BY Zenon DEF AskLimiter
  <1>8. AskApi => \E in : Ask("api", in)
    BY Zenon DEF AskApi
  <1>9. AskIdentity => \E in : Ask("api", in)
    BY Zenon DEF AskIdentity
  <1>10. AskConsole => \E in : Ask("console", in)
    BY Zenon DEF AskConsole
  <1>11. AskJobs => \E in : Ask("jobs", in)
    BY ZenonT(60) DEF AskJobs
  <1>12. AskSchema => \E in : Ask("schema", in)
    BY Zenon DEF AskSchema
  <1>13. AnotherArrives => \E in : Ask("limiter", in)
    BY Zenon DEF AnotherArrives
  <1> QED
    BY <1>1, <1>2, <1>3, <1>4, <1>5, <1>6, <1>7, <1>8, <1>9, <1>10, <1>11, <1>12, <1>13

LEMMA AboutWhatIsAsked ==
  ASSUME NEW about, NEW in, Ask(about, in)
  PROVE  "about" \in DOMAIN asked' /\ asked'.about = about
  BY DEF Ask

LEMMA PutIsKept ==
  ASSUME Put(asked), [Next]_asked
  PROVE  Put(asked')
  <1> USE DEF Put
  <1>1. CASE AskChain
    <2>1. "about" \in DOMAIN asked' /\ asked'.about = "chain"
      BY <1>1, SubjectsAre, AboutWhatIsAsked
    <2> QED
      BY <1>1, <2>1, ChainIsPut DEF AncestryPut, ForgettingPut, ApiPut, ConsolePut, StartPut,
         AnswerPut, LimiterPut, SchemaPut, JobsPut
  <1>2. CASE AddRow
    <2>1. "about" \in DOMAIN asked' /\ asked'.about = "chain"
      BY <1>2 DEF AddRow
    <2> QED
      BY <1>2, <2>1, ChainIsPut DEF AncestryPut, ForgettingPut, ApiPut, ConsolePut, StartPut,
         AnswerPut, LimiterPut, SchemaPut, JobsPut
  <1>3. CASE AskAncestry
    <2>1. "about" \in DOMAIN asked' /\ asked'.about = "ancestry"
      BY <1>3, SubjectsAre, AboutWhatIsAsked
    <2> QED
      BY <1>3, <2>1, AncestryIsPut DEF ChainPut, ForgettingPut, ApiPut, ConsolePut, StartPut,
         AnswerPut, LimiterPut, SchemaPut, JobsPut
  <1>4. CASE AskForgetting
    <2>1. "about" \in DOMAIN asked' /\ asked'.about = "forgetting"
      BY <1>4, SubjectsAre, AboutWhatIsAsked
    <2> QED
      BY <1>4, <2>1, ForgettingIsPut DEF ChainPut, AncestryPut, ApiPut, ConsolePut, StartPut,
         AnswerPut, LimiterPut, SchemaPut, JobsPut
  <1>5. CASE AskApi \/ AskIdentity
    <2>1. "about" \in DOMAIN asked' /\ asked'.about = "api"
      BY <1>5, SubjectsAre, AboutWhatIsAsked
    <2> QED
      BY <1>5, <2>1, ApiIsPut DEF ChainPut, AncestryPut, ForgettingPut, ConsolePut, StartPut,
         AnswerPut, LimiterPut, SchemaPut, JobsPut
  <1>6. CASE AskConsole
    <2>1. "about" \in DOMAIN asked' /\ asked'.about = "console"
      BY <1>6, SubjectsAre, AboutWhatIsAsked
    <2> QED
      BY <1>6, <2>1, ConsoleIsPut DEF ChainPut, AncestryPut, ForgettingPut, ApiPut, StartPut,
         AnswerPut, LimiterPut, SchemaPut, JobsPut
  <1>7. CASE AskStart
    <2>1. "about" \in DOMAIN asked' /\ asked'.about = "start"
      BY <1>7, SubjectsAre, AboutWhatIsAsked
    <2> QED
      BY <1>7, <2>1, StartIsPut DEF ChainPut, AncestryPut, ForgettingPut, ApiPut, ConsolePut,
         AnswerPut, LimiterPut, SchemaPut, JobsPut
  <1>8. CASE AskCapture
    <2>1. "about" \in DOMAIN asked' /\ asked'.about = "capture"
      BY <1>8, SubjectsAre, AboutWhatIsAsked
    <2> QED
      BY <2>1 DEF ChainPut, AncestryPut, ForgettingPut, ApiPut, ConsolePut, StartPut, AnswerPut,
         LimiterPut, SchemaPut, JobsPut
  <1>13. CASE AskJobs
    <2>1. "about" \in DOMAIN asked' /\ asked'.about = "jobs"
      BY <1>13, SubjectsAre, AboutWhatIsAsked
    <2> QED
      BY <1>13, <2>1, JobsIsPut DEF ChainPut, AncestryPut, ForgettingPut, ApiPut, ConsolePut,
         StartPut, AnswerPut, LimiterPut, SchemaPut
  <1>9. CASE AskSchema
    <2>1. "about" \in DOMAIN asked' /\ asked'.about = "schema"
      BY <1>9, SubjectsAre, AboutWhatIsAsked
    <2> QED
      BY <1>9, <2>1, SchemaIsPut DEF ChainPut, AncestryPut, ForgettingPut, ApiPut, ConsolePut,
         StartPut, AnswerPut, LimiterPut, JobsPut
  <1>10. CASE AskAnswer
    <2>1. "about" \in DOMAIN asked' /\ asked'.about = "answer"
      BY <1>10, SubjectsAre, AboutWhatIsAsked
    <2> QED
      BY <1>10, <2>1, AnswerIsPut DEF ChainPut, AncestryPut, ForgettingPut, ApiPut, ConsolePut,
         StartPut, LimiterPut,
         SchemaPut, JobsPut
  <1>11. CASE AskLimiter \/ AnotherArrives
    <2>1. "about" \in DOMAIN asked' /\ asked'.about = "limiter"
      BY <1>11, SubjectsAre, AboutWhatIsAsked
    <2> QED
      BY <1>11, <2>1, LimiterIsPut DEF ChainPut, AncestryPut, ForgettingPut, ApiPut, ConsolePut,
         StartPut,
         AnswerPut, SchemaPut, JobsPut
  <1>12. CASE UNCHANGED asked
    <2>1. asked' = asked
      BY <1>12
    <2> HIDE DEF Put
    <2> QED
      BY <2>1
  <1>14. \/ AskChain \/ AddRow \/ AskAncestry \/ AskForgetting \/ AskAnswer
         \/ AskStart \/ AskCapture \/ AskLimiter \/ AnotherArrives \/ AskApi \/ AskIdentity
         \/ AskConsole \/ AskJobs \/ AskSchema \/ UNCHANGED asked
    BY Zenon DEF Next
  <1> HIDE DEF Put
  <1> QED
    BY <1>1, <1>2, <1>3, <1>4, <1>5, <1>6, <1>7, <1>8, <1>9, <1>10, <1>11, <1>12, <1>13, <1>14

LEMMA QuestionsArePut == Spec => []Put(asked)
  <1>1. Init => Put(asked)
    BY DEF Init, Put, ChainPut, AncestryPut, ForgettingPut, ApiPut, ConsolePut, StartPut,
         AnswerPut, LimiterPut, SchemaPut, JobsPut
  <1>2. Put(asked) /\ [Next]_asked => Put(asked)'
    BY PutIsKept
  <1> QED
    BY <1>1, <1>2, PTL DEF Spec

(* verify_chain answers ok exactly for the unbroken chains from the genesis, *)
(* for row sets of any size over any events.                                *)
THEOREM ChainsVerifyExactly == Spec => []VerifiesExactlyChains
  <1>1. Put(asked) => VerifiesExactlyChains
    BY ChainsAreVerified DEF Put
  <1> QED
    BY <1>1, QuestionsArePut, PTL

(* The walk up the lineage fails closed and admits the clean, for any       *)
(* number of memories and any cap.                                          *)
THEOREM LineagesAreJudged == Spec => []LineageFailsClosed
  <1>1. Put(asked) => LineageFailsClosed
    BY LineagesFailClosed DEF Put
  <1> QED
    BY <1>1, QuestionsArePut, PTL

(* Nothing due is recalled between two passes: the gate and the worker say  *)
(* expired for the same memories at the same instant.                       *)
THEOREM DueIsNotRecalled == Spec => []NothingDueIsRecalled
  <1>1. Put(asked) => NothingDueIsRecalled
    BY DueIsBlocked DEF Put
  <1> QED
    BY <1>1, QuestionsArePut, PTL

(* Answers stay in the caller's tenant and within what the roles allow,     *)
(* whatever the tenants, users and stored owners.                           *)
THEOREM RolesBoundEveryAnswer == Spec => []RolesBoundTheAnswer
  <1>1. Put(asked) => RolesBoundTheAnswer
    BY AnswersAreApart DEF Put
  <1> QED
    BY <1>1, QuestionsArePut, PTL

(* A claim that names no role grants nothing, and claims elsewhere than the *)
(* deployment looks make no difference.                                     *)
THEOREM UnknownClaimsGrantNothing == Spec => []UnknownClaimGrantsNothing
  <1>1. Put(asked) => UnknownClaimGrantsNothing
    BY ClaimsGrantNothing DEF Put
  <1> QED
    BY <1>1, QuestionsArePut, PTL

(* Somebody else's record is answered for like one that does not exist.     *)
THEOREM ForeignAlwaysLooksAbsent == Spec => []ForeignLooksAbsent
  <1>1. Put(asked) => ForeignLooksAbsent
    BY ForeignIsHidden DEF Put
  <1> QED
    BY <1>1, QuestionsArePut, PTL

(* The console refuses nothing that the API would allow its persona.        *)
THEOREM ConsoleIsNotStricter == Spec => []ConsoleRefusesNothingAllowed
  <1>1. Put(asked) => ConsoleRefusesNothingAllowed
    BY ConsoleRefusesRightly DEF Put
  <1> QED
    BY <1>1, QuestionsArePut, PTL

(* The scope a browser names makes no difference to the answer.             *)
THEOREM ConsoleKeepsTheScope == Spec => []SessionScopeIsKept
  <1>1. Put(asked) => SessionScopeIsKept
    BY SessionsKeepTheirScope DEF Put
  <1> QED
    BY <1>1, QuestionsArePut, PTL

(* What a withheld memory says never leaves in an answer, and nothing else  *)
(* is lost from it.                                                         *)
THEOREM WithheldAlwaysStays == Spec => []WithheldStaysWithheld
  <1>1. Put(asked) => WithheldStaysWithheld
    BY WithheldIsKept DEF Put
  <1> QED
    BY <1>1, QuestionsArePut, PTL

(* The limiter lets in exactly as many as it should, and whoever waits as   *)
(* told gets in.                                                            *)
THEOREM LimiterAlwaysKeepsItsPromise == Spec => []LimiterKeepsItsPromise
  <1>1. Put(asked) => LimiterKeepsItsPromise
    BY PromisesAreKept DEF Put
  <1> QED
    BY <1>1, QuestionsArePut, PTL

(* A production process that starts has every control, real storage and     *)
(* authentication, and every provider it selected.                          *)
THEOREM ProductionStartsComplete == Spec => []ProductionIsWhatItClaims
  <1>1. Put(asked) => ProductionIsWhatItClaims
    BY StartedIsWhatItClaims DEF Put
  <1> QED
    BY <1>1, QuestionsArePut, PTL

(* However many passes are made over the migrations, each stopped wherever, *)
(* the next one can be run; a session under row security sees no tenant it  *)
(* did not ask for once the marker is set; after a whole pass every tenant  *)
(* sees its own rows and the verifier passes, and it passes only then.      *)
THEOREM AnyPassesKeepApart ==
  ASSUME NEW stop, \A m \in Nat : stop[m] \in Stops,
         NEW db, db[0] = EmptyDatabase, \A m \in Nat : db[m + 1] = Pass(db[m], stop[m]),
         NEW n \in Nat
  PROVE  /\ ~db[n].failed
         /\ CurrentSchema(db[n]) => SessionsApart(db[n]) /\ EvidenceApart(db[n])
         /\ stop[n] = Whole => ShowsOwn(db[n + 1]) /\ VerifierIsRight(db[n + 1], TRUE)
         /\ VerifierIsRight(db[n], FALSE)
  <1> DEFINE S == {m \in Nat : Rest(db[m])}
  <1>1. 0 \in S
    BY EmptyIsAtRest
  <1>2. ASSUME NEW m \in S PROVE m + 1 \in S
    <2>1. Rest(Pass(db[m], stop[m]))
      BY PassKeepsRest
    <2> QED
      BY <2>1
  <1>3. S = Nat
    <2> HIDE DEF S
    <2>1. S \in SUBSET Nat
      BY DEF S
    <2> QED
      BY <1>1, <1>2, <2>1, SetInduction
  <1>4. Rest(db[n]) /\ Rest(db[n + 1])
    <2>1. n \in S /\ n + 1 \in S
      BY <1>3
    <2> QED
      BY <2>1
  <1>5. stop[n] = Whole => Made(db[n + 1], 10)
    BY <1>4, PassKeepsRest
  <1>6. ~db[n].failed
    BY <1>4 DEF Rest, Sound
  <1> QED
    BY <1>4, <1>5, <1>6, DatabasesKeepApart

(* Tenants stay apart under row-level security after any two passes over    *)
(* the migrations that stopped anywhere, for any set of tenants.            *)
THEOREM TenantsAlwaysApart == Spec => []TenantsStayApart
  <1>1. Put(asked) => TenantsStayApart
    BY SchemaKeepsApart DEF Put
  <1> QED
    BY <1>1, QuestionsArePut, PTL

(* A purge that is called verified left a tombstone without content, only   *)
(* deleted rows lose their content, and a job that went through at once     *)
(* reports every purge and every memory that can still be reached.          *)
THEOREM PurgesAlwaysProved == Spec => []PurgesAreProved
  <1>1. Put(asked) => PurgesAreProved
    BY PurgesProve DEF Put
  <1> QED
    BY <1>1, QuestionsArePut, PTL

(* Whichever call of a job fails, and whether it is run again, what the     *)
(* trail and the result of the job say is what it did.                      *)
THEOREM BooksAlwaysKept == Spec => []JobsKeepTheirBooks
  <1>1. Put(asked) => JobsKeepTheirBooks
    BY BooksAreKept DEF Put
  <1> QED
    BY <1>1, QuestionsArePut, PTL

(* Whatever memories a provider hands over, of any texts: what the broker   *)
(* lets be stored has no secret, no injected instruction, no credential and *)
(* no instruction about memory, its label is not below what the classifier  *)
(* sees, what is sensitive waits for approval, and an edit to the same text *)
(* would not be refused.                                                    *)
THEOREM StoredIsScreened ==
  ASSUME NEW memories, \A m \in ToSet(memories) : m.label \in Labels,
         NEW approval \in BOOLEAN, NEW row \in Stored(memories, approval)
  PROVE  /\ Matched(row.content) \cap {"secret", "injection"} = {}
         /\ "credential" \notin Classify(row.content) /\ ~IsMemoryControl(row.content)
         /\ RankOf[row.label] >= RankOf[DetectedSensitivity(row.content)]
         /\ EvaluateUpdate(row.content, approval).decision # "BLOCK"
         /\ row.label # "low" /\ approval => row.status = "pending"
  <1>1. PICK m \in ToSet(memories) :
           /\ EvaluateCandidate(m, FALSE, approval).decision \in {"SAVE", "PENDING_APPROVAL"}
           /\ row = Commit(m, EvaluateCandidate(m, FALSE, approval))
    BY DEF Stored
  <1> DEFINE label == Higher(m.label, DetectedSensitivity(m.content))
  <1>2. /\ ~IsMemoryControl(m.content) /\ Blocking(m.content) = {}
        /\ label # "low" /\ approval =>
             EvaluateCandidate(m, FALSE, approval).decision = "PENDING_APPROVAL"
        /\ EvaluateCandidate(m, FALSE, approval).label = label
    BY <1>1 DEF EvaluateCandidate, Outcome
  <1>3. row.content = m.content /\ row.label = label
    BY <1>1, <1>2 DEF Commit
  <1>4. label # "low" /\ approval => row.status = "pending"
    <2>1. row.status = IF EvaluateCandidate(m, FALSE, approval).decision = "SAVE" THEN "active" ELSE "pending"
      BY <1>1 DEF Commit
    <2> HIDE DEF label
    <2> QED
      BY <1>2, <2>1
  <1>5. RankOf[label] >= RankOf[DetectedSensitivity(m.content)]
    <2>1. m.label \in Labels /\ DetectedSensitivity(m.content) \in Labels
      BY <1>1 DEF DetectedSensitivity, Labels
    <2>2. \A l \in Labels : RankOf[l] \in 0..2
      BY DEF Labels, RankOf
    <2>3. CASE RankOf[DetectedSensitivity(m.content)] > RankOf[m.label]
      BY <2>1, <2>2, <2>3 DEF Higher
    <2>4. CASE ~(RankOf[DetectedSensitivity(m.content)] > RankOf[m.label])
      <3>1. label = m.label
        BY <2>4 DEF Higher
      <3>2. RankOf[m.label] \in 0..2 /\ RankOf[DetectedSensitivity(m.content)] \in 0..2
        BY <2>1, <2>2
      <3> HIDE DEF label
      <3> QED
        BY <2>4, <3>1, <3>2
    <2> QED
      BY <2>3, <2>4
  <1>6. EvaluateUpdate(m.content, approval).decision # "BLOCK"
    BY <1>2 DEF EvaluateUpdate, Outcome
  <1>7. /\ Matched(m.content) \cap {"secret", "injection"} = {}
        /\ "credential" \notin Classify(m.content)
    BY <1>2 DEF Blocking
  <1> HIDE DEF label
  <1> QED
    BY <1>2, <1>3, <1>4, <1>5, <1>6, <1>7
=============================================================================
