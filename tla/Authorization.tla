--------------------------- MODULE Authorization ---------------------------
(***************************************************************************)
(* Who may do what: from the credential of a request to the scope its      *)
(* handler runs on.                                                        *)
(*                                                                         *)
(* A request passes the middleware (authentication, and the scope named in *)
(* the query), then the checks its handler makes. Verdict gives the status *)
(* it is refused with, or 200 with the tenant and the users whose records  *)
(* the handler goes on with.                                               *)
(***************************************************************************)
EXTENDS Integers, FiniteSets, SequencesExt

CONSTANTS
  Tenants, Users,
  Unnamed,         \* a header, parameter or field that is not given
  NoSuchRole       \* a role name that means nothing here

ASSUME ScopesAssumption == Unnamed \notin Tenants \cup Users

\* Permissions (Permission).
TenantMemory == {"memory:read:tenant", "memory:write:tenant", "memory:archive:tenant",
                 "memory:delete:tenant", "memory:approve:tenant", "memory:reject:tenant"}

SelfMemory == {"memory:read:self", "memory:write:self", "memory:archive:self",
               "memory:delete:self", "audit:read:self"}

RetentionAdmin == {"retention:read", "retention:manage", "consent:manage"}

EvidenceReads == {"audit:read:tenant", "metrics:read:tenant", "evidence:read"}

OpsReads == {"ops:evals:read", "ops:evals:run", "ops:traces:read", "ops:metrics", "ops:readiness"}

Permissions == TenantMemory \cup SelfMemory \cup RetentionAdmin \cup EvidenceReads \cup OpsReads
                 \cup {"settings:manage", "worker:read", "worker:replay"}

RolePermissions ==
  [memory_viewer     |-> {"memory:read:self", "audit:read:self"},
   memory_user       |-> SelfMemory,
   memory_admin      |-> SelfMemory \cup TenantMemory \cup RetentionAdmin,
   auditor           |-> {"memory:read:self", "memory:read:tenant", "audit:read:self",
                          "retention:read"} \cup EvidenceReads,
   tenant_admin      |-> SelfMemory \cup TenantMemory \cup RetentionAdmin \cup EvidenceReads
                           \cup {"settings:manage"},
   service_worker    |-> {"worker:read", "worker:replay"},
   platform_operator |-> OpsReads \cup {"worker:read"}]

Roles == DOMAIN RolePermissions

RoleNames == Roles \cup {"memory_reader", NoSuchRole}

PermissionsFor(roles) == UNION {RolePermissions[r] : r \in roles}

\* ---- claims ----

\* A node of a token's payload, or of a claim in it.
Missing == [kind |-> "missing"]

Null == [kind |-> "null"]

Scalar(value) == [kind |-> "scalar", value |-> value]

List(names) == [kind |-> "list", names |-> names]

Object(fields) == [kind |-> "object", fields |-> fields]

\* The node at a path; a null that is there is not missing.
ClaimNode(payload, path) ==
  LET node[k \in 0..Len(path)] ==
        LET above == node[k - 1] IN
        IF k = 0 THEN payload
        ELSE IF above.kind = "object" /\ path[k] \in DOMAIN above.fields THEN above.fields[path[k]]
        ELSE Missing
  IN  node[Len(path)]

\* An identifier is a scalar: no list or object is made into one.
ClaimPath(payload, path) ==
  LET node == ClaimNode(payload, path) IN IF node.kind = "scalar" THEN node.value ELSE Unnamed

ParseRoles(claim) ==
  LET names == CASE claim.kind = "list"   -> claim.names
                 [] claim.kind = "scalar" -> {claim.value}
                 [] OTHER                 -> {}
  IN  (names \cap Roles) \cup (IF "memory_reader" \in names THEN {"memory_user"} ELSE {})

EffectiveRolesByValue(claim, requireClaim) ==
  IF ParseRoles(claim) = {} /\ ~requireClaim THEN {"memory_user"} ELSE ParseRoles(claim)

EffectiveRoles(claim, requireClaim) ==
  IF claim = Missing /\ ~requireClaim THEN {"memory_user"} ELSE ParseRoles(claim)

\* ---- credentials ----

\* What tokens are verified with: the configured key, or those the issuer publishes.
\* A published key once met is kept, even when it is withdrawn or cannot be fetched.
SigningKeys(jwks, met) ==
  CASE jwks = "not used"    -> {"configured key"}
    [] jwks = "unreachable" -> met
    [] OTHER                -> met \cup {"published key"}

\* How a deployment authenticates: what the provider takes, and where it looks.
BuildProvider(s) ==
  [scheme |-> IF s.auth = "jwt" THEN "bearer" ELSE "headers", requireClaim |-> s.requireClaim,
   keys |-> SigningKeys(s.jwks, s.met), algorithms |-> {"HS256"}, audience |-> s.audience,
   tenantClaim |-> <<"tenant_id">>, userClaim |-> <<"sub">>, rolesClaim |-> s.rolesClaim]

\* Seconds a token is still taken after its end.
Leeway == 60

\* The payload of a token, whose end is in expires seconds; Missing when it is refused.
DecodeJwt(token, provider) ==
  IF /\ token.wellFormed
     /\ token.key \in provider.keys /\ token.algorithm \in provider.algorithms
     /\ token.expires > -Leeway
     /\ provider.audience \in {Unnamed, token.audience}
  THEN token.payload ELSE Missing

NoPrincipal == [tenant |-> Unnamed, user |-> Unnamed, roles |-> {}]

Principal(tenant, user, claim, provider) ==
  IF tenant = Unnamed \/ user = Unnamed THEN NoPrincipal
  ELSE [tenant |-> tenant, user |-> user, roles |-> EffectiveRoles(claim, provider.requireClaim)]

\* The principal of a credential, if it is of the kind the provider takes.
Resolve(c, provider) ==
  IF c.scheme # provider.scheme THEN NoPrincipal
  ELSE IF c.scheme = "headers" THEN Principal(c.tenant, c.user, c.roles, provider)
  ELSE LET payload == DecodeJwt(c.token, provider)
       IN  Principal(ClaimPath(payload, provider.tenantClaim), ClaimPath(payload, provider.userClaim),
                     ClaimNode(payload, provider.rolesClaim), provider)

Has(p, permission) == permission \in PermissionsFor(p.roles)

\* ---- what the routes declare (ROUTE_AUTHZ) ----

NoPermission == "none"

Needs(permission) == [kind |-> "permission", permission |-> permission]

Subject(self, tenant) == [kind |-> "subject", self |-> self, tenant |-> tenant]

Resource(self, tenant) == [kind |-> "resource", self |-> self, tenant |-> tenant]

Variants ==
  [edit    |-> Resource("memory:write:self", "memory:write:tenant"),
   archive |-> Resource("memory:archive:self", "memory:archive:tenant"),
   restore |-> Resource("memory:archive:self", "memory:archive:tenant"),
   approve |-> Resource(NoPermission, "memory:approve:tenant"),
   reject  |-> Resource(NoPermission, "memory:reject:tenant")]

Declared ==
  [chat           |-> Needs("memory:write:self"),
   list_memories  |-> Subject("memory:read:self", "memory:read:tenant"),
   get_memory     |-> Resource("memory:read:self", "memory:read:tenant"),
   patch_memory   |-> [kind |-> "variants"],
   delete_memory  |-> Resource("memory:delete:self", "memory:delete:tenant"),
   memory_audit   |-> Resource("audit:read:self", "audit:read:tenant"),
   provenance     |-> Resource("memory:read:self", "memory:read:tenant"),
   get_audit      |-> Subject("audit:read:self", "audit:read:tenant"),
   metrics        |-> Needs("metrics:read:tenant"),
   traces         |-> Needs("ops:traces:read"),
   evidence       |-> Needs("evidence:read"),
   retention_read |-> Needs("retention:read"),
   retention_set  |-> Needs("retention:manage"),
   consent        |-> Needs("consent:manage"),
   loop_runs      |-> Needs("audit:read:tenant"),
   loops          |-> [kind |-> "authenticated"],
   evals_run      |-> Needs("ops:evals:run"),
   evals_latest   |-> Needs("ops:evals:read"),
   readiness      |-> Needs("ops:readiness"),
   workers_health |-> Needs("worker:read")]

Routes == DOMAIN Declared

\* ---- verdicts ----

Refuse(code) == [code |-> code, tenant |-> Unnamed, users |-> {}, actions |-> {}]

Proceed(tenant, users) == [code |-> 200, tenant |-> tenant, users |-> users, actions |-> {}]

\* The users a query for u reads: everybody when it names nobody.
Asked(u) == IF u = Unnamed THEN Users ELSE {u}

AuthorizeSubject(p, tenant, user, spec) ==
  LET wide == user = Unnamed \/ user # p.user IN
  IF tenant # p.tenant THEN Refuse(403)
  ELSE IF ~Has(p, IF wide THEN spec.tenant ELSE spec.self) THEN Refuse(403)
  ELSE Proceed(p.tenant, IF wide THEN Asked(user) ELSE {p.user})

RequiredFromOwnership(p, owner, spec) ==
  IF owner = p.user THEN (IF spec.self = NoPermission THEN "memory:write:self" ELSE spec.self)
  ELSE spec.tenant

\* An action without a self permission is the tenant's even on one's own record.
RequiredOn(p, owner, spec) ==
  IF owner = p.user /\ spec.self # NoPermission THEN spec.self ELSE spec.tenant

AuthorizeLoadedNaming(p, row, spec) ==
  IF row.tenant # p.tenant THEN Refuse(404)
  ELSE IF ~Has(p, RequiredOn(p, row.owner, spec)) THEN Refuse(403)
  ELSE Proceed(row.tenant, {row.owner})

AuthorizeLoaded(p, row, spec) ==
  IF row.tenant # p.tenant THEN Refuse(404)
  ELSE IF ~Has(p, RequiredOn(p, row.owner, spec))
       THEN Refuse(IF row.owner = p.user THEN 403 ELSE 404)
  ELSE Proceed(row.tenant, {row.owner})

\* ---- PATCH ----

\* "gone" stands for the statuses PATCH never assigns: deleted, pending, blocked.
PatchTargets == {Unnamed, "active", "archived", "rejected", "gone"}

Transition(from, to) ==
  CASE from = "pending"  /\ to = "active"   -> "approve"
    [] from = "pending"  /\ to = "rejected" -> "reject"
    [] from = "active"   /\ to = "archived" -> "archive"
    [] from = "archived" /\ to = "active"   -> "restore"
    [] OTHER -> "invalid"

DerivePatchActions(row, patch) ==
  (IF patch.edit THEN {"edit"} ELSE {})
    \cup (IF patch.status # Unnamed THEN {Transition(row.status, patch.status)} ELSE {})

\* Every action the body asks for is authorized on its own; the first refusal answers.
AuthorizePatch(p, row, patch) ==
  LET actions == DerivePatchActions(row, patch)
      refused == {AuthorizeLoaded(p, row, Variants[a]).code : a \in actions} \ {200}
  IN  IF refused # {} THEN Refuse(CHOOSE c \in refused : TRUE)
      ELSE [Proceed(row.tenant, {row.owner}) EXCEPT !.actions = actions]

\* ---- the handlers ----

OutOfScope(p, tenant, user) ==
  \/ tenant # Unnamed /\ tenant # p.tenant
  \/ user # Unnamed /\ user # p.user

InQuery == {"list_memories", "get_memory", "memory_audit", "provenance", "get_audit", "metrics",
            "evidence", "retention_read", "loop_runs"}

\* Deployment surfaces and loop definitions: no tenant's records.
ProcessWide == {"traces", "evals_run", "evals_latest", "readiness", "workers_health", "loops"}

Permitted(p, spec) == spec.kind = "authenticated" \/ Has(p, spec.permission)

\* A handler with a permission of its own: the query runs on the principal's scope.
\* Retention mutations load the record in the tenant and run on its owner.
HandleFixed(p, r) ==
  IF r.route = "chat" /\ OutOfScope(p, r.tenant, r.user) THEN Refuse(403)
  ELSE IF ~Permitted(p, Declared[r.route]) THEN Refuse(403)
  ELSE IF r.route \in ProcessWide THEN Proceed(Unnamed, {})
  ELSE IF r.route \in {"retention_set", "consent"}
       THEN IF r.tenant # p.tenant THEN Refuse(403)
            ELSE IF ~r.row.exists \/ r.row.tenant # p.tenant THEN Refuse(404)
            ELSE Proceed(p.tenant, {r.row.owner})
  ELSE IF r.route = "loop_runs" THEN Proceed(p.tenant, Asked(r.user))
  ELSE IF r.route = "metrics" THEN Proceed(r.tenant, Users)
  ELSE Proceed(p.tenant, {p.user})

HandleLoaded(p, r) ==
  IF r.route = "delete_memory" /\ OutOfScope(p, r.tenant, r.user) THEN Refuse(403)
  ELSE IF ~r.row.exists \/ r.row.tenant # p.tenant THEN Refuse(404)
  ELSE AuthorizeLoaded(p, r.row, Declared[r.route])

HandlePatch(p, r) ==
  IF OutOfScope(p, r.tenant, r.user) THEN Refuse(403)
  ELSE IF ~r.patch.edit /\ r.patch.status = Unnamed THEN Refuse(422)
  ELSE IF ~r.row.exists \/ r.row.tenant # p.tenant \/ r.row.status = "deleted" THEN Refuse(404)
  ELSE IF r.patch.status = "gone" THEN Refuse(422)
  ELSE IF "invalid" \in DerivePatchActions(r.row, r.patch) THEN Refuse(409)
  ELSE AuthorizePatch(p, r.row, r.patch)

Handle(p, r) ==
  LET spec == Declared[r.route] IN
  CASE spec.kind = "variants" -> HandlePatch(p, r)
    [] spec.kind = "subject"  -> AuthorizeSubject(p, r.tenant, r.user, spec)
    [] spec.kind = "resource" -> HandleLoaded(p, r)
    [] OTHER                  -> HandleFixed(p, r)

\* The middleware, with authentication on, and the handler behind it.
Verdict(r, settings) ==
  LET p == Resolve(r.credential, BuildProvider(settings)) IN
  IF p = NoPrincipal THEN Refuse(401)
  ELSE IF r.route \in InQuery /\ OutOfScope(p, r.tenant, r.user) THEN Refuse(403)
  ELSE Handle(p, r)
=============================================================================
