------------------------------ MODULE WebProxy ------------------------------
(***************************************************************************)
(* The web console's backend-for-frontend: the only way from a browser to  *)
(* the API. It takes the identity from the session, refuses what the       *)
(* persona could never be allowed, drops the scope the client named and    *)
(* presents a credential of its own. The API decides again.                *)
(***************************************************************************)
EXTENDS Authorization

CONSTANTS DemoTenant, DemoUser

Personas == {"viewer", "developer", "auditor", "memory_admin", "owner"}

ApiRoleFor ==
  [viewer |-> "memory_viewer", developer |-> "memory_user", auditor |-> "auditor",
   memory_admin |-> "memory_admin", owner |-> "tenant_admin"]

NoIdentity == [tenant |-> Unnamed, user |-> Unnamed, role |-> "viewer", demo |-> FALSE]

\* An unknown persona is the least privileged one; a session without a scope is none.
ResolveIdentity(webMode, session) ==
  IF webMode = "demo"
  THEN [tenant |-> DemoTenant, user |-> DemoUser, role |-> "owner", demo |-> TRUE]
  ELSE IF session.tenant = Unnamed \/ session.user = Unnamed THEN NoIdentity
  ELSE [tenant |-> session.tenant, user |-> session.user, demo |-> FALSE,
        role |-> IF session.role \in Personas THEN session.role ELSE "viewer"]

RoleHolds(role, permissions) == permissions \cap RolePermissions[ApiRoleFor[role]] # {}

PermissionsOf(spec) == {spec.self, spec.tenant} \ {NoPermission}

CandidatesTakenForApproval(status) ==
  CASE status = "archived" -> {"archive"}
    [] status = "rejected" -> {"reject"}
    [] status = "active"   -> {"approve"}
    [] OTHER -> {}

\* What a body's status may mean; the browser does not know the record's status.
CandidateActions(status) ==
  CASE status = "archived" -> {"archive"}
    [] status = "rejected" -> {"reject"}
    [] status = "active"   -> {"approve", "restore"}
    [] OTHER -> {}

CanPatch(role, patch) ==
  /\ patch.edit \/ patch.status # Unnamed
  /\ patch.edit => RoleHolds(role, PermissionsOf(Variants["edit"]))
  /\ patch.status # Unnamed =>
       RoleHolds(role, UNION {PermissionsOf(Variants[a]) : a \in CandidateActions(patch.status)})

CanAttempt(role, route, patch) ==
  LET spec == Declared[route] IN
  CASE spec.kind = "variants"      -> CanPatch(role, patch)
    [] spec.kind = "authenticated" -> TRUE
    [] spec.kind = "permission"    -> RoleHolds(role, {spec.permission})
    [] OTHER                       -> RoleHolds(role, PermissionsOf(spec))

\* A token of the session's own tenant and user, with the role of its persona.
MintApiToken(identity) ==
  [wellFormed |-> TRUE, key |-> "configured key", algorithm |-> "HS256", expires |-> 120,
   audience |-> Unnamed,
   payload |-> Object([tenant_id |-> Scalar(identity.tenant), sub |-> Scalar(identity.user),
                       roles |-> List({ApiRoleFor[identity.role]})])]

NoCredential == [scheme |-> "none"]

Credential(identity, authMode) ==
  CASE authMode = "jwt" -> [scheme |-> "bearer", token |-> MintApiToken(identity)]
    [] authMode = "trusted_header" -> [scheme |-> "headers", tenant |-> identity.tenant,
         user |-> identity.user, roles |-> Scalar(ApiRoleFor[identity.role])]
    [] OTHER -> NoCredential

UpstreamAsNamed(identity, authMode, r) ==
  [r EXCEPT !.credential = Credential(identity, authMode),
            !.tenant = IF r.tenant = Unnamed THEN identity.tenant ELSE r.tenant,
            !.user = IF r.user = Unnamed THEN identity.user ELSE r.user]

\* The request sent upstream: the identity's scope replaces whatever the client named.
Upstream(identity, authMode, r) ==
  [r EXCEPT !.credential = Credential(identity, authMode),
            !.tenant = identity.tenant, !.user = identity.user]

Proxy(webMode, session, authMode, r, settings) ==
  LET identity == ResolveIdentity(webMode, session) IN
  IF identity = NoIdentity THEN Refuse(401)
  ELSE IF ~CanAttempt(identity.role, r.route, r.patch) THEN Refuse(403)
  ELSE IF identity.demo /\ authMode # "none" THEN Refuse(500)
  ELSE Verdict(Upstream(identity, authMode, r), settings)
=============================================================================
